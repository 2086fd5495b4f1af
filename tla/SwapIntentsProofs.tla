-------------------------- MODULE SwapIntentsProofs --------------------------
(***************************************************************************)
(* Theorems about swap intents under delegations, for any users, agents,   *)
(* delegations, caps and consents.                                         *)
(***************************************************************************)
EXTENDS SwapIntents, TLAPS

USE DelegationsAssumption, SwapIntentsAssumption

-----------------------------------------------------------------------------
(* The inductive invariant.                                                *)

\* The counted spend is never below what agents have put up net.
SpendCovers == \A u \in Users : \A n \in 1..MaxDay : net[u][n] <= spend[u][n]

\* A spend is nothing, or within the cap of one of the user's delegations.
CappedSpend(u, s) ==
  s = 0 \/ \E d \in DelegationIds : SubjectOf[d] = u /\ Capped(d) /\ s <= MaxPerDay[d]

\* So is the spend of every day.
SpendCapped == \A u \in Users : \A n \in 1..MaxDay : CappedSpend(u, spend[u][n])

\* A consent that has been used is recorded as used, and has been used once.
UsesRecorded == \A n \in Nonces : uses[n] <= 1 /\ (uses[n] # 0 => n \in usedNonces)

\* Nothing has been changed under a revoked delegation since its revocation.
RevokedIdle == \A d \in DelegationIds : delegation[d] = "revoked" => d \notin acted

IntentsInv == TypeOK /\ SpendCovers /\ SpendCapped /\ UsesRecorded /\ HighValueConsented /\ RevokedIdle

-----------------------------------------------------------------------------
(* What the parts of a write do.                                           *)

\* A stored intent has an owner, a value and a status.
LEMMA StoredIntentFacts ==
  /\ \A b \in Bodies, s \in {"active", "cancelled"} : Stored(b, s) \in StoredIntent
  /\ \A x \in StoredIntent :
       /\ x.max \in Nat
       /\ x.status \in {"active", "cancelled"}
       /\ [x EXCEPT !.status = "cancelled"] \in StoredIntent
       /\ [x EXCEPT !.status = "cancelled"].max = x.max
       /\ [x EXCEPT !.status = "cancelled"].status = "cancelled"
  <1>1. ASSUME NEW b \in Bodies, NEW s \in {"active", "cancelled"} PROVE Stored(b, s) \in StoredIntent
    BY DEF StoredIntent
  <1>2. ASSUME NEW x \in StoredIntent
        PROVE  /\ x.max \in Nat
               /\ x.status \in {"active", "cancelled"}
               /\ [x EXCEPT !.status = "cancelled"] \in StoredIntent
               /\ [x EXCEPT !.status = "cancelled"].max = x.max
               /\ [x EXCEPT !.status = "cancelled"].status = "cancelled"
    <2>1. PICK b \in Bodies, s \in {"active", "cancelled"} : x = Stored(b, s)
      BY DEF StoredIntent
    <2>2. x = [owner |-> b.owner, max |-> b.max, status |-> s]
      BY <2>1 DEF Stored
    <2>3. [x EXCEPT !.status = "cancelled"] = [owner |-> b.owner, max |-> b.max, status |-> "cancelled"]
      BY <2>2
    <2>4. Stored(b, "cancelled") = [owner |-> b.owner, max |-> b.max, status |-> "cancelled"]
      BY DEF Stored
    <2>5. [x EXCEPT !.status = "cancelled"] \in StoredIntent
      BY <1>1, <2>3, <2>4
    <2> QED BY <2>2, <2>3, <2>5
  <1> QED BY <1>1, <1>2

\* What an intent counts for is a number.
LEMMA ActiveMaxNat ==
  ASSUME TypeOK, NEW i \in IntentIds
  PROVE  ActiveMax(intent[i], NoIntent) \in Nat
  <1>1. CASE intent[i] = NoIntent
    BY <1>1 DEF ActiveMax
  <1>2. CASE intent[i] # NoIntent
    <2>1. intent[i] \in StoredIntent
      BY <1>2 DEF TypeOK
    <2> QED BY <1>2, <2>1, StoredIntentFacts DEF ActiveMax
  <1> QED BY <1>1, <1>2

\* A write under a capped delegation keeps the spend above the net, and
\* within a cap if the day's spend moves to within one or does not grow.
LEMMA CappedChargeKeeps ==
  ASSUME TypeOK, SpendCovers, SpendCapped,
         NEW d \in DelegationIds, NEW i \in IntentIds, NEW x,
         ActiveMax(x, NoIntent) \in Nat,
         Capped(d), Charge(d, i, x),
         \/ WithinCap(d, spend[SubjectOf[d]][today], ActiveMax(intent[i], NoIntent), ActiveMax(x, NoIntent))
         \/ ActiveMax(x, NoIntent) <= ActiveMax(intent[i], NoIntent)
  PROVE  /\ spend' \in [Users -> [1..MaxDay -> Nat]]
         /\ net' \in [Users -> [1..MaxDay -> Int]]
         /\ \A u \in Users : \A n \in 1..MaxDay :
              /\ net'[u][n] <= spend'[u][n]
              /\ CappedSpend(u, spend'[u][n])
  <1> DEFINE s     == SubjectOf[d]
             after == ActiveMax(x, NoIntent)
             before == ActiveMax(intent[i], NoIntent)
             delta == after - before
  <1>1. /\ s \in Users /\ today \in 1..MaxDay
        /\ before \in Nat /\ after \in Nat /\ MaxPerDay[d] \in Nat
        /\ spend[s][today] \in Nat /\ net[s][today] \in Int
    <2>1. s \in Users /\ today \in 1..MaxDay /\ MaxPerDay[d] \in Nat
      BY DEF TypeOK, Capped
    <2>2. before \in Nat /\ after \in Nat
      BY ActiveMaxNat
    <2>3. spend[s][today] \in Nat /\ net[s][today] \in Int
      BY <2>1 DEF TypeOK
    <2> QED BY <2>1, <2>2, <2>3
  <1>2. /\ spend' = [spend EXCEPT ![s] = [spend[s] EXCEPT ![today] = NonNegative(spend[s][today] + delta)]]
        /\ net' = [net EXCEPT ![s] = [net[s] EXCEPT ![today] = net[s][today] + delta]]
    BY DEF Charge
  <1>3. \/ spend[s][today] + after <= MaxPerDay[d] + before
        \/ after <= before
    BY DEF WithinCap
  <1> HIDE DEF s, after, before
  <1>4. /\ NonNegative(spend[s][today] + delta) \in Nat
        /\ net[s][today] + delta \in Int
        /\ net[s][today] <= spend[s][today] => net[s][today] + delta <= NonNegative(spend[s][today] + delta)
        /\ \/ NonNegative(spend[s][today] + delta) = 0
           \/ NonNegative(spend[s][today] + delta) <= MaxPerDay[d]
           \/ NonNegative(spend[s][today] + delta) <= spend[s][today]
    BY <1>1, <1>3 DEF NonNegative
  <1> HIDE DEF delta
  <1>5. spend' \in [Users -> [1..MaxDay -> Nat]] /\ net' \in [Users -> [1..MaxDay -> Int]]
    <2> DEFINE f == [spend[s] EXCEPT ![today] = NonNegative(spend[s][today] + delta)]
               g == [net[s] EXCEPT ![today] = net[s][today] + delta]
    <2>1. f \in [1..MaxDay -> Nat] /\ g \in [1..MaxDay -> Int]
      BY <1>1, <1>4 DEF TypeOK
    <2>2. spend' = [spend EXCEPT ![s] = f] /\ net' = [net EXCEPT ![s] = g]
      BY <1>2
    <2> HIDE DEF f, g
    <2>3. spend \in [Users -> [1..MaxDay -> Nat]] /\ net \in [Users -> [1..MaxDay -> Int]]
      BY DEF TypeOK
    <2>4. spend' \in [Users -> [1..MaxDay -> Nat]]
      BY <1>1, <2>1, <2>2, <2>3
    <2>5. net' \in [Users -> [1..MaxDay -> Int]]
      BY <1>1, <2>1, <2>2, <2>3
    <2> QED BY <2>4, <2>5
  <1>6. ASSUME NEW u \in Users, NEW n \in 1..MaxDay
        PROVE  /\ net'[u][n] <= spend'[u][n]
               /\ CappedSpend(u, spend'[u][n])
    <2>1. CASE u = s /\ n = today
      <3>1. spend'[u][n] = NonNegative(spend[s][today] + delta) /\ net'[u][n] = net[s][today] + delta
        BY <1>1, <1>2, <2>1 DEF TypeOK
      <3>2. net'[u][n] <= spend'[u][n]
        BY <1>1, <1>4, <3>1 DEF SpendCovers
      <3>3. CASE spend'[u][n] <= MaxPerDay[d]
        BY <3>2, <3>3, <2>1 DEF s, CappedSpend
      <3>4. CASE spend'[u][n] <= spend[s][today]
        <4>1. CASE spend[s][today] = 0
          BY <1>4, <3>1, <3>2, <3>4, <4>1 DEF CappedSpend
        <4>2. CASE spend[s][today] # 0
          <5>1. PICK e \in DelegationIds : SubjectOf[e] = s /\ Capped(e) /\ spend[s][today] <= MaxPerDay[e]
            BY <1>1, <4>2 DEF SpendCapped, CappedSpend
          <5>2. spend'[u][n] <= MaxPerDay[e]
            <6>1. MaxPerDay[e] \in Nat
              BY <5>1 DEF Capped
            <6> QED BY <1>1, <1>4, <3>1, <3>4, <5>1, <6>1
          <5> QED BY <2>1, <3>2, <5>1, <5>2 DEF CappedSpend
        <4> QED BY <4>1, <4>2
      <3>5. CASE spend'[u][n] = 0
        BY <3>2, <3>5 DEF CappedSpend
      <3> QED BY <1>4, <3>1, <3>3, <3>4, <3>5
    <2>2. CASE ~(u = s /\ n = today)
      <3>1. spend \in [Users -> [1..MaxDay -> Nat]] /\ net \in [Users -> [1..MaxDay -> Int]]
        BY DEF TypeOK
      <3>2. CASE u # s
        <4>1. spend'[u] = spend[u] /\ net'[u] = net[u]
          BY <1>1, <1>2, <3>1, <3>2
        <4> QED BY <4>1 DEF SpendCovers, SpendCapped
      <3>3. CASE u = s /\ n # today
        <4>1. /\ spend'[s] = [spend[s] EXCEPT ![today] = NonNegative(spend[s][today] + delta)]
              /\ net'[s] = [net[s] EXCEPT ![today] = net[s][today] + delta]
          BY <1>1, <1>2, <3>1
        <4>2. spend[s] \in [1..MaxDay -> Nat] /\ net[s] \in [1..MaxDay -> Int]
          BY <1>1, <3>1
        <4>3. spend'[s][n] = spend[s][n] /\ net'[s][n] = net[s][n]
          BY <3>3, <4>1, <4>2
        <4> QED BY <3>3, <4>3 DEF SpendCovers, SpendCapped
      <3> QED BY <2>2, <3>2, <3>3
    <2> QED BY <2>1, <2>2
  <1> QED BY <1>5, <1>6

\* So does a write under any delegation: without a cap nothing is counted.
LEMMA ChargeKeeps ==
  ASSUME TypeOK, SpendCovers, SpendCapped,
         NEW d \in DelegationIds, NEW i \in IntentIds, NEW x,
         ActiveMax(x, NoIntent) \in Nat,
         Charge(d, i, x),
         \/ WithinCap(d, spend[SubjectOf[d]][today], ActiveMax(intent[i], NoIntent), ActiveMax(x, NoIntent))
         \/ ActiveMax(x, NoIntent) <= ActiveMax(intent[i], NoIntent)
  PROVE  /\ spend' \in [Users -> [1..MaxDay -> Nat]]
         /\ net' \in [Users -> [1..MaxDay -> Int]]
         /\ SpendCovers' /\ SpendCapped'
  <1>1. CASE Capped(d)
    <2>1. /\ spend' \in [Users -> [1..MaxDay -> Nat]]
          /\ net' \in [Users -> [1..MaxDay -> Int]]
          /\ \A u \in Users : \A n \in 1..MaxDay :
               /\ net'[u][n] <= spend'[u][n]
               /\ CappedSpend(u, spend'[u][n])
      BY <1>1, CappedChargeKeeps
    <2> QED BY <2>1 DEF SpendCovers, SpendCapped, CappedSpend, Capped
  <1>2. CASE ~Capped(d)
    <2>1. spend' = spend /\ net' = net
      BY <1>2 DEF Charge
    <2> QED BY <2>1 DEF TypeOK, SpendCovers, SpendCapped, CappedSpend, Capped
  <1> QED BY <1>1, <1>2

\* What a write stores is an intent of the body's value, which counts for a number.
LEMMA WrittenFacts ==
  ASSUME TypeOK, NEW k, NEW b \in Bodies
  PROVE  /\ Stored(b, NextStatus(k.op, b.id)) \in StoredIntent
         /\ ActiveMax(Stored(b, NextStatus(k.op, b.id)), NoIntent) \in Nat
         /\ Stored(b, NextStatus(k.op, b.id)).max = b.max
  <1> DEFINE s == NextStatus(k.op, b.id)
  <1>1. s \in {"active", "cancelled"}
    <2>1. CASE k.op = "update" /\ intent[b.id] # NoIntent
      <3>1. intent[b.id] \in StoredIntent
        BY <2>1 DEF TypeOK
      <3> QED BY <2>1, <3>1, StoredIntentFacts DEF NextStatus
    <2>2. CASE ~(k.op = "update" /\ intent[b.id] # NoIntent)
      BY <2>2 DEF NextStatus
    <2> QED BY <2>1, <2>2
  <1> HIDE DEF s
  <1>2. Stored(b, s) \in StoredIntent
    BY <1>1, StoredIntentFacts
  <1>3. Stored(b, s).max = b.max
    BY DEF Stored
  <1>4. ActiveMax(Stored(b, s), NoIntent) \in Nat
    BY <1>2, StoredIntentFacts DEF ActiveMax
  <1> QED BY <1>2, <1>3, <1>4 DEF s

\* What a cancel stores is the intent with its value, counting for nothing.
LEMMA CancelledFacts ==
  ASSUME TypeOK, NEW i \in IntentIds, intent[i] # NoIntent
  PROVE  /\ Cancelled(i) \in StoredIntent
         /\ ActiveMax(Cancelled(i), NoIntent) = 0
         /\ Cancelled(i).max = intent[i].max
  <1>1. intent[i] \in StoredIntent
    BY DEF TypeOK
  <1>2. /\ Cancelled(i) \in StoredIntent
        /\ Cancelled(i).status = "cancelled" /\ Cancelled(i).max = intent[i].max
    BY <1>1, StoredIntentFacts DEF Cancelled
  <1> QED BY <1>2 DEF ActiveMax

-----------------------------------------------------------------------------
(* Every step keeps the invariant.                                         *)

\* Initially nobody has written anything.
LEMMA IntentsInvInit == Init => IntentsInv
  <1> SUFFICES ASSUME Init PROVE IntentsInv
    OBVIOUS
  <1>1. TypeOK
    BY DEF Init, DelegationsInit, TypeOK
  <1>2. SpendCovers /\ SpendCapped
    BY DEF Init, SpendCovers, SpendCapped, CappedSpend
  <1>3. UsesRecorded /\ RevokedIdle
    BY DEF Init, DelegationsInit, UsesRecorded, RevokedIdle
  <1>4. HighValueConsented
    BY DEF Init, HighValueConsented
  <1> QED BY <1>1, <1>2, <1>3, <1>4 DEF IntentsInv

\* A user's write is charged to nobody, and leaves no terms of an agent.
LEMMA UserWriteKeeps ==
  ASSUME IntentsInv, NEW k \in ScopeKeys, NEW b \in Bodies, UserWrite(k, b)
  PROVE  IntentsInv'
  <1> USE DEF IntentsInv
  <1>1. Stored(b, NextStatus(k.op, b.id)) \in StoredIntent
    BY WrittenFacts
  <1>2. TypeOK'
    BY <1>1 DEF UserWrite, Remember, delegationVars, TypeOK
  <1>3. SpendCovers' /\ SpendCapped'
    BY DEF UserWrite, SpendCovers, SpendCapped
  <1>4. UsesRecorded' /\ RevokedIdle'
    BY DEF UserWrite, delegationVars, UsesRecorded, RevokedIdle
  <1>5. HighValueConsented'
    <2> SUFFICES ASSUME NEW i \in IntentIds, terms'[i] # NoTerms
                 PROVE  intent'[i] = intent[i] /\ terms'[i] = terms[i]
      BY DEF HighValueConsented
    <2>1. i # b.id
      BY DEF UserWrite, TypeOK
    <2> QED BY <2>1 DEF UserWrite, TypeOK
  <1> QED BY <1>2, <1>3, <1>4, <1>5

\* An agent's write is refused, uses up a consent, or is charged.
LEMMA AgentWriteKeeps ==
  ASSUME IntentsInv, NEW k \in ScopeKeys, NEW d \in DelegationIds, NEW b \in Bodies,
         NEW c \in Consents \cup {NoConsent}, NEW timed \in BOOLEAN,
         AgentWrite(k, d, b, c, timed)
  PROVE  IntentsInv'
  <1> USE DEF IntentsInv
  <1> DEFINE next   == Stored(b, NextStatus(k.op, b.id))
             before == ActiveMax(intent[b.id], NoIntent)
             after  == ActiveMax(next, NoIntent)
             agreed == NeedsConsent(d, b) => ConsentValid(d, b, c, today, usedNonces)
  <1>1. UNCHANGED <<today, delegation>> /\ usedKeys' = usedKeys \cup {k}
    BY DEF AgentWrite, Remember, delegationVars
  <1>2. CASE UNCHANGED <<intent, spend, usedNonces, net, terms, uses, acted>>
    <2>1. TypeOK'
      BY <1>1, <1>2 DEF TypeOK
    <2>2. SpendCovers' /\ SpendCapped'
      BY <1>1, <1>2 DEF SpendCovers, SpendCapped
    <2>3. UsesRecorded' /\ RevokedIdle' /\ HighValueConsented'
      BY <1>1, <1>2 DEF UsesRecorded, RevokedIdle, HighValueConsented
    <2> QED BY <2>1, <2>2, <2>3
  <1>3. CASE agreed /\ UseUp(d, b, c) /\ UNCHANGED <<intent, spend, net, terms, uses, acted>>
    <2>1. usedNonces \subseteq usedNonces' /\ usedNonces' \subseteq Nonces
      BY <1>3 DEF UseUp, ConsentValid, TypeOK
    <2>2. TypeOK'
      BY <1>1, <1>3, <2>1 DEF TypeOK
    <2>3. UsesRecorded'
      BY <1>3, <2>1 DEF UsesRecorded
    <2>4. SpendCovers' /\ SpendCapped'
      BY <1>1, <1>3 DEF SpendCovers, SpendCapped
    <2>5. RevokedIdle' /\ HighValueConsented'
      BY <1>1, <1>3 DEF RevokedIdle, HighValueConsented
    <2> QED BY <2>2, <2>3, <2>4, <2>5
  <1>4. CASE /\ agreed /\ UseUp(d, b, c)
             /\ WithinCap(d, spend[SubjectOf[d]][today], before, after)
             /\ Charge(d, b.id, next)
             /\ terms' = [terms EXCEPT ![b.id] = Terms(d, b, c)]
             /\ uses' = IF NeedsConsent(d, b) THEN [uses EXCEPT ![c.nonce] = @ + 1] ELSE uses
    <2>1. next \in StoredIntent /\ after \in Nat /\ next.max = b.max
      BY WrittenFacts
    <2>2. /\ spend' \in [Users -> [1..MaxDay -> Nat]] /\ net' \in [Users -> [1..MaxDay -> Int]]
          /\ SpendCovers' /\ SpendCapped'
      <3> HIDE DEF IntentsInv, next
      <3>1. TypeOK /\ SpendCovers /\ SpendCapped
        BY DEF IntentsInv
      <3>2. /\ spend' \in [Users -> [1..MaxDay -> Nat]] /\ net' \in [Users -> [1..MaxDay -> Int]]
            /\ SpendCovers' /\ SpendCapped'
        BY <1>4, <2>1, <3>1, ChargeKeeps
      <3> QED BY <3>2
    <2>3. intent' = [intent EXCEPT ![b.id] = next] /\ acted' = acted \cup {d}
      BY <1>4 DEF Charge
    <2>4. usedNonces' \subseteq Nonces /\ uses' \in [Nonces -> Nat] /\ UsesRecorded'
      <3>1. CASE NeedsConsent(d, b)
        <4>1. c.nonce \in Nonces /\ c.nonce \notin usedNonces
          BY <1>4, <3>1 DEF ConsentValid
        <4>2. usedNonces' = usedNonces \cup {c.nonce} /\ uses' = [uses EXCEPT ![c.nonce] = @ + 1]
          BY <1>4, <3>1 DEF UseUp
        <4>3. uses[c.nonce] = 0
          BY <4>1 DEF UsesRecorded
        <4> QED BY <4>1, <4>2, <4>3 DEF UsesRecorded, TypeOK
      <3>2. CASE ~NeedsConsent(d, b)
        BY <1>4, <3>2 DEF UseUp, UsesRecorded, TypeOK
      <3> QED BY <3>1, <3>2
    <2>5. Terms(d, b, c) \in AgentTerms
      BY DEF AgentTerms
    <2>6. TypeOK'
      <3>1. intent' \in [IntentIds -> StoredIntent \cup {NoIntent}]
        BY <2>1, <2>3 DEF TypeOK
      <3>2. terms' \in [IntentIds -> AgentTerms \cup {NoTerms}]
        BY <1>4, <2>5 DEF TypeOK
      <3> QED BY <1>1, <2>2, <2>3, <2>4, <3>1, <3>2 DEF TypeOK
    <2>7. RevokedIdle'
      BY <1>1, <2>3 DEF AgentWrite, MayWrite, Authorized, RevokedIdle
    <2>8. HighValueConsented'
      <3> SUFFICES ASSUME NEW i \in IntentIds, terms'[i] # NoTerms,
                          intent'[i].max > Threshold[terms'[i].delegation]
                   PROVE  /\ terms'[i].consent # NoConsent
                          /\ terms'[i].consent.delegation = terms'[i].delegation
                          /\ terms'[i].consent.id = i
                          /\ terms'[i].consent.max = intent'[i].max
        BY DEF HighValueConsented
      <3>1. CASE i = b.id
        <4>1. terms'[i] = Terms(d, b, c) /\ intent'[i] = next
          BY <1>4, <2>3, <3>1 DEF TypeOK
        <4>2. NeedsConsent(d, b)
          BY <2>1, <4>1 DEF Terms, NeedsConsent
        <4>3. c # NoConsent /\ c.delegation = d /\ c.id = b.id /\ c.max = b.max
          BY <1>4, <4>2 DEF ConsentValid
        <4> QED BY <2>1, <3>1, <4>1, <4>2, <4>3 DEF Terms
      <3>2. CASE i # b.id
        <4>1. terms'[i] = terms[i] /\ intent'[i] = intent[i]
          BY <1>4, <2>3, <3>2 DEF TypeOK
        <4> QED BY <4>1 DEF HighValueConsented
      <3> QED BY <3>1, <3>2
    <2> QED BY <2>2, <2>4, <2>6, <2>7, <2>8
  <1> QED BY <1>2, <1>3, <1>4 DEF AgentWrite, history

\* A cancel by a user leaves the values of all intents.
LEMMA UserCancelKeeps ==
  ASSUME IntentsInv, NEW k \in ScopeKeys, NEW i \in IntentIds, UserCancel(k, i)
  PROVE  IntentsInv'
  <1> USE DEF IntentsInv
  <1>1. /\ intent' \in [IntentIds -> StoredIntent \cup {NoIntent}]
        /\ \A j \in IntentIds : terms[j] # NoTerms => intent'[j] = intent[j] \/ intent'[j].max = intent[j].max
    BY CancelledFacts DEF UserCancel, TypeOK
  <1>2. TypeOK'
    BY <1>1 DEF UserCancel, Remember, delegationVars, history, TypeOK
  <1>3. SpendCovers' /\ SpendCapped' /\ UsesRecorded' /\ RevokedIdle'
    BY DEF UserCancel, delegationVars, history, SpendCovers, SpendCapped, UsesRecorded, RevokedIdle
  <1>4. HighValueConsented'
    BY <1>1 DEF UserCancel, history, HighValueConsented
  <1> QED BY <1>2, <1>3, <1>4

\* A cancel by an agent also takes back what the intent counts for.
LEMMA AgentCancelKeeps ==
  ASSUME IntentsInv, NEW k \in ScopeKeys, NEW d \in DelegationIds, NEW i \in IntentIds,
         NEW timed \in BOOLEAN, AgentCancel(k, d, i, timed)
  PROVE  IntentsInv'
  <1> USE DEF IntentsInv
  <1>1. UNCHANGED <<today, delegation, usedNonces, terms, uses>> /\ usedKeys' = usedKeys \cup {k}
    BY DEF AgentCancel, Remember, delegationVars
  <1>2. CASE UNCHANGED <<intent, spend, net, acted>>
    <2>1. TypeOK'
      BY <1>1, <1>2 DEF TypeOK
    <2>2. SpendCovers' /\ SpendCapped'
      BY <1>1, <1>2 DEF SpendCovers, SpendCapped
    <2>3. UsesRecorded' /\ RevokedIdle' /\ HighValueConsented'
      BY <1>1, <1>2 DEF UsesRecorded, RevokedIdle, HighValueConsented
    <2> QED BY <2>1, <2>2, <2>3
  <1>3. CASE MayCancel(d, i) /\ Charge(d, i, Cancelled(i))
    <2>1. /\ Cancelled(i) \in StoredIntent
          /\ ActiveMax(Cancelled(i), NoIntent) = 0 /\ Cancelled(i).max = intent[i].max
      BY <1>3, CancelledFacts DEF MayCancel
    <2>2. ActiveMax(Cancelled(i), NoIntent) <= ActiveMax(intent[i], NoIntent)
      <3>1. ActiveMax(intent[i], NoIntent) \in Nat
        BY ActiveMaxNat
      <3> QED BY <2>1, <3>1
    <2>3. /\ spend' \in [Users -> [1..MaxDay -> Nat]] /\ net' \in [Users -> [1..MaxDay -> Int]]
          /\ SpendCovers' /\ SpendCapped'
      <3>1. ActiveMax(Cancelled(i), NoIntent) \in Nat
        BY <2>1
      <3> HIDE DEF IntentsInv
      <3>2. TypeOK /\ SpendCovers /\ SpendCapped
        BY DEF IntentsInv
      <3>3. /\ spend' \in [Users -> [1..MaxDay -> Nat]] /\ net' \in [Users -> [1..MaxDay -> Int]]
            /\ SpendCovers' /\ SpendCapped'
        BY <1>3, <2>2, <3>1, <3>2, ChargeKeeps
      <3> QED BY <3>3
    <2>4. intent' = [intent EXCEPT ![i] = Cancelled(i)] /\ acted' = acted \cup {d}
      BY <1>3 DEF Charge
    <2>5. TypeOK'
      <3>1. intent' \in [IntentIds -> StoredIntent \cup {NoIntent}]
        BY <2>1, <2>4 DEF TypeOK
      <3> QED BY <1>1, <2>3, <2>4, <3>1 DEF TypeOK
    <2>6. UsesRecorded'
      BY <1>1 DEF UsesRecorded
    <2>7. RevokedIdle'
      BY <1>1, <2>4 DEF AgentCancel, Authorized, RevokedIdle
    <2>8. HighValueConsented'
      <3>1. \A j \in IntentIds : intent'[j] = intent[j] \/ intent'[j].max = intent[j].max
        BY <2>1, <2>4 DEF TypeOK
      <3> QED BY <1>1, <3>1 DEF HighValueConsented
    <2> QED BY <2>3, <2>5, <2>6, <2>7, <2>8
  <1> QED BY <1>2, <1>3 DEF AgentCancel

\* Delegations come, go and expire without touching intents or the spend.
LEMMA DelegationsKeep ==
  ASSUME IntentsInv,
         \/ \E u \in Users, d \in DelegationIds : CreateDelegation(u, d) /\ UNCHANGED intentVars
         \/ \E u \in Users, d \in DelegationIds : Revoke(u, d)
         \/ DayPasses /\ UNCHANGED intentVars
         \/ UNCHANGED vars
  PROVE  IntentsInv'
  <1> USE DEF IntentsInv
  <1>1. UNCHANGED <<intent, spend, usedNonces, usedKeys, net, terms, uses>>
    BY DEF Revoke, intentVars, vars, history
  <1>2. /\ today' \in 1..MaxDay
        /\ delegation' \in [DelegationIds -> {"none", "active", "revoked"}]
        /\ acted' \subseteq acted /\ RevokedIdle'
    <2>1. ASSUME NEW u \in Users, NEW d \in DelegationIds, CreateDelegation(u, d), UNCHANGED intentVars
          PROVE  /\ today' \in 1..MaxDay
                 /\ delegation' \in [DelegationIds -> {"none", "active", "revoked"}]
                 /\ acted' \subseteq acted /\ RevokedIdle'
      <3>1. today' = today /\ acted' = acted
        BY <2>1 DEF CreateDelegation, intentVars, history
      <3>2. delegation' = [delegation EXCEPT ![d] = IF delegation[d] = "none" THEN "active" ELSE delegation[d]]
        BY <2>1 DEF CreateDelegation, Granted
      <3> QED BY <3>1, <3>2 DEF TypeOK, RevokedIdle
    <2>2. ASSUME NEW u \in Users, NEW d \in DelegationIds, Revoke(u, d)
          PROVE  /\ today' \in 1..MaxDay
                 /\ delegation' \in [DelegationIds -> {"none", "active", "revoked"}]
                 /\ acted' \subseteq acted /\ RevokedIdle'
      BY <2>2 DEF Revoke, RevokeDelegation, TypeOK, RevokedIdle
    <2>3. ASSUME DayPasses \/ UNCHANGED delegationVars, UNCHANGED intentVars
          PROVE  /\ today' \in 1..MaxDay
                 /\ delegation' \in [DelegationIds -> {"none", "active", "revoked"}]
                 /\ acted' \subseteq acted /\ RevokedIdle'
      <3>1. delegation' = delegation /\ acted' = acted
        BY <2>3 DEF DayPasses, delegationVars, intentVars, history
      <3>2. today' \in 1..MaxDay
        BY <2>3 DEF DayPasses, delegationVars, TypeOK
      <3> QED BY <3>1, <3>2 DEF TypeOK, RevokedIdle
    <2> QED BY <2>1, <2>2, <2>3 DEF vars
  <1>3. TypeOK'
    BY <1>1, <1>2 DEF TypeOK
  <1>4. SpendCovers' /\ SpendCapped' /\ UsesRecorded' /\ HighValueConsented'
    BY <1>1 DEF SpendCovers, SpendCapped, UsesRecorded, HighValueConsented
  <1> QED BY <1>2, <1>3, <1>4

\* Every step keeps the invariant.
LEMMA IntentsInvStep == IntentsInv /\ [Next]_vars => IntentsInv'
  <1> SUFFICES ASSUME IntentsInv, [Next]_vars PROVE IntentsInv'
    OBVIOUS
  <1>1. ASSUME NEW k \in ScopeKeys, NEW b \in Bodies, UserWrite(k, b) PROVE IntentsInv'
    BY <1>1, UserWriteKeeps
  <1>2. ASSUME NEW k \in ScopeKeys, NEW b \in Bodies, NEW d \in DelegationIds,
               NEW c \in Consents \cup {NoConsent}, NEW timed \in BOOLEAN,
               AgentWrite(k, d, b, c, timed)
        PROVE  IntentsInv'
    BY <1>2, AgentWriteKeeps
  <1>3. ASSUME NEW k \in ScopeKeys, NEW i \in IntentIds, UserCancel(k, i) PROVE IntentsInv'
    BY <1>3, UserCancelKeeps
  <1>4. ASSUME NEW k \in ScopeKeys, NEW i \in IntentIds, NEW d \in DelegationIds,
               NEW timed \in BOOLEAN, AgentCancel(k, d, i, timed)
        PROVE  IntentsInv'
    BY <1>4, AgentCancelKeeps
  <1>5. CASE \/ \E u \in Users, d \in DelegationIds : CreateDelegation(u, d) /\ UNCHANGED intentVars
             \/ \E u \in Users, d \in DelegationIds : Revoke(u, d)
             \/ DayPasses /\ UNCHANGED intentVars
             \/ UNCHANGED vars
    BY <1>5, DelegationsKeep
  <1> QED BY <1>1, <1>2, <1>3, <1>4, <1>5 DEF Next

\* The invariant holds in every reachable state.
LEMMA IntentsInvAlways == Spec => []IntentsInv
  BY IntentsInvInit, IntentsInvStep, PTL DEF Spec

-----------------------------------------------------------------------------
(* What follows.                                                           *)

\* The state keeps its shape; the counted spend is never negative.
THEOREM IntentsTypeCorrect == Spec => []TypeOK
  <1>1. IntentsInv => TypeOK
    BY DEF IntentsInv
  <1> QED BY <1>1, IntentsInvAlways, PTL

\* What agents put up for a user on a day, less what they took back on it,
\* under delegations with a daily cap, stays within the largest of these caps.
THEOREM DailyCapAlwaysHolds == Spec => []DailyCapHolds
  <1>1. IntentsInv => DailyCapHolds
    <2> SUFFICES ASSUME IntentsInv, NEW u \in Users, NEW n \in 1..MaxDay
                 PROVE  \/ net[u][n] <= 0
                        \/ \E d \in DelegationIds : SubjectOf[d] = u /\ Capped(d) /\ net[u][n] <= MaxPerDay[d]
      BY DEF DailyCapHolds
    <2>1. net[u][n] \in Int /\ spend[u][n] \in Nat /\ net[u][n] <= spend[u][n]
      BY DEF IntentsInv, TypeOK, SpendCovers
    <2>2. CASE spend[u][n] = 0
      BY <2>1, <2>2
    <2>3. CASE spend[u][n] # 0
      <3>1. PICK d \in DelegationIds : SubjectOf[d] = u /\ Capped(d) /\ spend[u][n] <= MaxPerDay[d]
        BY <2>3 DEF IntentsInv, SpendCapped, CappedSpend
      <3>2. net[u][n] <= MaxPerDay[d]
        <4>1. MaxPerDay[d] \in Nat
          BY <3>1 DEF Capped
        <4> QED BY <2>1, <3>1, <4>1
      <3> QED BY <3>1, <3>2
    <2> QED BY <2>2, <2>3
  <1> QED BY <1>1, IntentsInvAlways, PTL

\* No agent gives an intent a value above the threshold of its delegation
\* without a consent of the subject for that intent and value.
THEOREM HighValuesAlwaysConsented == Spec => []HighValueConsented
  <1>1. IntentsInv => HighValueConsented
    BY DEF IntentsInv
  <1> QED BY <1>1, IntentsInvAlways, PTL

\* No consent serves for two writes.
THEOREM ConsentsAlwaysUsedOnce == Spec => []ConsentUsedOnce
  <1>1. IntentsInv => ConsentUsedOnce
    BY DEF IntentsInv, UsesRecorded, ConsentUsedOnce
  <1> QED BY <1>1, IntentsInvAlways, PTL

\* A revoked delegation stays revoked, and nothing is changed under it.
THEOREM RevokedAlwaysForGood == Spec => RevokedForGood
  <1> DEFINE Kept == \A d \in DelegationIds :
                       delegation[d] = "revoked" => delegation'[d] = "revoked" /\ d \notin acted'
  <1>1. IntentsInv /\ IntentsInv' /\ [Next]_vars => [Kept]_vars
    <2> SUFFICES ASSUME IntentsInv, IntentsInv', Next,
                        NEW d \in DelegationIds, delegation[d] = "revoked"
                 PROVE  delegation'[d] = "revoked"
      BY DEF IntentsInv, RevokedIdle
    <2>1. ASSUME NEW u \in Users, NEW e \in DelegationIds, CreateDelegation(u, e)
          PROVE  delegation'[d] = "revoked"
      BY <2>1 DEF CreateDelegation, Granted, IntentsInv, TypeOK
    <2>2. ASSUME NEW u \in Users, NEW e \in DelegationIds, Revoke(u, e)
          PROVE  delegation'[d] = "revoked"
      BY <2>2 DEF Revoke, RevokeDelegation, IntentsInv, TypeOK
    <2>3. CASE delegation' = delegation
      BY <2>3
    <2> QED BY <2>1, <2>2, <2>3
         DEF Next, UserWrite, AgentWrite, UserCancel, AgentCancel, DayPasses, delegationVars
  <1> QED BY <1>1, IntentsInvAlways, PTL DEF Spec, RevokedForGood
=============================================================================
