-------------------------- MODULE CrossAdapterProofs --------------------------
(***************************************************************************)
(* Theorems about cross-adapter cycles, compensation and linkages, for any *)
(* partners, cycles, routes and amounts, and any number of requests.       *)
(***************************************************************************)
EXTENDS CrossAdapter, SequenceTheorems, TLAPS

USE CycleAssumption, AmountsAssumption

-----------------------------------------------------------------------------
(* The inductive invariant.                                                *)

Discrepancies == {"none", "target_leg_unsettled", "source_leg_unsettled", "both_legs_unsettled"}

SemanticsRecord == [partner : Partners, version : Nat, route : Routes]
ReceiptRecord   == [partner : Partners, version : Nat, route : Routes, discrepancy : Discrepancies]
CaseRecord ==
  [partner : Partners, cycle : Cycles, discrepancy : Discrepancies,
   status : {"open", "approved", "rejected", "resolved"}, approved : Nat]
EntryRecord   == [partner : Partners, case : Nat, type : {"payout", "adjustment"}, amount : Nat]
DisputeRecord == [partner : Partners, status : {"open", "resolved"}]
LinkageRecord ==
  [partner : Partners, dispute : Nat, case : Nat,
   status : {"linked", "compensation_recorded", "closed"}, entry : Nat]

\* Semantics rest on a preflight, receipts on that and on what was shown.
SemanticsBacked ==
  \A c \in Cycles : semantics[c] # Nothing => ReadyPreflight(semantics[c].partner, c, semantics[c].route)

ReceiptsShown ==
  \A c \in Cycles : crossReceipt[c] # Nothing =>
    <<crossReceipt[c].partner, c, crossReceipt[c].discrepancy>> \in shown

CycleInv ==
  /\ semantics \in [Cycles -> SemanticsRecord \cup {Nothing}]
  /\ crossReceipt \in [Cycles -> ReceiptRecord \cup {Nothing}]
  /\ SemanticsBacked
  /\ ReceiptsShown
  /\ ReceiptsRestOnPreflights

\* Cases are one per partner and cycle, for a discrepancy that was shown.
CasesShown ==
  \A i \in DOMAIN cases :
    /\ cases[i].discrepancy # "none"
    /\ <<cases[i].partner, cases[i].cycle, cases[i].discrepancy>> \in shown

CasesUnique ==
  \A i, j \in DOMAIN cases :
    cases[i].partner = cases[j].partner /\ cases[i].cycle = cases[j].cycle => i = j

\* Entries belong to a case of their partner, payouts to one that allows them.
EntriesBacked ==
  \A n \in DOMAIN ledger :
    /\ ledger[n].case \in DOMAIN cases
    /\ cases[ledger[n].case].partner = ledger[n].partner
    /\ ledger[n].type = "payout" =>
         /\ cases[ledger[n].case].status \in {"approved", "resolved"}
         /\ ledger[n].amount <= cases[ledger[n].case].approved

CompensationInv ==
  /\ cases \in Seq(CaseRecord)
  /\ ledger \in Seq(EntryRecord)
  /\ CasesShown
  /\ CasesUnique
  /\ EntriesBacked

\* Linkages are of disputes, cases and entries that there are.
LinkagesRefer ==
  \A l \in DOMAIN linkages :
    /\ linkages[l].dispute \in DOMAIN disputes
    /\ linkages[l].case \in DOMAIN cases
    /\ linkages[l].entry \in DOMAIN ledger \cup {0}

DisputeInv ==
  /\ disputes \in Seq(DisputeRecord)
  /\ linkages \in Seq(LinkageRecord)
  /\ LinkagesRefer
  /\ LinkagesAreBacked

CrossInv == CycleInv /\ CompensationInv /\ DisputeInv

-----------------------------------------------------------------------------
(* Sequences that grow at the end or change in one place.                  *)

\* A sequence is indexed by the numbers up to its length.
LEMMA Indices ==
  ASSUME NEW S, NEW s \in Seq(S)
  PROVE  /\ Len(s) \in Nat /\ DOMAIN s = 1..Len(s)
         /\ 0 \notin DOMAIN s
         /\ \A i \in DOMAIN s : i \in Nat /\ s[i] \in S
  BY LenProperties

\* Appending adds one place and keeps the others.
LEMMA Appended ==
  ASSUME NEW S, NEW s \in Seq(S), NEW x \in S
  PROVE  /\ Append(s, x) \in Seq(S)
         /\ Len(s) + 1 \notin DOMAIN s
         /\ DOMAIN Append(s, x) = DOMAIN s \cup {Len(s) + 1}
         /\ Append(s, x)[Len(s) + 1] = x
         /\ \A i \in DOMAIN s : Append(s, x)[i] = s[i]
  <1>1. /\ Append(s, x) \in Seq(S) /\ Len(Append(s, x)) = Len(s) + 1
        /\ \A i \in 1..Len(s) : Append(s, x)[i] = s[i]
        /\ Append(s, x)[Len(s) + 1] = x
    BY AppendProperties
  <1>2. Len(s) \in Nat /\ DOMAIN s = 1..Len(s)
    BY LenProperties
  <1>3. DOMAIN Append(s, x) = 1..(Len(s) + 1)
    BY <1>1, LenProperties
  <1> QED BY <1>1, <1>2, <1>3

\* Replacing an element keeps the places and the other elements.
LEMMA Replaced ==
  ASSUME NEW S, NEW s \in Seq(S), NEW i \in DOMAIN s, NEW x \in S
  PROVE  /\ [s EXCEPT ![i] = x] \in Seq(S)
         /\ DOMAIN [s EXCEPT ![i] = x] = DOMAIN s
         /\ \A j \in DOMAIN s : [s EXCEPT ![i] = x][j] = IF j = i THEN x ELSE s[j]
  <1>1. DOMAIN s = 1..Len(s)
    BY LenProperties
  <1>2. [s EXCEPT ![i] = x] \in Seq(S)
    BY <1>1, ExceptSeq
  <1> QED BY <1>2

-----------------------------------------------------------------------------
(* Cycles: capabilities, preflights, semantics and receipts.               *)

\* A version that follows another is larger.
LEMMA VersionGrows ==
  ASSUME NEW c \in Cycles, semantics \in [Cycles -> SemanticsRecord \cup {Nothing}]
  PROVE  /\ VersionAfter(semantics[c]) \in Nat
         /\ semantics[c] # Nothing =>
              semantics[c].version \in Nat /\ semantics[c].version < VersionAfter(semantics[c])
  <1>1. CASE semantics[c] = Nothing
    BY <1>1 DEF VersionAfter
  <1>2. CASE semantics[c] # Nothing
    <2>1. semantics[c] \in SemanticsRecord
      BY <1>2
    <2>2. semantics[c].version \in Nat
      BY <2>1 DEF SemanticsRecord
    <2> QED BY <1>2, <2>2 DEF VersionAfter
  <1> QED BY <1>1, <1>2

\* Semantics are recorded on a preflight, with a version no receipt names yet.
LEMMA RecordSemanticsKeeps ==
  ASSUME CycleInv, NEW p \in Partners, NEW c \in Cycles, NEW r \in Routes, RecordSemantics(p, c, r)
  PROVE  CycleInv'
  <1> DEFINE v == VersionAfter(semantics[c])
             x == [partner |-> p, version |-> v, route |-> r]
  <1>1. /\ semantics' = [semantics EXCEPT ![c] = x]
        /\ UNCHANGED <<capability, preflights, settled, crossReceipt, shown>>
        /\ ReadyPreflight(p, c, r)
    BY DEF RecordSemantics, SemanticsAfter, Semantics
  <1>2. /\ v \in Nat
        /\ semantics[c] # Nothing => semantics[c].version \in Nat /\ semantics[c].version < v
    BY VersionGrows DEF CycleInv
  <1> HIDE DEF v
  <1>3. x \in SemanticsRecord /\ x # Nothing
    BY <1>2 DEF SemanticsRecord
  <1>4. semantics' \in [Cycles -> SemanticsRecord \cup {Nothing}]
    BY <1>1, <1>3 DEF CycleInv
  <1>5. /\ semantics'[c] = x
        /\ \A e \in Cycles \ {c} : semantics'[e] = semantics[e]
    BY <1>1 DEF CycleInv
  <1>6. SemanticsBacked'
    BY <1>1, <1>5 DEF CycleInv, SemanticsBacked, ReadyPreflight
  <1>7. ReceiptsRestOnPreflights'
    <2> SUFFICES ASSUME NEW e \in Cycles, crossReceipt[e] # Nothing
                 PROVE  /\ \E f \in preflights :
                             /\ f.partner = crossReceipt[e].partner /\ f.cycle = e
                             /\ f.route = crossReceipt[e].route /\ f.ready
                        /\ semantics'[e] # Nothing
                        /\ crossReceipt[e].version <= semantics'[e].version
                        /\ crossReceipt[e].version = semantics'[e].version =>
                             /\ crossReceipt[e].partner = semantics'[e].partner
                             /\ crossReceipt[e].route = semantics'[e].route
      BY <1>1 DEF ReceiptsRestOnPreflights
    <2>1. /\ \E f \in preflights :
               /\ f.partner = crossReceipt[e].partner /\ f.cycle = e
               /\ f.route = crossReceipt[e].route /\ f.ready
          /\ semantics[e] # Nothing
          /\ crossReceipt[e].version <= semantics[e].version
          /\ crossReceipt[e].version = semantics[e].version =>
               /\ crossReceipt[e].partner = semantics[e].partner
               /\ crossReceipt[e].route = semantics[e].route
      BY DEF CycleInv, ReceiptsRestOnPreflights
    <2>2. CASE e = c
      <3>1. crossReceipt[c] \in ReceiptRecord
        BY <2>2 DEF CycleInv
      <3>2. crossReceipt[c].version \in Nat
        BY <3>1 DEF ReceiptRecord
      <3>3. crossReceipt[c].version < v
        BY <1>2, <2>1, <2>2, <3>2
      <3>4. semantics'[c].version = v
        BY <1>5
      <3> QED BY <1>2, <1>3, <1>5, <2>1, <2>2, <3>2, <3>3, <3>4
    <2>3. CASE e # c
      BY <1>5, <2>1, <2>3
    <2> QED BY <2>2, <2>3
  <1> QED BY <1>1, <1>4, <1>6, <1>7 DEF CycleInv, ReceiptsShown

\* A receipt is of the semantics at the time.
LEMMA RecordReceiptKeeps ==
  ASSUME CycleInv, NEW p \in Partners, NEW c \in Cycles, NEW o \in Outcomes,
         RecordReceipt(p, c, o[1], o[2])
  PROVE  CycleInv' /\ shown \subseteq shown'
  <1> DEFINE d == Discrepancy(o[1], o[2])
             s == semantics[c]
             x == [partner |-> p, version |-> s.version, route |-> s.route, discrepancy |-> d]
  <1>1. /\ crossReceipt' = [crossReceipt EXCEPT ![c] = x]
        /\ shown' = shown \cup {<<p, c, d>>}
        /\ UNCHANGED <<capability, preflights, semantics, settled>>
        /\ s # Nothing /\ s.partner = p
    BY DEF RecordReceipt, CrossReceipt
  <1>2. d \in Discrepancies
    <2>1. o[1] \in BOOLEAN /\ o[2] \in BOOLEAN
      BY DEF CycleAssumption
    <2> QED BY <2>1 DEF Discrepancy, Discrepancies
  <1> HIDE DEF d
  <1>3. s \in SemanticsRecord
    BY <1>1 DEF CycleInv
  <1>4. s.version \in Nat /\ s.route \in Routes
    BY <1>3 DEF SemanticsRecord
  <1>5. x \in ReceiptRecord
    BY <1>2, <1>4 DEF ReceiptRecord
  <1>6. crossReceipt' \in [Cycles -> ReceiptRecord \cup {Nothing}]
    BY <1>1, <1>5 DEF CycleInv
  <1>7. /\ crossReceipt'[c] = x
        /\ \A e \in Cycles \ {c} : crossReceipt'[e] = crossReceipt[e]
    BY <1>1 DEF CycleInv
  <1>8. ReceiptsShown'
    BY <1>1, <1>7 DEF CycleInv, ReceiptsShown
  <1>9. ReadyPreflight(s.partner, c, s.route)
    BY <1>1 DEF CycleInv, SemanticsBacked
  <1>10. ReceiptsRestOnPreflights'
    <2> SUFFICES ASSUME NEW e \in Cycles, crossReceipt'[e] # Nothing
                 PROVE  /\ \E f \in preflights :
                             /\ f.partner = crossReceipt'[e].partner /\ f.cycle = e
                             /\ f.route = crossReceipt'[e].route /\ f.ready
                        /\ semantics[e] # Nothing
                        /\ crossReceipt'[e].version <= semantics[e].version
                        /\ crossReceipt'[e].version = semantics[e].version =>
                             /\ crossReceipt'[e].partner = semantics[e].partner
                             /\ crossReceipt'[e].route = semantics[e].route
      BY <1>1 DEF ReceiptsRestOnPreflights
    <2>1. CASE e = c
      BY <1>1, <1>4, <1>7, <1>9, <2>1 DEF ReadyPreflight
    <2>2. CASE e # c
      BY <1>7, <2>2 DEF CycleInv, ReceiptsRestOnPreflights
    <2> QED BY <2>1, <2>2
  <1> QED BY <1>1, <1>6, <1>8, <1>10 DEF CycleInv, SemanticsBacked, ReadyPreflight

\* Every step about cycles keeps their part of the invariant.
LEMMA CycleStepKeeps ==
  ASSUME CycleInv, CycleStep
  PROVE  CycleInv' /\ shown \subseteq shown'
  <1>1. ASSUME NEW p \in Partners, NEW rs \in SUBSET Routes, UpsertCapability(p, rs)
        PROVE  CycleInv' /\ shown \subseteq shown'
    BY <1>1 DEF UpsertCapability, CycleInv, SemanticsBacked, ReadyPreflight, ReceiptsShown,
                ReceiptsRestOnPreflights
  <1>2. ASSUME NEW p \in Partners, NEW c \in Cycles, NEW r \in Routes, PreflightCapability(p, c, r)
        PROVE  CycleInv' /\ shown \subseteq shown'
    <2>1. preflights \subseteq preflights' /\ UNCHANGED <<capability, semantics, settled, crossReceipt, shown>>
      BY <1>2 DEF PreflightCapability
    <2>2. SemanticsBacked'
      BY <2>1 DEF CycleInv, SemanticsBacked, ReadyPreflight
    <2>3. ReceiptsRestOnPreflights'
      BY <2>1 DEF CycleInv, ReceiptsRestOnPreflights
    <2> QED BY <2>1, <2>2, <2>3 DEF CycleInv, ReceiptsShown
  <1>3. ASSUME NEW p \in Partners, NEW c \in Cycles, NEW r \in Routes, RecordSemantics(p, c, r)
        PROVE  CycleInv' /\ shown \subseteq shown'
    BY <1>3, RecordSemanticsKeeps DEF RecordSemantics
  <1>4. ASSUME NEW c \in Cycles, SettlementReceipt(c)
        PROVE  CycleInv' /\ shown \subseteq shown'
    BY <1>4 DEF SettlementReceipt, CycleInv, SemanticsBacked, ReadyPreflight, ReceiptsShown,
                ReceiptsRestOnPreflights
  <1>5. ASSUME NEW p \in Partners, NEW c \in Cycles, NEW o \in Outcomes, RecordReceipt(p, c, o[1], o[2])
        PROVE  CycleInv' /\ shown \subseteq shown'
    BY <1>5, RecordReceiptKeeps
  <1> QED BY <1>1, <1>2, <1>3, <1>4, <1>5 DEF CycleStep

\* What does not touch cycles keeps it too.
LEMMA CycleInvStutters ==
  ASSUME CycleInv, UNCHANGED cycleVars
  PROVE  CycleInv'
  BY DEF CycleInv, cycleVars, SemanticsBacked, ReadyPreflight, ReceiptsShown, ReceiptsRestOnPreflights

-----------------------------------------------------------------------------
(* Compensation: cases and the ledger.                                     *)

\* What a step about compensation leaves to those who refer to cases and entries.
CasesKept ==
  /\ DOMAIN cases \subseteq DOMAIN cases'
  /\ \A i \in DOMAIN cases : cases'[i].partner = cases[i].partner

LedgerKept ==
  /\ DOMAIN ledger \subseteq DOMAIN ledger'
  /\ \A n \in DOMAIN ledger : ledger'[n] = ledger[n]

\* A new case is on a receipt with a discrepancy, and the first of its partner
\* for its cycle.
LEMMA CreateCaseKeeps ==
  ASSUME CycleInv, CompensationInv, NEW p \in Partners, NEW c \in Cycles, CreateCase(p, c)
  PROVE  CompensationInv' /\ CasesKept /\ LedgerKept
  <1> DEFINE d == crossReceipt[c].discrepancy
             x == [partner |-> p, cycle |-> c, discrepancy |-> d, status |-> "open", approved |-> 0]
             n == Len(cases) + 1
  <1>1. /\ cases' = Append(cases, x) /\ ledger' = ledger /\ shown' = shown
        /\ crossReceipt[c] # Nothing /\ crossReceipt[c].partner = p /\ d # "none"
        /\ ~\E i \in DOMAIN cases : cases[i].partner = p /\ cases[i].cycle = c
    BY DEF CreateCase, Case, HasCase, cycleVars
  <1>2. crossReceipt[c] \in ReceiptRecord /\ <<p, c, d>> \in shown
    BY <1>1 DEF CycleInv, ReceiptsShown
  <1>3. d \in Discrepancies
    BY <1>2 DEF ReceiptRecord
  <1> HIDE DEF d
  <1>4. x \in CaseRecord
    BY <1>3 DEF CaseRecord
  <1>5. cases \in Seq(CaseRecord)
    BY DEF CompensationInv
  <1> HIDE DEF x
  <1>6. /\ cases' \in Seq(CaseRecord)
        /\ n \notin DOMAIN cases
        /\ DOMAIN cases' = DOMAIN cases \cup {n}
        /\ cases'[n] = x
        /\ \A i \in DOMAIN cases : cases'[i] = cases[i]
    BY <1>1, <1>4, <1>5, Appended
  <1> HIDE DEF n
  <1>7. x.partner = p /\ x.cycle = c /\ x.discrepancy = d
    BY DEF x
  <1>8. CasesShown'
    BY <1>1, <1>2, <1>6, <1>7 DEF CompensationInv, CasesShown
  <1>9. CasesUnique'
    BY <1>1, <1>6, <1>7 DEF CompensationInv, CasesUnique
  <1>10. EntriesBacked'
    BY <1>1, <1>6 DEF CompensationInv, EntriesBacked
  <1> QED BY <1>1, <1>6, <1>8, <1>9, <1>10 DEF CompensationInv, CasesKept, LedgerKept

\* Deciding or resolving a case keeps what it has been paid on.
LEMMA UpdateCaseKeeps ==
  ASSUME CompensationInv, NEW p \in Partners, NEW i \in DOMAIN cases, NEW a \in Amounts,
         NEW to \in {"approved", "rejected", "resolved"}, UpdateCase(p, i, to, a)
  PROVE  CompensationInv' /\ CasesKept /\ LedgerKept
  <1> DEFINE o == cases[i]
             x == [o EXCEPT !.status = to, !.approved = ApprovedAfter(o, to, a)]
  <1>1. /\ cases' = [cases EXCEPT ![i] = x] /\ ledger' = ledger /\ shown' = shown
        /\ \/ o.status = "open" /\ to \in {"approved", "rejected"}
           \/ o.status \in {"approved", "rejected"} /\ to = "resolved"
    <2>1. /\ cases' = [cases EXCEPT ![i].status = to, ![i].approved = ApprovedAfter(o, to, a)]
          /\ ledger' = ledger /\ shown' = shown
          /\ TransitionAllowed(o.status, to)
      BY DEF UpdateCase, cycleVars
    <2>2. cases' = [cases EXCEPT ![i] = x]
      BY <2>1
    <2> QED BY <2>1, <2>2 DEF TransitionAllowed
  <1>2. cases \in Seq(CaseRecord) /\ o \in CaseRecord
    BY Indices DEF CompensationInv
  <1>3. ApprovedAfter(o, to, a) \in Nat /\ (to = "resolved" => ApprovedAfter(o, to, a) = o.approved)
    BY <1>2 DEF ApprovedAfter, CaseRecord
  <1>4. /\ x \in CaseRecord
        /\ x.partner = o.partner /\ x.cycle = o.cycle /\ x.discrepancy = o.discrepancy
        /\ x.status = to /\ x.approved = ApprovedAfter(o, to, a)
    BY <1>2, <1>3 DEF CaseRecord
  <1> HIDE DEF x
  <1>5. /\ cases' \in Seq(CaseRecord)
        /\ DOMAIN cases' = DOMAIN cases
        /\ \A j \in DOMAIN cases : cases'[j] = IF j = i THEN x ELSE cases[j]
    BY <1>1, <1>2, <1>4, Replaced
  <1>6. \A j \in DOMAIN cases :
          /\ cases'[j].partner = cases[j].partner /\ cases'[j].cycle = cases[j].cycle
          /\ cases'[j].discrepancy = cases[j].discrepancy
    BY <1>4, <1>5
  <1>7. CasesShown'
    BY <1>1, <1>5, <1>6 DEF CompensationInv, CasesShown
  <1>8. CasesUnique'
    BY <1>5, <1>6 DEF CompensationInv, CasesUnique
  <1>9. EntriesBacked'
    <2> SUFFICES ASSUME NEW n \in DOMAIN ledger, ledger[n].type = "payout"
                 PROVE  /\ cases'[ledger[n].case].status \in {"approved", "resolved"}
                        /\ ledger[n].amount <= cases'[ledger[n].case].approved
      BY <1>1, <1>5, <1>6 DEF CompensationInv, EntriesBacked
    <2>1. /\ ledger[n].case \in DOMAIN cases
          /\ cases[ledger[n].case].status \in {"approved", "resolved"}
          /\ ledger[n].amount <= cases[ledger[n].case].approved
      BY DEF CompensationInv, EntriesBacked
    <2>2. CASE ledger[n].case = i
      BY <1>1, <1>3, <1>4, <1>5, <2>1, <2>2
    <2>3. CASE ledger[n].case # i
      BY <1>5, <2>1, <2>3
    <2> QED BY <2>2, <2>3
  <1> QED BY <1>1, <1>5, <1>6, <1>7, <1>8, <1>9 DEF CompensationInv, CasesKept, LedgerKept

\* An entry is recorded for a case that allows it.
LEMMA RecordEntryKeeps ==
  ASSUME CompensationInv, NEW p \in Partners, NEW i \in DOMAIN cases, NEW a \in Amounts,
         NEW t \in {"payout", "adjustment"}, RecordEntry(p, i, t, a)
  PROVE  CompensationInv' /\ CasesKept /\ LedgerKept
  <1> DEFINE x == [partner |-> p, case |-> i, type |-> t, amount |-> a]
             n == Len(ledger) + 1
  <1>1. /\ ledger' = Append(ledger, x) /\ cases' = cases /\ shown' = shown
        /\ cases[i].partner = p
        /\ cases[i].status \in {"approved", "resolved"}
        /\ t = "payout" => a <= cases[i].approved
    BY DEF RecordEntry, Entry, Payable, cycleVars
  <1>2. i \in Nat
    BY Indices DEF CompensationInv
  <1>3. x \in EntryRecord
    BY <1>2 DEF EntryRecord
  <1>4. x.partner = p /\ x.case = i /\ x.type = t /\ x.amount = a
    OBVIOUS
  <1>5. ledger \in Seq(EntryRecord)
    BY DEF CompensationInv
  <1> HIDE DEF x
  <1>6. /\ ledger' \in Seq(EntryRecord)
        /\ DOMAIN ledger' = DOMAIN ledger \cup {n}
        /\ ledger'[n] = x
        /\ \A m \in DOMAIN ledger : ledger'[m] = ledger[m]
    BY <1>1, <1>3, <1>5, Appended
  <1> HIDE DEF n
  <1>7. EntriesBacked'
    BY <1>1, <1>4, <1>6 DEF CompensationInv, EntriesBacked
  <1>8. CasesShown' /\ CasesUnique'
    BY <1>1 DEF CompensationInv, CasesShown, CasesUnique
  <1> QED BY <1>1, <1>6, <1>7, <1>8 DEF CompensationInv, CasesKept, LedgerKept

\* Every step about compensation keeps its part of the invariant.
LEMMA CompensationStepKeeps ==
  ASSUME CycleInv, CompensationInv, CompensationStep
  PROVE  CompensationInv' /\ CasesKept /\ LedgerKept /\ UNCHANGED cycleVars
  <1>1. ASSUME NEW p \in Partners, NEW c \in Cycles, CreateCase(p, c)
        PROVE  CompensationInv' /\ CasesKept /\ LedgerKept /\ UNCHANGED cycleVars
    BY <1>1, CreateCaseKeeps DEF CreateCase
  <1>2. ASSUME NEW p \in Partners, NEW i \in DOMAIN cases, NEW a \in Amounts,
               NEW to \in {"approved", "rejected", "resolved"}, UpdateCase(p, i, to, a)
        PROVE  CompensationInv' /\ CasesKept /\ LedgerKept /\ UNCHANGED cycleVars
    BY <1>2, UpdateCaseKeeps DEF UpdateCase
  <1>3. ASSUME NEW p \in Partners, NEW i \in DOMAIN cases, NEW a \in Amounts,
               NEW t \in {"payout", "adjustment"}, RecordEntry(p, i, t, a)
        PROVE  CompensationInv' /\ CasesKept /\ LedgerKept /\ UNCHANGED cycleVars
    BY <1>3, RecordEntryKeeps DEF RecordEntry
  <1> QED BY <1>1, <1>2, <1>3 DEF CompensationStep

\* What does not touch compensation keeps it, with more discrepancies shown too.
LEMMA CompensationInvStutters ==
  ASSUME CompensationInv, UNCHANGED compensationVars, shown \subseteq shown'
  PROVE  CompensationInv' /\ CasesKept /\ LedgerKept
  BY DEF CompensationInv, compensationVars, CasesShown, CasesUnique, EntriesBacked, CasesKept, LedgerKept

-----------------------------------------------------------------------------
(* Disputes and linkages.                                                  *)

\* What linkages rest on stays when cases and entries are kept.
LEMMA DisputeInvStutters ==
  ASSUME CompensationInv, CompensationInv', DisputeInv, CasesKept, LedgerKept,
         UNCHANGED <<disputes, linkages>>
  PROVE  DisputeInv'
  <1>1. 0 \notin DOMAIN ledger
    BY Indices DEF CompensationInv
  <1>2. LinkagesRefer'
    BY DEF DisputeInv, LinkagesRefer, CasesKept, LedgerKept
  <1>3. LinkagesAreBacked'
    BY <1>1 DEF DisputeInv, LinkagesRefer, LinkagesAreBacked, CasesKept, LedgerKept
  <1> QED BY <1>2, <1>3 DEF DisputeInv

\* A dispute that is opened is one more.
LEMMA CreateDisputeKeeps ==
  ASSUME DisputeInv, NEW p \in Partners, CreateDispute(p)
  PROVE  DisputeInv'
  <1> DEFINE x == [partner |-> p, status |-> "open"]
             n == Len(disputes) + 1
  <1>1. disputes' = Append(disputes, x) /\ UNCHANGED <<cases, ledger, linkages>>
    BY DEF CreateDispute, Dispute, compensationVars
  <1>2. x \in DisputeRecord /\ disputes \in Seq(DisputeRecord)
    BY DEF DisputeRecord, DisputeInv
  <1> HIDE DEF x
  <1>3. /\ disputes' \in Seq(DisputeRecord)
        /\ DOMAIN disputes' = DOMAIN disputes \cup {n}
        /\ \A m \in DOMAIN disputes : disputes'[m] = disputes[m]
    BY <1>1, <1>2, Appended
  <1> HIDE DEF n
  <1>4. LinkagesRefer'
    BY <1>1, <1>3 DEF DisputeInv, LinkagesRefer
  <1>5. LinkagesAreBacked'
    BY <1>1, <1>3 DEF DisputeInv, LinkagesRefer, LinkagesAreBacked
  <1> QED BY <1>1, <1>3, <1>4, <1>5 DEF DisputeInv

\* A dispute that is resolved stays the partner's.
LEMMA ResolveDisputeKeeps ==
  ASSUME DisputeInv, NEW p \in Partners, NEW n \in DOMAIN disputes, ResolveDispute(p, n)
  PROVE  DisputeInv'
  <1> DEFINE o == disputes[n]
             x == [o EXCEPT !.status = "resolved"]
  <1>1. disputes' = [disputes EXCEPT ![n] = x] /\ UNCHANGED <<cases, ledger, linkages>>
    BY DEF ResolveDispute, compensationVars
  <1>2. disputes \in Seq(DisputeRecord) /\ o \in DisputeRecord
    BY Indices DEF DisputeInv
  <1>3. x \in DisputeRecord /\ x.partner = o.partner /\ x.status = "resolved"
    BY <1>2 DEF DisputeRecord
  <1> HIDE DEF x
  <1>4. /\ disputes' \in Seq(DisputeRecord)
        /\ DOMAIN disputes' = DOMAIN disputes
        /\ \A m \in DOMAIN disputes : disputes'[m] = IF m = n THEN x ELSE disputes[m]
    BY <1>1, <1>2, <1>3, Replaced
  <1>5. LinkagesRefer'
    BY <1>1, <1>4 DEF DisputeInv, LinkagesRefer
  <1>6. \A m \in DOMAIN disputes :
          /\ disputes'[m].partner = disputes[m].partner
          /\ disputes[m].status = "resolved" => disputes'[m].status = "resolved"
    BY <1>3, <1>4
  <1>7. LinkagesAreBacked'
    BY <1>1, <1>6 DEF DisputeInv, LinkagesRefer, LinkagesAreBacked
  <1> QED BY <1>1, <1>4, <1>5, <1>7 DEF DisputeInv

\* A linkage is of a pair that is not linked yet.
LEMMA RecordLinkageKeeps ==
  ASSUME CompensationInv, DisputeInv, NEW p \in Partners, NEW n \in DOMAIN disputes,
         NEW i \in DOMAIN cases, RecordLinkage(p, n, i)
  PROVE  DisputeInv'
  <1> DEFINE x == [partner |-> p, dispute |-> n, case |-> i, status |-> "linked", entry |-> 0]
             l == Len(linkages) + 1
  <1>1. /\ linkages' = Append(linkages, x) /\ UNCHANGED <<cases, ledger, disputes>>
        /\ disputes[n].partner = p /\ cases[i].partner = p
        /\ \A k \in DOMAIN linkages : linkages[k].dispute # n \/ linkages[k].case # i
    BY DEF RecordLinkage, Linkage, compensationVars
  <1>2. n \in Nat /\ i \in Nat
    BY Indices DEF CompensationInv, DisputeInv
  <1>3. /\ x \in LinkageRecord /\ linkages \in Seq(LinkageRecord)
        /\ x.partner = p /\ x.dispute = n /\ x.case = i /\ x.status = "linked" /\ x.entry = 0
    BY <1>2 DEF LinkageRecord, DisputeInv
  <1> HIDE DEF x
  <1>4. /\ linkages' \in Seq(LinkageRecord)
        /\ l \notin DOMAIN linkages
        /\ DOMAIN linkages' = DOMAIN linkages \cup {l}
        /\ linkages'[l] = x
        /\ \A k \in DOMAIN linkages : linkages'[k] = linkages[k]
    BY <1>1, <1>3, Appended
  <1> HIDE DEF l
  <1>5. LinkagesRefer'
    BY <1>1, <1>3, <1>4 DEF DisputeInv, LinkagesRefer
  <1>6. LinkagesAreBacked'
    BY <1>1, <1>3, <1>4 DEF DisputeInv, LinkagesAreBacked
  <1> QED BY <1>1, <1>4, <1>5, <1>6 DEF DisputeInv

\* A linkage changes its status and perhaps its entry, nothing else.
LEMMA UpdateLinkageKeeps ==
  ASSUME CompensationInv, DisputeInv, NEW l \in DOMAIN linkages, NEW s, NEW e,
         linkages' = [linkages EXCEPT ![l].status = s, ![l].entry = e],
         UNCHANGED <<cases, ledger, disputes>>,
         \/ /\ s = "compensation_recorded" /\ e \in DOMAIN ledger
            /\ ledger[e].partner = linkages[l].partner /\ ledger[e].case = linkages[l].case
         \/ /\ s = "closed" /\ e = linkages[l].entry
            /\ disputes[linkages[l].dispute].status = "resolved"
  PROVE  DisputeInv'
  <1> DEFINE o == linkages[l]
             x == [o EXCEPT !.status = s, !.entry = e]
  <1>1. linkages' = [linkages EXCEPT ![l] = x]
    OBVIOUS
  <1>2. linkages \in Seq(LinkageRecord) /\ o \in LinkageRecord
    BY Indices DEF DisputeInv
  <1>3. 0 \notin DOMAIN ledger /\ \A n \in DOMAIN ledger : n \in Nat
    BY Indices DEF CompensationInv
  <1>4. o.entry \in DOMAIN ledger \cup {0}
    BY DEF DisputeInv, LinkagesRefer
  <1>5. /\ x \in LinkageRecord
        /\ x.partner = o.partner /\ x.dispute = o.dispute /\ x.case = o.case
        /\ x.status = s /\ x.entry = e
        /\ e \in DOMAIN ledger \cup {0}
    BY <1>2, <1>3, <1>4 DEF LinkageRecord
  <1> HIDE DEF x
  <1>6. /\ linkages' \in Seq(LinkageRecord)
        /\ DOMAIN linkages' = DOMAIN linkages
        /\ \A k \in DOMAIN linkages : linkages'[k] = IF k = l THEN x ELSE linkages[k]
    <2> DEFINE t == [linkages EXCEPT ![l] = x]
    <2>1. /\ t \in Seq(LinkageRecord)
          /\ DOMAIN t = DOMAIN linkages
          /\ \A k \in DOMAIN linkages : t[k] = IF k = l THEN x ELSE linkages[k]
      BY <1>2, <1>5, Replaced
    <2>2. linkages' = t
      BY <1>1
    <2> HIDE DEF t
    <2> QED BY <2>1, <2>2
  <1>7. LinkagesRefer'
    BY <1>5, <1>6 DEF DisputeInv, LinkagesRefer
  <1>8. \A k \in DOMAIN linkages :
          /\ linkages'[k].partner = linkages[k].partner
          /\ linkages'[k].dispute = linkages[k].dispute /\ linkages'[k].case = linkages[k].case
    BY <1>5, <1>6
  <1>9. LinkagesAreBacked'
    <2> SUFFICES ASSUME NEW k \in DOMAIN linkages
                 PROVE  LET y == linkages'[k]
                        IN  /\ y.entry # 0 => ledger[y.entry].partner = y.partner /\ ledger[y.entry].case = y.case
                            /\ y.status = "compensation_recorded" => y.entry # 0
                            /\ y.status = "closed" => disputes[y.dispute].status = "resolved"
      BY <1>6, <1>8 DEF DisputeInv, LinkagesAreBacked
    <2>1. CASE k = l
      <3>1. linkages'[k] = x
        BY <1>6, <2>1
      <3>2. CASE s = "compensation_recorded"
        BY <1>3, <1>5, <3>1, <3>2
      <3>3. CASE s = "closed"
        <4>1. o.entry # 0 => ledger[o.entry].partner = o.partner /\ ledger[o.entry].case = o.case
          BY DEF DisputeInv, LinkagesAreBacked
        <4> QED BY <1>5, <3>1, <3>3, <4>1
      <3> QED BY <3>2, <3>3
    <2>2. CASE k # l
      BY <1>6, <2>2 DEF DisputeInv, LinkagesAreBacked
    <2> QED BY <2>1, <2>2
  <1> QED BY <1>6, <1>7, <1>9 DEF DisputeInv

\* Every step about disputes and linkages keeps their part of the invariant.
LEMMA DisputeStepKeeps ==
  ASSUME CompensationInv, DisputeInv, DisputeStep
  PROVE  DisputeInv' /\ UNCHANGED <<cycleVars, compensationVars>>
  <1>1. ASSUME NEW p \in Partners, CreateDispute(p)
        PROVE  DisputeInv' /\ UNCHANGED <<cycleVars, compensationVars>>
    BY <1>1, CreateDisputeKeeps DEF CreateDispute
  <1>2. ASSUME NEW p \in Partners, NEW n \in DOMAIN disputes, ResolveDispute(p, n)
        PROVE  DisputeInv' /\ UNCHANGED <<cycleVars, compensationVars>>
    BY <1>2, ResolveDisputeKeeps DEF ResolveDispute
  <1>3. ASSUME NEW p \in Partners, NEW n \in DOMAIN disputes, NEW i \in DOMAIN cases, RecordLinkage(p, n, i)
        PROVE  DisputeInv' /\ UNCHANGED <<cycleVars, compensationVars>>
    BY <1>3, RecordLinkageKeeps DEF RecordLinkage
  <1>4. ASSUME NEW p \in Partners, NEW l \in DOMAIN linkages, NEW e \in DOMAIN ledger,
               RecordCompensation(p, l, e)
        PROVE  DisputeInv' /\ UNCHANGED <<cycleVars, compensationVars>>
    <2>1. /\ linkages' = [linkages EXCEPT ![l].status = "compensation_recorded", ![l].entry = e]
          /\ UNCHANGED <<cycleVars, compensationVars, disputes>>
          /\ ledger[e].partner = linkages[l].partner /\ ledger[e].case = linkages[l].case
      BY <1>4 DEF RecordCompensation, IsEntryOf
    <2> QED BY <2>1, UpdateLinkageKeeps DEF compensationVars
  <1>5. ASSUME NEW p \in Partners, NEW l \in DOMAIN linkages, CloseLinkage(p, l)
        PROVE  DisputeInv' /\ UNCHANGED <<cycleVars, compensationVars>>
    <2>1. /\ linkages' = [linkages EXCEPT ![l].status = "closed"]
          /\ UNCHANGED <<cycleVars, compensationVars, disputes>>
          /\ disputes[linkages[l].dispute].status = "resolved"
      BY <1>5 DEF CloseLinkage
    <2>2. linkages \in Seq(LinkageRecord) /\ linkages[l] \in LinkageRecord
      BY Indices DEF DisputeInv
    <2>3. [linkages[l] EXCEPT !.status = "closed"] =
            [linkages[l] EXCEPT !.status = "closed", !.entry = linkages[l].entry]
      BY <2>2 DEF LinkageRecord
    <2>4. linkages' = [linkages EXCEPT ![l].status = "closed", ![l].entry = linkages[l].entry]
      BY <2>1, <2>3
    <2> QED BY <2>1, <2>4, UpdateLinkageKeeps DEF compensationVars
  <1> QED BY <1>1, <1>2, <1>3, <1>4, <1>5 DEF DisputeStep

-----------------------------------------------------------------------------
(* The theorems.                                                           *)

\* Initially there is nothing.
LEMMA CrossInvInit == Init => CrossInv
  <1> SUFFICES ASSUME Init PROVE CrossInv
    OBVIOUS
  <1>1. CycleInv
    BY DEF Init, CycleInit, CycleInv, SemanticsBacked, ReceiptsShown, ReceiptsRestOnPreflights
  <1>2. CompensationInv
    BY DEF Init, CompensationInit, CompensationInv, CasesShown, CasesUnique, EntriesBacked
  <1>3. DisputeInv
    BY DEF Init, DisputeInv, LinkagesRefer, LinkagesAreBacked
  <1> QED BY <1>1, <1>2, <1>3 DEF CrossInv

\* Every step keeps the invariant.
LEMMA CrossInvStep == CrossInv /\ [Next]_vars => CrossInv'
  <1> SUFFICES ASSUME CycleInv, CompensationInv, DisputeInv, [Next]_vars PROVE CrossInv'
    BY DEF CrossInv
  <1>1. CASE CycleStep /\ UNCHANGED <<compensationVars, disputes, linkages>>
    BY <1>1, CycleStepKeeps, CompensationInvStutters, DisputeInvStutters DEF CrossInv
  <1>2. CASE CompensationStep /\ UNCHANGED <<disputes, linkages>>
    BY <1>2, CompensationStepKeeps, CycleInvStutters, DisputeInvStutters DEF CrossInv
  <1>3. CASE DisputeStep
    <2>1. DisputeInv' /\ UNCHANGED <<cycleVars, compensationVars>>
      BY <1>3, DisputeStepKeeps
    <2>2. shown \subseteq shown'
      BY <2>1 DEF cycleVars
    <2> QED BY <2>1, <2>2, CycleInvStutters, CompensationInvStutters DEF CrossInv
  <1>4. CASE UNCHANGED vars
    <2>1. UNCHANGED cycleVars /\ UNCHANGED compensationVars /\ UNCHANGED <<disputes, linkages>>
      BY <1>4 DEF vars
    <2>2. shown \subseteq shown'
      BY <2>1 DEF cycleVars
    <2> QED BY <2>1, <2>2, CycleInvStutters, CompensationInvStutters, DisputeInvStutters DEF CrossInv
  <1> QED BY <1>1, <1>2, <1>3, <1>4 DEF Next

\* The invariant holds in every reachable state.
LEMMA CrossInvAlways == Spec => []CrossInv
  BY CrossInvInit, CrossInvStep, PTL DEF Spec

\* A receipt rests on a preflight of its partner, and the version it names on
\* one semantics only.
THEOREM ReceiptsAlwaysRest == Spec => []ReceiptsRestOnPreflights
  <1>1. CrossInv => ReceiptsRestOnPreflights
    BY DEF CrossInv, CycleInv
  <1> QED BY <1>1, CrossInvAlways, PTL

\* Payouts are made on the one case of the partner for the cycle, within its
\* approval, for a discrepancy that was shown.
THEOREM AlwaysPaidAsApproved == Spec => []PaidAsApproved
  <1>1. CrossInv => PaidAsApproved
    BY DEF CrossInv, CompensationInv, CasesShown, CasesUnique, EntriesBacked, PaidAsApproved
  <1> QED BY <1>1, CrossInvAlways, PTL

\* Linkages are of the partner's own disputes, cases and entries, each pair once.
THEOREM LinkagesAlwaysBacked == Spec => []LinkagesAreBacked
  <1>1. CrossInv => LinkagesAreBacked
    BY DEF CrossInv, DisputeInv
  <1> QED BY <1>1, CrossInvAlways, PTL
=============================================================================
