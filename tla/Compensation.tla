----------------------------- MODULE Compensation -----------------------------
(***************************************************************************)
(* Compensation for cycles that did not settle on both sides               *)
(* (service/crossAdapterCompensationService.mjs and                        *)
(* crossAdapterCompensationLedgerService.mjs): a case per partner and      *)
(* cycle, decided and resolved, and the ledger of what is paid for it.     *)
(*                                                                         *)
(* Abstractions: amounts are small numbers; the amount asked for, which is *)
(* only stored, reason codes, notes and times are left out.  Cases and     *)
(* ledger entries are numbered by their counters.                          *)
(***************************************************************************)
EXTENDS CrossAdapterCycle, Sequences

CONSTANT Amounts   \* the amounts approved and entered

ASSUME AmountsAssumption == Amounts \subseteq Nat \ {0}

VARIABLES
  cases,   \* cross_adapter_compensation_cases
  ledger   \* cross_adapter_compensation_ledger

compensationVars == <<cases, ledger>>

Case(p, c, d)     == [partner |-> p, cycle |-> c, discrepancy |-> d, status |-> "open", approved |-> 0]
Entry(p, i, t, a) == [partner |-> p, case |-> i, type |-> t, amount |-> a]

CompensationInit == cases = <<>> /\ ledger = <<>>

\* Mutant: a case that is resolved does not count any more.
HasCase_Unresolved(p, c) ==
  \E i \in DOMAIN cases : cases[i].partner = p /\ cases[i].cycle = c /\ cases[i].status # "resolved"

HasCase(p, c) == \E i \in DOMAIN cases : cases[i].partner = p /\ cases[i].cycle = c

\* On the receipt as it is now, which must be the partner's and show the
\* discrepancy.
CreateCase(p, c) ==
  /\ crossReceipt[c] # Nothing /\ crossReceipt[c].partner = p
  /\ crossReceipt[c].discrepancy # "none"
  /\ Once(p, "case.create")
  /\ ~HasCase(p, c)
  /\ cases' = Append(cases, Case(p, c, crossReceipt[c].discrepancy))
  /\ UNCHANGED <<cycleVars, ledger>>

TransitionAllowed(from, to) ==
  <<from, to>> \in {"open"} \X {"approved", "rejected"} \cup {"approved", "rejected"} \X {"resolved"}

ApprovedAfter(x, to, a) ==
  CASE to = "approved" -> a
    [] to = "rejected" -> 0
    [] OTHER           -> x.approved

UpdateCase(p, i, to, a) ==
  /\ cases[i].partner = p
  /\ Once(p, "case.update")
  /\ TransitionAllowed(cases[i].status, to)
  /\ cases' = [cases EXCEPT ![i].status = to, ![i].approved = ApprovedAfter(cases[i], to, a)]
  /\ UNCHANGED <<cycleVars, ledger>>

\* A payout may not exceed what was approved; an adjustment or a reversal,
\* which are treated alike, may.
Payable(x, t, a) ==
  /\ x.status \in {"approved", "resolved"}
  /\ t = "payout" => x.approved > 0 /\ a <= x.approved

RecordEntry(p, i, t, a) ==
  /\ cases[i].partner = p
  /\ Payable(cases[i], t, a)
  /\ Once(p, "ledger.record")
  /\ ledger' = Append(ledger, Entry(p, i, t, a))
  /\ UNCHANGED <<cycleVars, cases>>

CompensationStep ==
  \/ \E p \in Partners, c \in Cycles : CreateCase(p, c)
  \/ \E p \in Partners, i \in DOMAIN cases, a \in Amounts :
       \/ \E to \in {"approved", "rejected", "resolved"} : UpdateCase(p, i, to, a)
       \/ \E t \in {"payout", "adjustment"} : RecordEntry(p, i, t, a)

-----------------------------------------------------------------------------
\* Every payout is one for the only case its partner has for the cycle, within
\* the approval the case still carries, and for a discrepancy a receipt of
\* that partner has shown - though receipts are replaced and cases go on
\* (createCase, updateCase, recordLedgerEntry).
PaidAsApproved ==
  \A n \in DOMAIN ledger : ledger[n].type = "payout" =>
    LET x == cases[ledger[n].case]
    IN  /\ x.partner = ledger[n].partner
        /\ \A i \in DOMAIN cases :
             cases[i].partner = x.partner /\ cases[i].cycle = x.cycle => i = ledger[n].case
        /\ x.status \in {"approved", "resolved"} /\ ledger[n].amount <= x.approved
        /\ x.discrepancy # "none" /\ <<x.partner, x.cycle, x.discrepancy>> \in shown
=============================================================================
