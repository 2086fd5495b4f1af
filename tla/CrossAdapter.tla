----------------------------- MODULE CrossAdapter -----------------------------
(***************************************************************************)
(* Cross-adapter cycles, compensation, and the linkages between disputes   *)
(* and compensation (service/crossAdapterDisputeLinkageService.mjs), over  *)
(* the disputes of partnerCommercialService.mjs and of                     *)
(* platformInventoryDisputeFacadeService.mjs, in one store.                *)
(*                                                                         *)
(* Abstractions: a dispute is its partner and status, its number its id;   *)
(* the usage limits of a partner's risk tier are left out.                 *)
(***************************************************************************)
EXTENDS Compensation

VARIABLES
  disputes,   \* partner_program_disputes
  linkages    \* dispute_compensation_linkages

vars == <<keysUsed, cycleVars, compensationVars, disputes, linkages>>

Dispute(p, s)    == [partner |-> p, status |-> s]
Linkage(p, n, i) == [partner |-> p, dispute |-> n, case |-> i, status |-> "linked", entry |-> 0]

Init ==
  /\ CycleInit
  /\ CompensationInit
  /\ disputes = <<>>
  /\ linkages = <<>>

\* By either of the two services that open disputes.
CreateDispute(p) ==
  /\ Once(p, "dispute.create")
  /\ disputes' = Append(disputes, Dispute(p, "open"))
  /\ UNCHANGED <<cycleVars, compensationVars, linkages>>

ResolveDispute(p, n) ==
  /\ disputes[n].partner = p
  /\ Once(p, "dispute.resolve")
  /\ disputes[n].status = "open"
  /\ disputes' = [disputes EXCEPT ![n].status = "resolved"]
  /\ UNCHANGED <<cycleVars, compensationVars, linkages>>

\* A dispute and a case of the partner that are not linked yet.
RecordLinkage(p, n, i) ==
  /\ disputes[n].partner = p
  /\ cases[i].partner = p
  /\ Once(p, "linkage.record")
  /\ \A l \in DOMAIN linkages : linkages[l].dispute # n \/ linkages[l].case # i
  /\ linkages' = Append(linkages, Linkage(p, n, i))
  /\ UNCHANGED <<cycleVars, compensationVars, disputes>>

\* Mutant: the entry is looked up by its id only.
IsEntryOf_AnyCase(e, x) == e \in DOMAIN ledger /\ ledger[e].partner = x.partner

IsEntryOf(e, x) ==
  e \in DOMAIN ledger /\ ledger[e].partner = x.partner /\ ledger[e].case = x.case

\* The ledger entry is recorded with the linkage.
RecordCompensation(p, l, e) ==
  /\ linkages[l].partner = p
  /\ Once(p, "linkage.update")
  /\ linkages[l].status = "linked"
  /\ IsEntryOf(e, linkages[l])
  /\ linkages' = [linkages EXCEPT ![l].status = "compensation_recorded", ![l].entry = e]
  /\ UNCHANGED <<cycleVars, compensationVars, disputes>>

\* With or without compensation, once the dispute is resolved.
CloseLinkage(p, l) ==
  /\ linkages[l].partner = p
  /\ Once(p, "linkage.update")
  /\ linkages[l].status # "closed"
  /\ disputes[linkages[l].dispute].status = "resolved"
  /\ linkages' = [linkages EXCEPT ![l].status = "closed"]
  /\ UNCHANGED <<cycleVars, compensationVars, disputes>>

DisputeStep ==
  \E p \in Partners :
    \/ CreateDispute(p)
    \/ \E n \in DOMAIN disputes : ResolveDispute(p, n) \/ \E i \in DOMAIN cases : RecordLinkage(p, n, i)
    \/ \E l \in DOMAIN linkages : CloseLinkage(p, l) \/ \E e \in DOMAIN ledger : RecordCompensation(p, l, e)

Next ==
  \/ CycleStep /\ UNCHANGED <<compensationVars, disputes, linkages>>
  \/ CompensationStep /\ UNCHANGED <<disputes, linkages>>
  \/ DisputeStep

Spec == Init /\ [][Next]_vars

-----------------------------------------------------------------------------
\* A linkage that names a ledger entry names one of its own case and partner,
\* the entry of one case settles no dispute about another; one that is closed
\* rests on a resolved dispute of its partner; no pair is linked twice
\* (recordLinkage, updateLinkage).
LinkagesAreBacked ==
  \A l \in DOMAIN linkages :
    LET x == linkages[l]
    IN  /\ disputes[x.dispute].partner = x.partner /\ cases[x.case].partner = x.partner
        /\ x.entry # 0 => ledger[x.entry].partner = x.partner /\ ledger[x.entry].case = x.case
        /\ x.status = "compensation_recorded" => x.entry # 0
        /\ x.status = "closed" => disputes[x.dispute].status = "resolved"
        /\ \A k \in DOMAIN linkages :
             linkages[k].dispute = x.dispute /\ linkages[k].case = x.case => k = l
=============================================================================
