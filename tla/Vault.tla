-------------------------------- MODULE Vault --------------------------------
(***************************************************************************)
(* The vault of src/vault/vaultLifecycleService.mjs: a user deposits a     *)
(* holding, a partner reserves and releases it under a reservation id it   *)
(* chooses, the owner withdraws it when it is not reserved.                *)
(*                                                                         *)
(* Settlement binds reserved holdings to a cycle by writing                *)
(* settlement_cycle_id into the same records (module Settlement); none of  *)
(* the four operations here reads or clears that field.                    *)
(***************************************************************************)
CONSTANTS
  Holdings,      \* holding ids
  HoldingOwner,  \* HoldingOwner[h]: the user who deposits h
  Actors,
  Tokens,        \* reservation ids partners may choose
  NoToken,       \* value of an absent reservation id
  Proposals,
  NoProposal

VARIABLES
  holdings,  \* holdings[h]: status, reservation id and settlement cycle of h
  vaultLog   \* vaultLog[h]: type of the last event about h in vault_events

vaultVars == <<holdings, vaultLog>>

Holding == [status : {"none", "available", "reserved", "withdrawn"},
            token : Tokens \cup {NoToken},
            cycle : Proposals \cup {NoProposal}]

VaultEvents == {"none", "deposit_confirmed", "holding_reserved",
                "holding_released", "holding_withdrawn"}

Absent == [status |-> "none", token |-> NoToken, cycle |-> NoProposal]

Init ==
  /\ holdings = [h \in Holdings |-> Absent]
  /\ vaultLog = [h \in Holdings |-> "none"]

Log(h, event) == vaultLog' = [vaultLog EXCEPT ![h] = event]

\* A holding id is used once: a withdrawn holding stays on record.
Deposit(u, h) ==
  /\ u = HoldingOwner[h]
  /\ holdings[h].status = "none"
  /\ holdings' = [holdings EXCEPT ![h].status = "available"]
  /\ Log(h, "deposit_confirmed")

\* Mutant: no event is appended.
Reserve_Silent(h, token) ==
  /\ holdings[h].status = "available"
  /\ holdings' = [holdings EXCEPT ![h].status = "reserved", ![h].token = token]
  /\ UNCHANGED vaultLog

Reserve(h, token) ==
  /\ holdings[h].status = "available"
  /\ holdings' = [holdings EXCEPT ![h].status = "reserved", ![h].token = token]
  /\ Log(h, "holding_reserved")

\* Mutant: the reservation id stays on the record.
Release_KeepsToken(h, token) ==
  /\ holdings[h].status = "reserved"
  /\ holdings[h].token = token
  /\ holdings' = [holdings EXCEPT ![h].status = "available"]
  /\ Log(h, "holding_released")

\* settlement_cycle_id is neither consulted nor cleared.
Release(h, token) ==
  /\ holdings[h].status = "reserved"
  /\ holdings[h].token = token
  /\ holdings' = [holdings EXCEPT ![h].status = "available", ![h].token = NoToken]
  /\ Log(h, "holding_released")

Withdraw(u, h) ==
  /\ u = HoldingOwner[h]
  /\ holdings[h].status \notin {"none", "reserved", "withdrawn"}
  /\ holdings' = [holdings EXCEPT ![h].status = "withdrawn", ![h].token = NoToken]
  /\ Log(h, "holding_withdrawn")

Next ==
  \E h \in Holdings :
    \/ \E u \in Actors : Deposit(u, h) \/ Withdraw(u, h)
    \/ \E token \in Tokens : Reserve(h, token) \/ Release(h, token)

Spec == Init /\ [][Next]_vaultVars

\* The status a consumer of vault_events infers from the last one.
StatusAfter == [none              |-> "none",
                deposit_confirmed |-> "available",
                holding_reserved  |-> "reserved",
                holding_released  |-> "available",
                holding_withdrawn |-> "withdrawn"]

LogTells(h) == holdings[h].status = StatusAfter[vaultLog[h]]

\* A reservation id is on record exactly while the holding is reserved, whoever
\* moves it: a holding nobody has reserved can be neither bound nor released,
\* and a reserved one can always be named.
TokenMeansReserved ==
  \A h \in Holdings : holdings[h].status = "reserved" <=> holdings[h].token # NoToken
=============================================================================
