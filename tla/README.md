# SwapGraph in TLA+

A verification project for SwapGraph, the multi-party swap clearing service in
`src/`: TLA+ modules translated from its code, TLC runs over small instances,
and TLAPS proofs for every instance. Paths below are relative to the repository.

## 1. The system

SwapGraph finds cycles of users who each give an item the next one wants,
collects everybody's consent, escrows the items and releases them together.
It is a set of JavaScript services over **one in-memory store**
(`store.state`, `src/store/`). The HTTP server (`src/server/runtimeApiServer.mjs`)
reads a request body, calls one service synchronously, answers, and then saves
the store. Between two awaits nothing else runs, so **one request is one atomic
step**; all concurrency is the order in which requests of different users and
partners arrive. Services call each other rarely. They meet in the store: the
commit handshake and settlement both write reservations and events, settlement
and the vault both write holdings, matching and partners both write proposals.

| component | state it keeps | operations | hard behaviour | what makes it correct |
|---|---|---|---|---|
| commit handshake (`commit/`) | commits, reservations, events | accept, decline, expire accept phase | competing proposals, late answers, sweep against last accept | one live commit per intent; ready = unanimous; everything given back |
| commit API (`service/cycleProposalsCommitService`, `core/idempotency`) | idempotency records | accept, decline with key | retries, reused keys, a proposal dropped between tries | a key is answered once |
| matching service and ingest (`service/marketplaceMatching*`, `delivery/`) | proposals, their runs and partner scopes, canary state | run matching, poll, webhook | replacing proposals people answer; duplicate and invalid events; canary rollback | answered proposals stay |
| matching engine (`matching/`) | none between runs | graph, cycles, scoring, selection | limits on enumeration, exact against greedy search | selected cycles are disjoint, can be carried out and score best; every run ends |
| webhook consumer (`delivery/proposalIngestService`) | events seen, proposals | ingest a batch | repeated, reordered, forged deliveries; a batch that fails half-way | genuine events are ingested once |
| settlement (`settlement/`, `service/settlement*`) | timelines, legs, receipts, cycle scopes | start, confirm deposit, begin, complete, expire window | last deposit against expiry, vault and manual legs mixed, foreign reservations | all or nothing; funded before executed; locks last exactly as long |
| vault (`vault/vaultLifecycleService`) | holdings, vault events | deposit, reserve, release, withdraw | a bound holding released under a cycle | reserved holdings do not leave |
| swap intents, policies, delegations (`service/swapIntents*`, `core/`, `service/delegation*`) | intents, spend counters, delegations | create, update, cancel, grant, revoke | caps over several days, cancel under a commit | caps hold |
| stores and server loop (`store/`, `server/runtimeApiServer`) | the file or database, the state in memory | load, save, migrate; answer, then save | crash between answer and save, failing save, torn file, failing handler | what was saved survives, what is known was applied, memory reaches the disk |
| liquidity (`service/liquidity*`) | inventory, reservations, reconciliation log, execution requests, policy usage | snapshot, reserve, release, request, approve | batches that end half-way, ids reserved again | one active reservation per holding; the log tells every status |
| partner programme (`service/partner*`, `commercialPolicy*`) | ledgers, rollout stages, disputes | record, configure, export | quotas, rollout freezes | counters and stages agree |
| cross-adapter (`service/crossAdapter*`, `tier2AdapterCapability*`) | capabilities, semantics, cycle receipts, compensation cases, ledger, dispute linkages | preflight, record, open, approve, pay, link | one adapter fails, another partner takes over, a receipt is replaced under a case | payouts and linkages rest on what they name |
| logs and proofs (`service/transparency*`, `inclusionProof*`, `vault/custody*`) | hash chains | append, publish, link | gaps, continuation | chains are unbroken |
| records (reliability, staging, trust and safety, Steam adapter, metrics, readiness) | append-only records | record, list, export | little | - |
| clients (`client/`, `ios/`) and shadow matcher (`src-ts/`, `matching-ts-shadow/`) | caches | - | offline, retry | - |

The hazards this design is exposed to are listed in `PROJECT.json`, each with
the line where it bites and the properties about it.

## 2. Modules

| module | models |
|---|---|
| `Outbox` | identity of events: an event id is a hash of type, cycle and key (`delivery/eventIds.mjs`); the outbox is the count of each id |
| `ReservationLedger` | abstract: what the reservation table promises, whoever writes it |
| `CommitHandshake` | `commit/commitService.mjs`: `FirstAccept`, `LaterAccept`, `DeclineUnopened`, `DeclineCommit`, `ExpireAcceptPhase` |
| `CommitApi` | the handshake behind idempotency keys and the proposal board: `Handle`, `Replay`, `NotFound`, `RunMatching`, `Ingest` |
| `Vault` | `vault/vaultLifecycleService.mjs`: `Deposit`, `Reserve`, `Release`, `Withdraw` |
| `Settlement` | the settlement services: `Start`, `StartRefused`, `ConfirmDeposit`, `BeginExecution`, `Complete`, `ExpireDepositWindow` |
| `SwapCycle` | extends `Settlement` by `CommitHandshake` and `Vault`, over one store |
| `StateStore` | `store/`: `Load`, `Save`, `Crash`, `Migrate` for the JSON and the SQLite backend, whose interrupted saves differ |
| `RuntimeServer` | the request loop of `server/runtimeApiServer.mjs`: `Request`, `FailingTrigger`, `SaveFails` |
| `WebhookIngest` | `ingestWebhookEvents` of `delivery/proposalIngestService.mjs`: `Deliver` a batch |
| `Durability` | composes the store with the server, or with the consumer of webhooks |
| `Delegations` | `service/delegationsService.mjs` and the authorization of `core/authz.mjs`: `CreateDelegation`, `RevokeDelegation`, `DayPasses` |
| `TradingPolicy` | `core/tradingPolicyBoundaries.mjs`: caps and consents, as operators |
| `SwapIntents` | `service/swapIntentsService.mjs` over the two: `UserWrite`, `AgentWrite`, `UserCancel`, `AgentCancel`, `Revoke` |
| `CompatibilityGraph` | `matching/graph.mjs`: the edges of the graph, as operators |
| `CycleEnumeration` | `matching/cycles.mjs`, step by step: `BeginStart`, `Close`, `Extend`, `Backtrack`, `Finish`, `TimeOut` |
| `ProposalSelection` | `matching/proposals.mjs`: exact and greedy selection, as operators |
| `Matching` | `matching/engine.mjs`: a run over the three |
| `CrossAdapterCycle` | `service/crossAdapterCycleService.mjs` and the adapter capabilities it asks for: `UpsertCapability`, `PreflightCapability`, `RecordSemantics`, `SettlementReceipt`, `RecordReceipt` |
| `Compensation` | compensation cases and their ledger: `CreateCase`, `UpdateCase`, `RecordEntry` |
| `CrossAdapter` | composes the two with disputes and the linkages of disputes to cases |
| `LiquidityInventory` | `service/liquidityInventoryService.mjs`: `RecordSnapshot`, `ReserveBatch`, `ReleaseBatch` |
| `CommitProofs` | theorems about `CommitHandshake` and `CommitApi` |
| `SettlementProofs` | theorems about `Settlement` and `SwapCycle` |
| `MatchingProofs`, `SwapIntentsProofs`, `DurabilityProofs`, `LiquidityInventoryProofs`, `CrossAdapterProofs` | theorems about the module of that name |
| `FoldProofs` | induction over data, for the others |
| `MC*` | instances for TLC |

`SwapCycle` extends `Settlement` and instantiates the handshake and the vault
with the same variable names, so shared tables are shared variables;
`CommitApi` extends `CommitHandshake`.
A component is checked alone first (`Settlement` from every set of ready,
disjoint commits), then composed. `Durability`, `CrossAdapter` and
`SwapIntents` extend their parts, which share variables for the same reason.

**State.** `phase[p]` and `status[p][i]` are the commit of proposal `p`
(commit ids are hashes of proposal ids), `reservations[i]` the proposal behind
the reservation of intent `i`, `timelines`, `legs`, `receipts` and
`cycleScope` the settlement records of a cycle, `holdings[h]` a vault record,
`vaultLog[h]` the type of the last vault event, `proposals`, `tracked` and
`scope` the proposal board, `idempotency[s]` the record of a scope key.
In `StateStore`, `mem` and `file[b]` are the state in memory and in the file of
a backend, each the pieces of work it has seen. In `SwapIntents`, `spend` is
`policy_spend_daily` and `usedNonces` is `policy_consent_replay`. Variables
commented as history (`answers`, `saved`, `net`, `terms`, `uses`, `acted`,
`shown`, `told`, `gap`, the field `fundedIn` of a leg) record what happened and decide nothing.

**Steps.** One request is one action, however long its handler: the batches of
`LiquidityInventory` and `WebhookIngest` are folds over their items, which end
at an item that throws or does not parse, with the effect of those before it. A
request answered with an error and without effect is a stuttering step and has
no action; where an error leaves something behind (an idempotency record, a
tenancy scope, a used consent, half a batch) it has one. The one exception to
one action per call is the search of `CycleEnumeration`: it runs undisturbed,
but its limits may strike at any of its steps, so these are its actions.

**Abstracted.** Each module's header names what it leaves out. In general:
names, amounts and references are left out where handlers only copy them or
compare them with themselves; times sent by callers (`recorded_at`, `now_iso`)
may be anything; in `CommitApi` a matching run selects any disjoint set of
proposals, which `Matching` justifies; scores and wants are inputs of
`Matching`; signatures verify or not.

## 3. Runs

| run | question | instance |
|---|---|---|
| `commit_handshake` | do commits, reservations and outbox agree, and is the ledger implemented? | 3 proposals in a triangle over 3 intents, 2 participants (one with two intents), 1 outsider, clock to 2 |
| `commit_api` | are answered proposals kept and keys answered consistently? | 2 competing proposals, 3 scope keys, 1 polling partner |
| `settlement` | does a cycle settle as a whole, once, with its locks? | 2 cycles, 2 holdings, manual and vault legs, 2 partners |
| `swap_cycle` | what survives any order of requests to all three services? | 2 competing proposals, 1 holding, 2 reservation ids |
| `swap_cycle_orderly` | do the three fit under the discipline `OrderlySpec`? | the same |
| `durability` | is what was saved kept, what is known applied, and does everything reach the disk? | 2 requests (events) that succeed, 1 that throws, batches of 3, both backends |
| `swap_intents` | do caps, consents and revocations hold in every order? | 2 users, 1 agent with 3 delegations (one without a daily cap), 2 intents, 1 consent, 2 days |
| `matching` | is the search sound and complete, are the proposals the best, does a run end? | 4 intents, none or one of them without a value, all subsets of 7 edges under 2 sets of edge intents, a limit of 5 cycles, 3 scorings |
| `cross_adapter` | do receipts, payouts and linkages rest on what they name? | 2 cycles, 2 partners, 1 or 2 keys for each operation |
| `liquidity_inventory` | one active reservation per holding, and a log that tells it? | 2 providers, one with 2 holdings, 2 reservation ids, batches of 2 |
| `double_use`, `late_deposit` | does the code do what the documents say? It does not: see 6 | as `swap_cycle`, as `settlement` |

The bounds are small and chosen for the conflicts. Two proposals that share an
intent are the smallest instance with a reservation conflict, three in a
triangle the smallest where each is blocked by two others. One participant
with two intents in a proposal reaches the code that answers for all of a
user's legs. Two reservation ids for one holding reach a reservation that was
released and replaced. Delegations with different caps, or none, and days
that differ in their limits reach a write under one that is cancelled under
another, a day later. Seven edges over four intents give up to six cycles, more
than the limit, and components of conflicting candidates above and below
`ExactMax`; two intents which edge intents lead into are without a value in
turn, so that some runs fail. Two partners on one cycle reach a receipt replaced under a case of
its first partner. A batch of two reaches the failure after a success, one of
three an event that throws between two others. Nothing
counts beyond these: tables are per proposal, intent, holding or case, and
conditions compare at most two of each. Clocks need to pass each limit once.

Bounds that stand for something unbounded: `MaxClock`, `MaxDay` (time),
`MaxBatch` (items of a batch), `MaxCalls` (keys partners have),
`ScopeKeys` (keys callers have). `MaxCycles`, `MinLength`, `MaxLength` and
`ExactMax` are parameters of the code itself, with smaller values. Symmetry is
used where ids are only compared with one another (`TokenSymmetry` in
`swap_cycle`, reservation ids in `liquidity_inventory`), and never with a
liveness property.

`CHECK_DEADLOCK FALSE` stands where the system may really end, with the reason
in the configuration.

**Fairness.** The handshake and settlement assume none and claim no liveness:
nothing there runs unasked. Accept windows and deposit windows end only when
somebody calls the sweep (the server has no route or timer for the first).

`Durability` assumes that a supervisor restarts the process and that a save
follows its answer (weak fairness of `Load` and of `Save \/ SaveFails`: the
code calls save right after every answer); that not every save which would
write a given piece of work fails; and that some mutating request comes again.
The two about saves need strong fairness, since each crash disables them for a
while. `MemoryReachesDisk` still excludes the process that ends first: what was
answered and not saved is lost then, and that is what the code does. **Of the
sender of webhooks nothing is assumed**: it may stop, and it may put a
malformed event in front of every replay, which the documents do not exclude
("deliver-at-least-once; partners can replay from a checkpoint",
`docs/source/SwapGraph_System_Plan_v2.0_Feb2026.md`, 399; `docs/prd/M30.md`,
6). Such a batch throws each time with nothing saved, so that no event in it is
ever known. `GenuineEventsIngested` therefore speaks of events that are taken
from a batch again and again (`Taken`: a batch with the genuine event in it
comes to its end), alone or among others, in any order; what it says is that
crashes, lost saves, forgeries and batches that throw in between do not keep
such an event out.
`Matching` assumes weak fairness of its steps: the
search is a loop that nothing interrupts, and the call goes on until it returns
or throws.

## 4. Properties

*Handshake.* `ReservationsMatchCommits`: a reservation exists exactly for the
intents of live commits, so two live commits never share one and nothing stays
locked. `ReadyIsUnanimous`; `OutboxRebuildsReservations`: the events add up to
the table; `EventIdsAreUnique`; `PhasesOnlyAdvance`; `ImplementsLedger`.

*API.* `CommitKeepsProposal`, `BoardConsistent`, `AnswersAgree`.

*Settlement.* `FundedIffReady`; `AllOrNothing`: legs are released together by
completing, and a failed cycle has refunded every leg that was funded by then,
from the vault or by hand, so that whatever is deposited in it came later (each
leg remembers as history in which state of its timeline it was funded);
`BoundHoldingsLocked` (vault, legs and cycle marks agree), `LockedUntilSettled`,
`OutboxFollowsTimelines`; `SettledIsFinal`: finished timelines and settled legs
never change, a cycle is only ever given to the partner of its proposal.
`FailureRefunds`, the plan's promise without the exception for late deposits,
is violated: see 6.

*Composition.* Whatever callers do, `SettlementHolds`,
`ReservedLeavesWithItsCycle`, `TokenMeansReserved` and
`LogMissesOnlySettlement`: settlement moves holdings without a vault event,
against `docs/spec/PRIMITIVES.md` 67, and that is all the vault's log misses.
`ReservedLeavesWithItsCycle` goes both ways: a reserved holding leaves only with
its own cycle, and a completion takes every holding its legs still count on.
Under the discipline that nobody leaves a cycle being settled and no bound
holding is released, also `LockedWhileInCycle`, `OutboxRebuildsReservations`
and `ImplementsLedger`. The code does not enforce the discipline:
`double_use` shows two cycles with one intent without it, and section 6 what
becomes of a released holding.

*Durability.* `KnownIsApplied`: a state holds the work of every key or event it
knows, once, so an answer from a record is never about lost work.
`SavedNeverLost`: a later process starts from at least what was saved, or does
not start. `MemoryReachesDisk`, `GenuineEventsIngested`: liveness.

*Intents.* `DailyCapHolds`: what agents net in a day under delegations with a
daily cap stays within one of these caps; under a policy that names none the
code neither enforces nor counts. The property takes the cap as one of the net
movement of a day, as the code does: that cancelling an intent of an earlier
day makes room for more today is not tested by it, only that the count, which
is cut at zero, never falls below what was put up.
`HighValueConsented`, `ConsentUsedOnce`, `RevokedForGood`.

*Matching.* `CyclesAreSound` at every step of the search, `DoneMeansAll` when
no limit struck, `ProposalsFeasible` and `SelectionIsBest` against the
definition over all sets of candidates. `RunEnds`: every run ends, with a
selection unless an edge intent leads into an offer nobody can value; then it
throws (`Abort`).

*Cross-adapter.* `ReceiptsRestOnPreflights`, `PaidAsApproved`,
`LinkagesAreBacked`, each across a partner that takes a cycle over and a
receipt that is replaced.

*Liquidity.* `OneActivePerHolding`, `LogTellsReservations`, both across batches
that are answered with an error after part of them was done.

Every property of a passing run has a mutant in `PROJECT.json`: a definition of
the model changed as a plausible bug would change the code, under which TLC
finds the property violated. Mutants stand in the modules before the
definition they vary, as `Name_Variant`.

## 5. Proofs

Every invariant and every action property that a passing run checks is also
proved, for every value of the constants that satisfies the assumptions of its
module, and so are the two refinements of the ledger. The assumptions say what
the constants are (proposals have intents, intents have owners, the marks for
"no record" are no records, bounds and values are numbers); TLC evaluates them
in every run. In each module the checked invariants are strengthened to an
inductive one, which is shown to hold at first and to be kept by each action.
A conjunct that a step cannot disturb is dealt with once, by a lemma, for all
those steps.

**`CommitProofs`**, first part: `Spec` of the handshake implies
`[]HandshakeInv`, and with it `ReservationsMatchCommits`, `ReadyIsUnanimous`,
`OutboxRebuildsReservations`, `EventIdsAreUnique`, `PhasesOnlyAdvance` and
`ImplementsLedger`. The invariant the run checks is not inductive. That an
accept does not repeat `proposed->accepted` needs to know that it has not been
emitted while the commit is in `accept`, and that a second reservation is never
announced needs to know that a proposal without commit has announced none.
`OutboxHistory` says what the outbox holds for each commit by its phase,
`Unanswered` that nobody has answered a proposal without commit.
`ReservationsMatchCommits` makes the ledger proof go through: it identifies the
intents a commit holds with the intents of its proposal.

Second part: every step of the API is a step of the handshake or leaves it
alone (`ApiImplementsHandshake`), so what is proved of the handshake holds
behind keys and the board. `ApiInv` adds that what a handler has answered is
on record (`AnswersOnRecord`), which makes `AnswersAgree` a consequence, and
that matching and ingest keep proposals with a commit.

**`SettlementProofs`**, first part: `Spec` of `Settlement` implies every
property its run checks. `SettlementInv` adds three facts. `VaultLegsFunded`: a
vault-backed leg is never pending, so the expiry of the window refunds all of
them, as it does the manual legs that are deposited. `UnstartedLegsPending`: a cycle without a timeline has nothing a start
could overwrite. `StartedIsReady`: whoever ends a timeline is a ready commit,
so the intents it unlocks are its own. `CycleOk(p)` collects what concerns one
cycle, and a step changes one cycle; locks go by `LocksReleased`, bindings by
`StartBindings` and `EndBindings`, the outbox by `PathAnnounced`, which
compares what a step announces with what it adds to the path.

Second part: `SwapCycle`, where the three components disturb each other.
`CycleInv` holds whatever the callers do. It says nothing of reservations of
intents, which a decline may take away. Of holdings it keeps only what no
release can break: `OpenBackingMarked` and `BackedApart`. From it follow
`SettlementHolds`, `TokenMeansReserved`, `LogMissesOnlySettlement` and
`ReservedLeavesWithItsCycle`. Under the discipline of `OrderlySpec`,
`OrderlyInv` adds that what backs an open timeline stays reserved for it
(`BackingReserved`) and gives `LockedWhileInCycle`,
`OutboxRebuildsReservations` and the refinement of the ledger - and also
`NoDoubleUse` and `CompletionWithdraws`, two promises of the documents that the
code does not keep without the discipline (see 6).

**`MatchingProofs`**: `SearchInv` says that the path is a simple path of the
graph from its least node, and that a running search is below its limit; hence
`CyclesAreSound` wherever it stops. `CompleteInv` says that until the search is
given up, every cycle of the graph is found, starts from a node still to come,
or is `Ahead`: it agrees with the path up to some node, and the next from there
has not been looked at. A step back cannot leave such a cycle behind, since its
nodes all lie in the component of its first; hence `DoneMeansAll`. `RunInv`
says that nothing is proposed but what was selected from these cycles. The
searches of the selection are shown to be recursions over the candidates left;
from the recursions follow that picks share no intent, that the exact search is
as good as any other choice from its component and that the greedy one leaves
nothing out that fits. Components that meet are equal, so picks of different
components do not conflict and their sums add up: `ProposalsFeasible` and
`SelectionIsBest`, for all graphs, limits and scores. `FailsOnlyAsked`: an edge
that is derived never leads into an offer without a value, so a cycle through
such an offer rests on an edge intent.

**`DurabilityProofs`**: `DurabilityInv` adds to `SavedNeverLost` and
`KnownIsApplied` the types, and that a file which is not there has had no save.
A batch of webhooks is a fold; that the state agrees with itself and only grows
is kept by each item and so by the fold, wherever it ends.

**`LiquidityInventoryProofs`**: the checked invariants with the types are
inductive over requests. Within a batch `SoundWork` says of the work half done
what they say of the tables, every item leaves it sound, and so does the fold,
wherever a malformed item has stopped it.

**`SwapIntentsProofs`**: `DailyCapHolds` speaks of what agents really put up,
which the program does not store. `SpendCovers` says the counted spend is never
below it - a cancel lowers both by the same amount, and cutting the count at
zero only raises it - and `SpendCapped` that the counted spend is zero or
within a cap, since every write under a cap that leaves it above zero was
admitted by `WithinCap` or only lowered it, and the others do not touch it. `UsesRecorded` ties the uses of a consent to
the nonces in the replay table, and `RevokedIdle` makes the revocation an
invariant.

**`CrossAdapterProofs`**: the invariant `CrossInv` follows the chain: semantics
rest on a ready preflight and receipts were shown (`CycleInv`); cases are one
per partner and cycle, for a discrepancy that was shown, and entries belong to
a case that was approved, whose approval never changes afterwards
(`CompensationInv`); linkages refer to disputes, cases and entries there are
(`DisputeInv`). Records are only added or advance, so each part is kept by the
steps of the others.

**`FoldProofs`**: the provers cannot use induction theorems whose parameter is
an operator, so induction over data is done by hand, from the fact that a set
of natural numbers has a least element. `IsFold` and `FoldDefined` give the
recursion a fold over a sequence of the community modules stands for, and
`FoldStays` what it keeps; `SubsetRecursion` and `SubsetInduction` do the same
for the subsets of a finite set, which sums and the selection go over.

**Only model-checked**: liveness (`RunEnds`, `MemoryReachesDisk`,
`GenuineEventsIngested`), which is out of the prover's reach. `Vault` has no
theorems of its own; what it must keep is stated of `SwapCycle`.

## 6. Findings

| run | the code | the document |
|---|---|---|
| `double_use` | `decline` cancels a commit under a running settlement, also by a depositor (v1.3 plan, 422); after that an intent can be in two open timelines | v2.0 plan, 236 |
| `late_deposit` | `confirmDeposit` takes a deposit for a cycle that has failed, and no request refunds it | v1.3 plan, 420: "refund deposits after window closes" |

Seen while modelling, and part of the models without a run of their own:

* `vault.release` ignores the cycle a holding backs (`Release`), and a
  completion then skips the holding, whose reservation differs from that of its
  leg: the cycle is completed with the holding still in the vault, where
  `docs/prd/M50.md`, 33, says "bound holdings become `withdrawn`".
  `CompletionWithdraws` states that, and `OrderlyCompletionWithdraws` proves it
  for callers who do not release a bound holding;
* an edge intent into an offer with an asset of no known value makes a matching
  run throw. The server answers 500; the proposals that had expired or were to
  be replaced are dropped by then, and none take their place (in `CommitApi`:
  `RunMatching` with an empty selection);
* an event that throws ahead of others in every replay keeps them out for good
  (`proposalIngestService.mjs`, 129);
* a refused start leaves its tenancy scope behind, and a poll may take over the
  scope of a cycle that another partner has started;
* a settled intent is not marked and can be accepted and settled again;
* the proposal is looked up before the idempotency record, so a retry can be
  told NOT_FOUND (`docs/spec/IDEMPOTENCY.md`, 7);
* before there is a commit, anybody may decline a proposal, for good;
* a liquidity reservation in settlement can be reserved again by its id if as
  much again is free, against the life cycle of `docs/prd/M105.md`, 26.

## 7. Plan

Done: handshake, settlement, vault and their composition, the commit API, the
store with the server and the webhook consumer, intents with delegations and
policies, the matching engine, cross-adapter cycles with compensation and
disputes, liquidity inventory; a proof of every safety property the runs check.

Next, most useful first: that `StateStore` with either program refines one
abstract store that keeps what was saved; that the batches of
`LiquidityInventory` refine a reservation table like the ledger; that the vault
alone refines a table of who holds what.

**Not modelled**, and why (per component in `PROJECT.json`):

* projections, exports, metrics and readiness change no state;
* signatures, Merkle proofs and the chained transparency log: what could go
  wrong is in the hashing, which a model would assume away;
* providers, listings, execution requests, autonomy policy, the partner
  programme and the append-only evidence: records that are written by one
  request each under a guard on the record itself, and that nothing else reads;
* quiet hours, challenges, token scopes and the parsing of proofs in the
  policies: functions of one request;
* which of two equivalent matchers serves a run, its shadow diffs and its
  rollback switch: they select the answer, not what may be done with it;
* HTTP parsing, routing and the demo board, the web and iOS clients (caches of
  reads) and the TypeScript mirror of the matcher.

These make up most of the lines of the repository, so the share of the lines
the map covers is small; the state that several requests compete for is
modelled.
