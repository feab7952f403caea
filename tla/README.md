# ChainContest in TLA+

ChainContest runs trading contests whose rules and prize money live in a
contract (`src/contracts`), with an event indexer and a tasks service around it
(`src/apps/indexer`), a web application (`src/apps/api-server`,
`src/apps/web-ui`) over one PostgreSQL database (`src/packages/db`), and a
validation package, a developer console and a development environment tool
beside it. This directory holds TLA+ models of these parts, TLC instances that
check them, and machine-checked proofs of every safety property the runs check. Paths below are relative to `src/`.

Contents: the parts of the system and what is hard about them; the modules; the
runs with their bounds and fairness; what is proved; where the code departs from
what the repository says; what is not modelled; what comes next.

## The system

| part | state | operations | talks to |
|---|---|---|---|
| `Contest.sol`, `Vault.sol` | phase, configuration, prize pool, scores, leaderboard, vaults, token balances | initialize, register, swapExact, syncState, freeze, settle, updateLeaders, seal, claim, exit | the price source; everyone who sends transactions |
| `PriceSource.sol` | cached mean tick, pool, window | updatePool, update, requireWithinTolerance | a Uniswap pool; several contests may share it |
| event indexer | `ingestion_cursors`, `ingestion_events`, contest rows, endpoint and health state in memory | live cycles, replays, registry reload, milestone dispatch, endpoint failover, `/healthz` | RPC endpoints, database, pg-boss |
| tasks service | pg-boss jobs, milestone records, reports, pauses in memory | milestone worker, reconciliation worker, operators' routes, lifecycle tick | database, chain |
| api-server | users, sessions, requests, contest rows | sign-in, lists, plans, deployment, phase synchronisation | database, chain, browsers |
| web-ui | panels, caches of queries | buttons, wallet transactions, refreshes | api-server, wallet |
| validation engine | registry, plan | merge, order, evaluate a batch | the repositories' callers |
| dev-console | tracker of calls, write queue | start, read, write, history | a local node |
| dev-bootstrap | containers, network, volumes | validate, start, stop, reset | Docker |

What makes these hard to test is, in one sentence each:

- transactions of many accounts fall in any order between the reads and the writes of a service, a server or a page;
- a row is read in one statement and written whole in another, and a second writer is between them;
- live cycles are started by a timer that does not wait for the one before;
- pg-boss delivers at least once, takes a job back when its time is over although the handler still runs, and silently refuses a second job under a key;
- processes stop between two steps, calls fail half-way, and answers of requests arrive in any order;
- time passes on the chain, on the servers and in the caches at once: registration closes, snapshots age, nonces and sessions expire.

`PROJECT.json` lists these as hazards, each at its line and with the property
that would break.

## The modules

Each module models one component, in the words of the code: an action stands for
one handler, or for one statement of it where others can come between; its
guards are the code's conditions and early returns. A failing call, a crash, a
timeout, a click or a page load costs from a budget, which is part of the
behaviour's scenario; `Spending` in each module names what the budget counts, so
every bound on the environment has a name. All else is bounded by constants
(`MaxTime`, `MaxBlocks`, ...).

| module | models | state and actions |
|---|---|---|
| `Contest` | `contracts/src/Contest.sol`, `Vault.sol` and the two tokens they move | one action per external function; a transaction is atomic, a revert is no step; `GiveToContest`, `GiveToVault` are unsolicited transfers, `SwapCallback` is a vault's swap callback called outside a swap |
| `PrizeEscrow` | what the contract promises about prize money | the abstract specification that `Contest` implements |
| `PriceSource` | `PriceSource.sol` | every price history; configure, update, judge a trade |
| `Lifecycle` | `lifecycleOrchestrator.ts`, `contestLifecycle.ts` | the steps of one tick, with what its conversions make of the contract's answers, composed with `Contest`, whose actions fall between any two of them |
| `Ingestion` | the event indexer's pipelines, `rpcContestDataProvider.ts`, `ingestionWriter.ts`, `contestDomainWrites.ts` | chain, lagging endpoint, overlapping cycles, replay, reload, cursor, events, phase, milestones sent |
| `Endpoints` | `rpcEndpointManager.ts`, `contestGateway.ts` of the indexer, `healthTracker.ts`, `/healthz` | endpoint selection, cooldowns, streaks, health |
| `Milestones` | milestone worker, processor, control, serial executor and the execution records | pg-boss jobs and keys, handler steps, records, pauses, an operator's retry |
| `Reports` | reconciliation worker and processor, report ledger, review route | jobs, the row, notifications, a reviewer |
| `SignIn` | the connect button, `useSession`, `/api/auth/*`, users, identities, wallet bindings, sessions | two tabs that share cookies and wallet, one action per database statement |
| `Deployment` | `deploymentService.ts`, `CreateContestForm.tsx`, the component form, requests, artifacts, contests rows, `VaultFactory.sol` | the steps of a deployment, funding by the owner, finalisation, lost answers after which a form is submitted again while the server still works |
| `Participation` | `ContestDetail`, `RegistrationPanel`, the settlement section of `PostgamePanel`, reward and principal panels, `OrganizerControls`, the routes behind them, `phaseSync.ts`, `definitionBuilder.ts`, the gateway's plans, the indexer's writes of the row | the contest's row and everybody who overwrites it |
| `Rebalance` | the trading section of `PostgamePanel`, its routes, the gateway's rebalance plan and policies, `swapExact` with the price source | plans under way, approvals, price refresh, swaps sent and not yet mined, gifts and direct callbacks that change a vault beside them |
| `Catalogue` | contest explorer, created contests, participation history and their queries | pages, cursors, the browser's kept answers, rows that come and move |
| `Validation` | `packages/shared/schemas`, `lib/db/validators.ts` | overrides, plan, evaluation frames, the entry each type's value is from |
| `Console` | `apps/dev-console` | start, calls, the write queue, connections that fail before or after the node took a write, tracker and history |
| `DevEnvironment` | `tools/dev-bootstrap` | configuration and override, commands, Docker |
| `ContestProofs`, `SignInProofs`, `IngestionProofs`, `MilestonesProofs`, `DeploymentProofs`, `ParticipationProofs`, `RebalanceProofs` | | the theorems about the module each is named after, and their lemmas; `ContestProofs` also those about `Lifecycle`, `IngestionProofs` those about `Endpoints` |
| `ServicesProofs` | | the theorems about the parts that share no state: `PriceSource`, `Reports`, `Console`, `DevEnvironment`, `Validation`, `Catalogue` |
| `MC*` | | small instances; `MCServices` puts the parts that share no state side by side |

`Lifecycle` composes the service with the contract; `Participation`,
`Rebalance` and `Deployment` each compose browser, server, database and chain for
one concern, with the contract reduced to what makes their transactions fail.
`MCServices` is no composition: each behaviour is of one part, and the others
stay in a quiet scene.

Data is abstracted to what the properties tell apart. A participant and the
vault cloned for it share a name; an event is its number in the contest's
history; a signed message is its account, nonce and expiry; a report, a form or a
registry entry is what decides about it.

## The runs

Twelve runs, each one question. Liveness is checked only where the code's own
scheduling gives the fairness.

| run | instance | what it shows |
|---|---|---|
| `contest` | 2 accounts, 3 payout schedules and 4 rejected ones, 2 prices, 2 leaderboards, 1 gift, 1 direct call of a vault's swap callback in any phase and of any amounts | the pool never exceeds the tokens held (`Solvency`), only scored contests are sealed (`SealedMeansScored`), a board and the ranks agree (`BoardConsistent`), no winner can leave the prize behind (`NoForfeitedPrize`), everyone has a way out unless the callback took from the vault after settle (`WayOut`), nothing but the owner's exit and that callback takes from a vault from `liveEnds` on (`AssetsOnlyToOwner`), results and scores are final, and the contract implements `PrizeEscrow` |
| `lifecycle` | 2 seats, 1 failure, a return beyond the limit | everybody who entered is scored in the end although the service never sees that anybody is (`EventuallySettled`) |
| `ingestion` | 2 overlapping cycles, an endpoint one block behind, 1 failure, 1 restart | the cursor never passes an event that is not stored, nor a milestone that nobody sends (`NothingPassedOver`) |
| `ingestion_live` | 1 cycle at a time; a replay, a reload, a failure, a restart, a reorganised block, a refused write | the phase keeps up with the cursor but for a seal before `claimEnds` (`PhaseCovers`), every event is stored in the end, no replay leaves a stream paused |
| `milestones` | 1 or 2 processes, 2 sends, a timeout, a crash, a fault, a pause, a retry | a success took effect, one successor job at most, exhausted ones are marked (`BooksAreTrue`); repetitions are paid for by a fault, a crash or an operator; nothing is simply gone; attempts are not forgotten and run out |
| `sign_in` | 2 tabs, 2 accounts, 2 clicks, 1 failure | a session has a user, an identity and a binding behind it; only races and faults fail; views and buttons settle |
| `participation` | 2 users, 1 seat, the organizer, others who act on the contract, replays, page loads | pages are never ahead of the chain; a registration found ready fails by a race only; buttons come back and the status gets to its end |
| `rebalance` | 1 participant, 2 rates, 5 seconds, up to 4 clicks, a gift and a direct callback | every trade was judged just before by the rules and a fresh price; no swap changes a vault from the end of the live phase and none costs more than the tolerance; the buttons come back |
| `deployment` | 2 tabs, 2 requests, 3 contest ids, faults, lost answers, a restart | the catalogue names contracts that exist; nothing recorded is undone; uninterrupted requests come out |
| `services` | see `MCServices` | the parts that share no state: means of prices, reports, endpoints, lists, validation, console, development environment |
| `rpc_failover`, `paging` | as `services` | two places where the code does not do what the repository says; each is a counterexample |

Why the bounds are enough. Every hazard listed needs few actors: two writers of a
row, two cycles, two jobs of one milestone, two tabs, two requests under one
contest id; two ranks and a slot beyond `topK`; a boundary with one second on
each side. The instances have these, and the budgets let each disturbance fall at
every point. The runs fire every action of every module. They do not reach what
needs size: boards of 17 places, more than one failure of
most kinds at once. The limit of `int32` on a return is a constant (`MaxRoiBps`),
small enough in `lifecycle` to be passed by a gift.

Fairness. `Lifecycle`: the service's own steps, because `setInterval` starts a
tick again and again, and registrations are indexed in the end.
`Ingestion`: the timer's cycles, a replay under way and the reload of the
registry. `Milestones`: polling, handlers, pg-boss's maintenance and the requests
being served. `SignIn`, `Participation`, `Rebalance`, `Deployment`: requests are
answered and what was sent is mined or given up; clicks and page loads are never
promised, except that `SettledInTheEnd` (part of `NothingHangs`) assumes that
somebody keeps opening the contest's page, because only page loads move its
status. `Endpoints`: cycles start again and every call ends (RPC timeouts).
`Console`: the local node answers and mines. `Contest` itself has none, so it
has no liveness of its own.

Each module also states a type invariant (`TypeOK`, `ServiceTypeOK`,
`ReportsTypeOK`, ...). Each of them is a theorem. No run spends time on them:
they say little by themselves and are the base of the inductive invariants, which
were run as invariants on these instances before they were proved.

Deadlock is not checked: clocks stop at their bounds, budgets run out, a contest
that is sealed and emptied has nothing left to do.

## What is proved

Every invariant and every action property that a passing run checks is a theorem;
what the runs have beyond that is liveness. Each theorem holds for every value of
the constants that satisfies the assumptions of its module: any number of
accounts, cycles, processes, tabs or users, any registry, batch, list or stack of
services, any budget of disturbances, any clock. The assumptions say that numbers
are natural, accounts finitely many, scenarios of their type and names distinct;
those that a proof needs beyond this are named below.

| theorem | says |
|---|---|
| **`Contest`** | |
| `TypeCorrect` | no sequence of calls takes a balance, pool or counter out of its type |
| `AlwaysSolvent` | the contract holds what its pool accounts for |
| `SealIsComplete` | a sealed contest has scored every participant, although `seal` compares two counters |
| `PrizesAreNotForfeited` | a winner cannot empty the vault before the prize is claimed |
| `BoardStands` | a settled vault on the board holds the rank of its place |
| `ResultsAreFinal` | scores are written once, and ranks and board never change once sealed |
| `AssetsGoToOwner` | from `liveEnds` a vault's tokens leave it only for its owner, or by a direct call of its own swap callback |
| `EveryoneHasAWayOut` | with a fair board every participant of a sealed contest has withdrawn, has a claim that the pool covers whoever claimed before, or has an exit that the vault covers but for what a direct call of its callback took since settle |
| `ContestIsEscrow` | the contract implements `PrizeEscrow` |
| **`Lifecycle`** | |
| `ListsAreFresh` | types; no list outlives its tick, and no tick gets to the calls that start, freeze, rank or seal |
| `OrchestratedIsContest` | the composition implements `Contest`, so that all theorems above hold beside the service |
| **`PriceSource`** | |
| `PricesTyped` | types; no snapshot is from the future |
| `PricesStayMeans` | every price cached or judged by is the floored mean over a whole window of the pool configured then |
| **`Ingestion`** | |
| `IngestionTyped` | types; no batch is over the limit |
| `NothingIsPassedOver` | the cursor passes no event that is not stored and no milestone nobody is going to send |
| `PhaseIsNeverBehind` | with one cycle at a time and nothing replayed, refused or reorganised, the row shows the phase of every milestone the cursor has passed but a seal before the window's end |
| **`Milestones`** | |
| `MilestonesTyped` | types; no job is beyond its retry limit |
| `BooksAreKept` | a recorded success took effect, one successor job at most, exhausted ones are marked |
| `RepetitionsArePaidFor` | with one process each repeated effect was paid for by a fault, a crash or an operator |
| `AttemptsAreKept` | with one process and no operator the attempt counter never goes down |
| `NothingIsGone` | a milestone sent is done, in work, or recorded where the operator's retry finds it |
| **`Reports`** | |
| `ReportsTyped` | types; no job is tried beyond its retry limit |
| `RowsAreTrue` | the row counts notifications that were sent and, with one worker, shows that its job was given up |
| `OwnersAreKept` | with one worker a pending report stays with the job that filed it |
| **`SignIn`** | |
| `SignInTyped` | types |
| `SessionsStayBacked` | a session's wallet is bound to an identity of a user |
| `NothingElseFails` | a verification that passed its checks gives up for a fault or a race only |
| **`Deployment`** | |
| `DeploymentTyped` | types; no page shows an implementation that was never deployed |
| `CatalogueStaysTrue` | what the catalogue shows is on the chain, what came out uninterrupted is shown, and a row's metadata are older than its address only where an answer was lost |
| `NothingIsUndone` | failed and confirmed requests stay that, entrants are forgotten by a finalisation or a resubmission only |
| **`Participation`** | |
| `ParticipationTyped` | types; no count above the capacity is stored or shown |
| `PagesAreNeverAhead` | no page says full, or offers a settlement, before the contract allows it |
| `RevertsStayRaces` | a registration found ready reverts only after a race |
| **`Rebalance`** | |
| `RebalanceTyped` | types; one plan of a panel at most is the newest |
| `EveryTradeWasJudged` | every swap that went through was judged in the live phase no longer than the deadline before, with a price fresh then |
| `VaultsStaySafe` | from the end of the live phase no swap changes a vault, gifts and direct callbacks alone do, and no trade costs more than the tolerance |
| **`Endpoints`** | |
| `EndpointsAreTyped` | types; no endpoint reaches the threshold without being put aside |
| `OutagesAreShort` | while an endpoint answers and until the first cooldown is over, each dead one costs a stream at most `FailureThreshold + calls - 1` failures in a row |
| **`Validation`** | |
| `ValidationTyped` | types |
| `VerdictIsAlwaysRight` | a plan lists dependencies first, no evaluation enters itself again, every verdict follows from values of the batch, and with one entry of each type depended on it does not depend on any order |
| **`Catalogue`** | |
| `CatalogueTyped` | types; one answer is kept for a key, and no page is longer than the page size |
| `WalksAreWhole` | pages fit together, no row comes twice, none that stayed is left out but at an edge |
| **`Console`** | |
| `ConsoleTyped` | types |
| `CallsStayRight` | writes reach the node in order, none beside an open one but one whose connection failed; what is told confirmed took effect, what is told failed never does but for the connection |
| **`DevEnvironment`** | |
| `DevTyped` | types |
| `ExitIsAlwaysTrue` | success leaves nothing behind that was to go, failure has a cause |
| `NothingElseIsLost` | data is lost by a reset that asked for it only |

None of the safety properties is inductive. The proof modules state for each
component the invariant that is, show it initially and under each action, and
derive the theorems from it. What has to be added is what the code relies on
without saying so:

- `Contest` (`Inv`): initialize has checked the configuration in use
  (`Configured`: a share of the pool is a natural number only because of it),
  nothing is accounted for before (`Blank`), the counters are the sizes of the
  sets (`CountsAgree`: without it equal counters say nothing about who is
  scored), and prizes and vaults are emptied in a sealed contest only
  (`PaidWhenSealed`: what was paid stays what the rank is worth because nothing
  is funded or ranked any more). `BoardScored` adds that a board holds settled
  vaults only: a vault settled later would be on it with rank 0.
  `EveryoneHasAWayOut` is about the pool's whole history (`ClaimInv`): what is left
  is what was funded less the shares of those who claimed (`PoolLedger`), each of
  a rank of its own, and the schedule gives away no more than all of it. The sum
  over the claimants is bounded by the sum over the ranks (`ClaimedShares`,
  `PoolCovers`), which takes the lemmas on sums proved before them.
  `unrecorded` names the vaults whose callback was called since they last reread
  their balances; of all others the recorded balances are covered
  (`RecordedHeld`), which is what `withdraw` needs.
- `Lifecycle` (`LifecycleInv`): its type invariant is inductive beside the
  contract's. No phase ever ends for the service and no score is ever there
  (`ServiceTypeOK` has no step that would start, freeze, rank or seal). Each of its
  steps is one of the contract's or none (`ServiceActs`), which is also the
  refinement.
- `PriceSource` (`PriceInv`): one tick per second and pool has passed (`Sampled`),
  so that a mean which was right stays right (`MeansStay`). That the cumulative
  tick is the sum of the ticks, which the model computes by a recursive function,
  is proved from the well-foundedness of the naturals (`LeastOf`, `Induction`).
- `Ingestion` (`Inv`): a cycle's own cursor is behind what is stored, and all
  between it and the one it is going to write is in its batch (`Carried`); the
  batch is stored before the cursor is written. `Ordered` says that a later event
  stands later on the chain; a reorganisation breaks it, and with it the property.
  So the theorem is about behaviours without one, and about a registry that names
  the stream's first block (`KnowsStart`, below): without it a fresh start
  looks back a fixed number of blocks only. `PhaseIsNeverBehind` (`PhaseInv`) follows
  the lone cycle through its batch in order (`PhaseRun`). It assumes one live cycle
  (`LoneCycle`: a second one that is late writes an older phase over a newer one)
  and milestones in the order of the contract's phases (`InOrder`), which
  `Contest.sol` enforces. A seal whose block is before the window's end is excepted
  (`SealedEarly`); a batch remembers which of its events are (`early`).
- `Milestones` (`Books`): a handler that pg-boss still waits for is the only one of
  its job, and its job is active (`Answered`). `RepetitionsArePaidFor` adds an
  account of one process's chain of handlers (`Serial`): the serial executor lets
  one of them act at a time, so that all that has taken effect is recorded except
  for the one acting. `NothingIsGone` adds `Order`, that the attempt of a handler
  is the one its job is at, and `Hopeful`, that each mishap takes at most one
  attempt away, so that a job with an attempt to spare remains.
- `Reports` (`ReportInv`): every count in a handler or a review was true when it was
  read (`Audited`), a handler between its read and its write has a pending row to
  itself (`Owned`), and one handler is at work, in the attempt its job is at
  (`OneAtWork`), so that the last one to fail is the one that flags (`Flagging`).
  `RowsAreTrue` is for a threshold the attempts can reach (`Threshold <=
  SenderRetries + 1`): above that the job is given up without a flag.
- `SignIn` (`Inv`): a verification has found or written the row that its next step
  builds on (`BuiltOn`), and one without company finds what it missed still
  missing (`Alone`).
- `Deployment` (`IInv`): a description of request, artifact, contract and job at
  each step of deployContest and finalizeContestDeployment (`Staged`), a form
  that waits for a job is in step with it, unless it was cut off from the answer
  (`InStep`), a form is of the last request under its contest id (`Latest`) and
  earlier ones are at rest or cut off (`Superseded`), which is why the late write of
  a job overtakes the next one only where an answer was lost; what came out or is
  still somebody's to finish (`Told`).
- `Participation` (`IInv`): the row, and each copy of it that a load, the indexer
  or the organizer's desk may still write back, is sound for the contest as it is
  now (`Sound`). A stale copy is harmless because the contract only goes forward
  (`StaysSound`). The number of `Users` is finite (`Cardinality` means nothing
  otherwise).
- `Rebalance` (`Sound`): a swap in the mempool carries when it was judged and with
  which price (`SwapJudged`), and each panel is in step with its requests and
  swaps (`PanelSound`): one plan is the newest, one execution is under way. That
  nothing but gifts and callbacks changes a vault after the live phase is an action
  property, of each swap in the mempool; `Given` and `CalledBack` say what those two
  may do.
- `Endpoints` (`EndpointsInv`): how often a stream has failed in a row is bounded
  by what the dead endpoints count and, once they are put aside, by the calls that
  can still come from them (`Owed`); the bound is the size of a set of units, one
  per endpoint and failure, so that it holds for any number of dead endpoints.
- `Validation` (`VerdictInv`): queue and plan are disjoint and exactly what has its
  dependencies planned, each type deeper than those (`PlanSound`); a call nested
  in another is of a type less deep (`StackSound`), which is why none enters
  itself; an entry has its dependencies in the batch or among those it notes as
  missing (`FrameSound`), and those it has been through have a value by now or are
  being evaluated further in (`Served`); a type's value is of an accepted entry of
  that type (`ResolvedSound`). So what an entry is judged on is a view of the batch,
  and where there is one view only the verdict is that of any order.
- `Catalogue` (`PagesInv`): each key beyond a page's cursor was on the page, at its
  edge or beyond the next cursor when it was read (`Placed`); what was read is
  still true, or of a participant's contest an earlier time (`StillTrue`);
  cursors go strictly down the list (`TrailSound`), and no page before the current
  one is asked for again. That a query's rows can be put in order at all is proved
  (`OrderExists`), since the model orders them with CHOOSE.
- `Console` (`ConsoleInv`): a call that is over is shown as ended, and open at the
  node only if its connection failed (`EndShown`); without integers in the history
  it is shown as it ended, but for such a failure (`Told`).
- `DevEnvironment` (`DevInv`): by its step, what a command removes is what was asked
  (`DevAsks`), what it has listed is still there (`DevSees`), and what a selective
  reset has not yet come to still has data (`DevLeft`).

What failed to be proved at first was instructive. Three arms of a CASE
overlapped (`NextCursor`, the end of a service's scan, `RunReset`): TLC takes
the first, the language any; they are exclusive now. Two properties were false
with two processes, which the instances checked until then did not reach:
`NeverGone` and `GivenUpIsFlagged` now say that they are about one (see the
departures below). The bound of `OutageIsShort` was right for one dead endpoint
only: each of them costs the threshold and the calls under way, and the instance
has two that may be dead now. Some constants had to be restricted: `Processes`,
`Users`, `Priorities` and `Ids` are finite, `Keys` is not empty, the clock of
`PriceSource` starts at 1 and so `MaxTime` is at least 1, and the `Window` of
`Rebalance` is positive, which `configure` checks. Three definitions could not be
reasoned about and were put differently: `Validation` sorts dependencies by a
chosen increasing function, the rows of a page of `Catalogue` are a set, whose
order its keys give, and a reorganisation of `Ingestion` keeps the prefix of the
log that lies below the dropped block.

Only model-checked are the liveness properties: `EventuallySettled`,
`EventuallyIngested`, `EventuallyLive`, `AttemptsRunOut` (its safety half is
`AttemptsAreKept`), `FundedIsConfirmed`, `NothingHangs`, `PanelAnswers`,
`TabsSettle`, `NothingStaysStuck`. They rest on fairness, and with it on `ENABLED`,
which the prover does not handle. Theorems that take an operator as a parameter,
among them the library's induction over data, cannot be instantiated by the
provers installed; where induction was needed it is on a set of numbers
(`LeastOf`, `Induction`), derived from the well-foundedness of the naturals.

## Where the code departs from what the repository says

Two departures are runs that must find a counterexample:

- `rpc_failover`: `packages/chain/src/errors/contestChainError.ts:237` makes a wrapped error not retryable, and `adapters/contestGateway.ts:95` of the indexer records only retryable ones, so a dead endpoint is never put aside, where `apps/indexer/event/README.md:3` promises RPC failover. With errors let through, `OutageIsShort` holds.
- `paging`: the next page's cursor names the first row that was read and not shown, and the next page begins after it (`contestCreationRequests.ts:213`, `contestQueries.ts:337`); that row is on no page. `packages/db/tests/contract/contestCreation.test.ts:126` expects it there.

The others were met while reading and modelling. The models follow the code in
each, and the properties are stated so that they hold beside them.

Contract and lifecycle:

- `Contest.sol:764`: updateLeaders asks only for the vaults on the board to be settled; its comment (`:734`) asks for all.
- `Contest.sol:787`: a vault dropped by a second board keeps its rank, so two vaults may hold one place; the comment (`:733`) says every rank is synchronised. `BoardConsistent` is about the vaults on the board, and `WayOut` assumes a board on which no two hold one place (`FairBoard`).
- `Contest.sol:886`: a vault ranked within `topK` whose slot is empty can neither claim nor exit; `FairBoard` excludes it too. The comment of exit (`:858`) asks for a reward not claimed where the code asks for one claimed.
- `Closed` is never reached, `settlementWindow` and `claimEnds` are never enforced, a contest can be sealed with an empty or outdated board, and nothing calls pause. A return beyond `int32` makes settle revert for good (`Contest.sol:946`), and with it every tick of the service before those who come after.
- `Vault.sol:540`: the swap callback compares its caller with an address in the call's own data, where the comment (`:533`) admits the expected pool only. Called outside a swap, in any phase, it pays what the call names. `SwapCallback` is that call in `Contest` and `Rebalance`; `AssetsOnlyToOwner`, `WayOut` and `VaultIsSafe` say that it is the only exception to what they promise, and that it touches no vault but the one called.
- `PriceSource.sol:201`: a preview is answered from a snapshot of any age where the comment (`:193`) says it reverts. A mean price of zero divides by zero (`:242`).
- `contestLifecycle.ts:189` and `:213` read the answers of `timeline()` and `config()` as objects, while a getter of several values answers an array (`contestChainGateway.ts:181` and `:250` handle both). The dates are invalid, the comparisons with them false, and the service neither starts nor freezes a contest; `topK` would be 1 if it came to rank one. `lifecycleOrchestrator.test.ts:96` says it freezes.
- `registrationHandler.ts:53` hashes the vault id from packed arguments, `Contest.sol:707` from padded ones, so the service never sees a vault settled, every tick of a frozen contest ends after settling, and it neither ranks nor seals. `lifecycleOrchestrator.test.ts:214` says it seals. What is left to it, to settle everybody, it does (`EventuallySettled`).
- `lifecycleOrchestrator.ts:215`: a contest nobody entered is never sealed; `:133`: the flag that serialises ticks is one process's; the four reads of `contestLifecycle.ts:140` may be of different blocks. What the service would rank, from the indexer's list (`lifecycleOrchestrator.ts:251`), it does not get to.

Indexer and tasks:

- `Contest.seal` looks at no time, and nothing that calls it waits for `claimEnds`; `sealContest` of the database refuses a seal before the end of the row's window, which is `claimEnds` (`contestDomainWrites.ts:834`), and the handler logs the refusal, skips the phase and goes on (`settlementHandler.ts:33`). A contest sealed early, the usual case, is never shown as sealed by the indexer. `PhaseCovers` excepts it (`SealedEarly`).
- Without an entry in the registry file only the last 5000 blocks are looked at, whatever the cursor says (`rpcContestDataProvider.ts:151`); `KnowsStart` is a constant. The cursor's block hash is never compared, so events of a reorganised chain at or before it are not read (`:294`).
- advanceCursor reads, compares and writes in separate statements, so that the cursor can go back (`contestDomainWrites.ts:1065`, comment `:1066`); a failed domain write is logged and never repeated (`ingestionWriter.ts:38`); milestones are sent after the cursor has moved and not looked for again (`liveIngestion.ts:76`).
- A reload of the registry puts a stream that is being replayed back to live (`healthTracker.ts:90`); a replay whose batch limit falls inside its last block ends there (`replayIngestion.ts:113`), and never updates the cursor, which `docs/indexer-event/operations.md:34` says it does; replaying a freeze without the seal takes the phase back (`contestDomainWrites.ts:916`).
- With two instances of the tasks service both execute the sends of one event (`milestoneProcessor.ts:68`); an operator's retry can overwrite a success (`milestoneExecutionRepository.ts:171`); a process that dies in the last attempt leaves the milestone unmarked (`milestoneProcessor.ts:79`), and a handler of a second instance whose time was over may then write its first attempt's record over the last one's, so that no retry accepts the milestone (`NeverGone` is about one process, or none timed out); a deferred job sent under the milestone's key is refused its own successor and taken for scheduled (`milestoneWorker.ts:44`); pauses are in memory (`milestoneControl.ts:44`); `app.ts` passes no `executeMilestone` in production.
- The event service sends `{range, discrepancies, ...}` where the worker's strict schema wants `rangeFromBlock`, `rangeToBlock`, `differences`: every replay's report job is refused and dies (`operations.md:34`). A retry of the owner's job puts a reviewed report back to `pending_review`, and read failures before the `try` never flag it. Of two workers, one that checked the row before it was flagged writes `pending_review` over the flag, so that a report given up looks like one filed (`GivenUpIsFlagged` and `OwnerKept` are about one).
- `/healthz` tells `ok` or `error` only, where `operations.md:9` names degraded; one queue error keeps it at error until the restart.
- A second signal ends the pools twice and the exit code becomes 1; a signal before the start is complete exits 0 without cleaning up.

API and web:

- `ensureFreshSession` is called by no route, so sessions are never rotated; the path of bindWallet for a concurrent bind of the same user cannot be reached, because the unique violation has aborted the transaction.
- A form submitted again under the same contest id leaves a row with the first contract's address and the second's metadata. When the answer to the first was lost (`client.ts:103`) its job may still run and write its metadata last; `RowsNameContracts` excepts requests whose answer was lost. Funded contests wait as `registered` by the fallback before they are initialized; finalize takes any transaction hash and does not look at the receipt; it forgets participants counted since. A failure between funding and finalize leaves a request `deploying` for ever, an error after `confirmed` writes `failed`, and one after the deployment leaves a contract nobody knows. `OutcomeKnown` is therefore about uninterrupted requests.
- The registration window is judged at the definition's own time; concurrent writers of the row lose updates, so phase and count can go back; a late confirmation sets a sealed phase to frozen; a reverted transaction is shown as done; settlement is NOT_IMPLEMENTED when the indexer froze the contest; rewards and redemption entries are never written, so claims and redemptions through the API are always blocked; phaseSync marks a contest settled by the clock, whatever the chain says.
- A rebalance demands an ERC-20 allowance although swapExact spends the vault's own balance; the asset bought is not checked against the direction; the form may change after the plan was shown; a late plan erases the execution's result; an approval lowered afterwards leaves no button; approving a token that is not on the list is offered though never read; cooldown times are never written, so that rule always passes.
- `executor.ts:308` goes through a batch as it was sent and pulls forward one entry per dependency, where `packages/shared/schemas/README.md:17` says the plan decides the order. With two entries of a type the value is the one accepted last (`executor.ts:133`), so the verdict on what depends on it is another in another order; with one of each, `VerdictIsRight` says it is not.
- Overrides are merged in the order listed, where `packages/shared/schemas/README.md:92` says by `activatedAt`.

Tools:

- Console: a read that returns an integer makes the history throw: it is told failed, and while it is listed every new call is registered and never executed, and a mined write may be told failed. A connection that fails after the node took a write is told as a failure (`callExecutor.ts:205`): the next write starts, and the first is mined all the same; `OutcomeIsTold` excepts it. `uint256[]` arguments are refused; the badge follows whichever call ends last; waiting for a receipt has no timeout, so one stuck transaction holds the queue; an error of `personal_listAccounts` is reported as an unreachable node.
- dev-bootstrap: `preserveOnReset` (`docs/dev-bootstrap/configuration.md:84`) is read by nothing; no log stream is written; starting a running environment fails on its own ports; a failed preflight exits 30, not 20; a failed listing counts as empty, so success may hide leftovers; a selective reset that failed half-way cannot be repeated; a full reset leaves data at bound paths it reports removed; an override of `resetPolicy.mode` alone is invalid over a base with `selectiveVolumes`.

## What is not modelled

- Views, text, layout, serialisation, logging and telemetry; configuration and its parsing, except the development tool's.
- The database client, schema declarations and migrations: unique indexes and isolation appear where a statement meets them. Hydration of contests in `contestQueries.ts` (597-850), and the organizer components' list.
- The start and stop of the service processes, rate limits, CORS, pools of connections.
- Tick mathematics (a table of prices), keccak and clone addresses, signatures, ABI encoding.
- The indexer's `deploymentHandler`; pause and unpause; the lifecycle service's calls syncState, freeze, updateLeaders and seal, which no tick of it reaches (the contract's actions of these names are sent by others).
- PostgreSQL scripts, maintenance scripts and declarative deployment modules: one-off wrappers around what is modelled.
- More than one contest, stream, report, list view or browser at a time, where the code keeps them apart; two instances of the lifecycle service, a second direct callback in one run (`MaxCallbacks` bounds the runs; the theorems hold for any); the caches of RPC clients (keyed without retries and timeouts) and signers (keyed without the contest).
- Simplifications inside the modules: the user row is identified with the wallet, and a wallet changes accounts only by disconnecting; balances are left out of registration; prices are normalised; a transaction of the lifecycle service takes effect when it is sent; pg-boss fetches one job at a time, and its delays are "later"; the reads of one activity page count as one; a transaction on the row is one read and one write; the deployment has one component configuration and a prize is a flag; host clocks agree with block time.

## What comes next

The order of what would add most: the organizer components' deployments, which
repeat `deployContest` with other contracts; the hydration of contests and the
gateway's caches, which serve reads that may be older than the row; two contests
or streams at a time where they share a queue or a signer's nonce; and the
liveness properties, once a prover handles `ENABLED`.
