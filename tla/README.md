# Verification of the Skyline Career world host

Skyline Career is a career economy on top of Microsoft Flight Simulator: a world
of airports, shipment lots, NPC carriers and companies that ticks in wall-clock
time, and a tool chain (profiles, SimBridge host, OFP injection) that loads the
simulated aircraft.  This directory holds TLA+ models of the parts where the
difficulty lies: the *world host*, one Node process that owns the live planet,
serves the companies' commands, ticks the planet in the background and persists
both to Postgres; the missions, trips, settlements and desks that commands and
pulses work on; the second process that may tick the same planet; and the gate
through which everything talks to the simulator.

All source paths below are relative to `src/packages/` unless they start with
`src/`.

## 1. Inventory

| Component | State it keeps | Operations | What makes it correct |
|---|---|---|---|
| World pulse: `career-ui/server/local-world-tick-service.ts` | `pulseInFlight`, `economyUnpersisted`, the pulse's dirty flags | `advance`, `startBackgroundPulse`, `getClock`, `openCompanySession` | every owed tick is simulated and persisted once; nothing dirty is forgotten |
| World store: `shared/src/career-store-postgres.ts`, `career-store-pg-world.ts` | `ram`, `ramRevision`, `dirtyCommandLotIds`, lot and airport baselines, `writerLeaseClient`; Postgres tables behind `economy_meta.revision` | `loadEconomy`, `saveEconomy`, `saveArrivalPulse`, `applyCommandWorldSliceToRam`, `persistCommandWorldSlice`, `flushDirtyCommandLots`, `saveMissions`, `settleWorldCompaniesPassiveFees`, `acquireWorldWriterLease` | what is acknowledged survives; RAM and Postgres do not disagree for longer than a save |
| Write path: `career-ui/server/api.ts` (`withCareerWrite`), `career-write-lock.ts` | `worldLock`, `companyLock` (FIFO promise locks, world before company), the ambient company | every command route; catch-up; housekeeping | commands are serial in RAM, are answered, and publish exactly what they decided |
| Persist commands: `shared/src/career-persist-commands.ts` | none | accept, stage, depart, settle, cancel, each replayable | conflict, replay or apply: at most once per mission |
| Missions and reservations: `shared/src/career-mission.ts` | `missions[]` of a company, `reservedKg`, `status`, `claimedByCompanyId` of a lot | reserve, release, shrink, stage, edit, trim, cancel, depart, settle, reconcile, orphan clean-up | reserved kilograms are those of open missions, holds and NPC flights; a contract leaves the company's hands once |
| Cargo trips: `career-cargo-trip.ts`, `career-cargo-trip-desk.ts` | `throughLoads`, `throughHostId` | join, attach a hold, edit, land, continue, release | both records agree; each contract ends once |
| Fleet: `career-fleet.ts` | `aircraftId`, `assignedMissionId`, place and status of a tail | assign, relocate, release, reconcile | a planned flight has its tail where it starts |
| Settlement across companies: `career-persist-commands.ts`, `POST /api/settle` | wallets, ladders and places of two companies, an airline's statistics | four reads and writes, each in a critical section of its own | paid once; the pilot's cut arrives |
| Demand board and desks: `career-demand.ts`, `career-warehouse-stock.ts` | orders, holds with a TTL, warehouse stock, yard pickups | hold, cancel, dispatch, fly, edit, trim, expire, list | cargo is conserved; no city is promised more than it wants |
| World worker and lease: `career-world-worker-pg.ts` | advisory lock 87201401 | pulse with compare-and-set, three attempts | one ticker; nobody's commit is written over |
| SimBridge: `simbridge-gate.ts`, `agent/src/ipc/named-pipe-client.ts`, `agent/src/named-pipe-sim-bridge.ts` | FIFO gate, sockets of client objects | acquire, release, open, call, reopen, close | one short client at a time; everyone is served |
| Flight watch: `watch-helpers.ts` | `running`, `bridge`, the armed timer, `startEpoch` | start, tick, stop, reopen | stops when told to, ticks while it runs |
| Economy: `shared/src/career-economy.ts`, `career-clock.ts` | the planet | `prepareEconomyForCatchUp`, `tickEconomyN`, lot formation, expiry | owed ticks follow `lastBatchAtMs`; lots die when nobody holds them |
| NPC freight: `shared/src/career-npc.ts` | NPC flights, awaiting-pilot offers | bid, claim, promote, settle, contract pilot | one carrier per kilogram |
| Fees: `career-company-session.ts`, `career-offline-fees.ts` | `company_state.last_seen_tick`, ledger | settle a tick range | each economy day charged once |
| Aircraft market: `career-aircraft-market.ts`, `career-aircraft-pool.ts` | hull status and owner | buy, sell, lease | a hull has one owner |
| FBO, ports, fuel logistics, charter, virtual airlines, accounts, catalogue, OFP planning, desktop, UI, SQLite store | | | see `PROJECT.json` for what is modelled of each and why the rest is not |

**Interactions.** A command enters `withCareerWrite`: it takes `worldLock`, then
`companyLock`, loads the company's missions and the planet (RAM when its revision
is current, Postgres otherwise), runs the handler on a clone, publishes its lots
into live RAM, saves the missions, releases both locks, and only then commits its
lots to Postgres and applies them to RAM once more.  Other commands save other
parts: the whole demand board before the company's row, or one order after the
locks.  The pulse enters the same locks chunk by chunk, ticks the *live* planet,
settles every company's fees in a second critical section after each chunk, and
after the last chunk clones RAM and saves the clone off the locks; inside that
save's transaction the rows of lots are taken from live RAM again, and afterwards
the lots commands touched meanwhile are flushed.  `session/open` settles one
company from outside, with a clock it read under no lock.  A settlement of a member's flight
enters the locks up to four times, for two companies.  The stand-alone worker
ticks the same Postgres planet from another process when it has the advisory
lock.  Watch, probes, preflight and inject share the simulator's pipe through a
gate; Watch also calls the mission commands.

**Hard behaviours.** Off-lock saves that overlap commands and each other; a
revision that both an own save and somebody else's moves; RAM dropped on a failed
commit; settlements committed before the ticks they belong to; a restart between
any two transactions; ties between two rows that every command must keep at both
ends; reads before a lock used after it; client objects that open sockets again
by themselves.  `PROJECT.json` lists each hazard at its line.

## 2. Modules

| Module | Contents |
|---|---|
| `WorldPulse`, `WorldPulse_proofs` | the pulse, its chunks, fee settlement, the end-of-pulse save; `session/open`, and commands as far as they move the clock |
| `WorldStore`, `WorldStore_proofs` | commands and the pulse over one RAM planet and one Postgres planet |
| `LotReservations`, `LotReservations_proofs` | kilograms of lots against missions, NPC flights and crew-needed offers; how a command's decisions reach the planet |
| `CargoContract` | abstract: a contract is delivered and paid, or returned, or lost, once |
| `CargoTrip`, `CargoTrip_proofs` | flights and their later stops, tails and fuel; implements `CargoContract` |
| `SettleSaga`, `SettleSaga_proofs` | a settlement across two companies, sent again, overlapping, failing |
| `DemandDesk`, `DemandDesk_proofs` | the demand board shared by all companies, their holds, stock and flights |
| `WriterLease`, `WriterLease_proofs` | host and worker on one Postgres planet: lease, revision, attempts |
| `SimBridge`, `SimBridge_proofs` | the gate, the short pipe clients and the life of Watch |
| `MC_Pulse`, `MC_Store`, `MC_Lots`, `MC_Trip`, `MC_Saga`, `MC_Desk`, `MC_Lease`, `MC_Bridge` | their instances for TLC |

The models overlap on purpose.  `WorldPulse` keeps the pulse whole (chunk counts,
the dirty flags, which tables a save writes, which days are billed) and treats
a command as what it does to the planet's clock; `WorldStore` keeps the persistence
whole (locks, revision, row lock, baseline, dirty ids) and cuts every critical section
at its awaits; `LotReservations` keeps the bookkeeping of a lot whole over a planet that
stays in RAM, and cuts a command only where its saves return late; `WriterLease`
makes every critical section and every transaction one step, and has two
processes.  `CargoTrip` looks at the missions of one company and nothing else,
`SettleSaga` at the same settlement across rows, `DemandDesk` at the same flights
as cargo of orders.

### 2.1 WorldPulse

| Model | Code |
|---|---|
| `wall` | the batch the wall clock asks for: what `prepareEconomyForCatchUp` finds owed is `wall` less the planet's `batch` |
| `ram`, `pg` | `PostgresCareerStore.ram`, the committed planet: `tick` (`economy_meta.tick`), `batch` (`lastBatchAtMs`), and whether a pulse has changed tables of the arrival slice (`land`) or tables that only a full save writes (`rest`) that Postgres does not have yet |
| `baseline` | `lotSyncBaseline`/`airportSyncBaseline` present: without one `saveArrivalPulse` refuses |
| `pc`, `remaining`, `dirty`, `full`, `timing` | `advance()`: `pulseInFlight`, the loop variable, `economyDirty`, `needsFullPersist`, the chunk's `PulseChunkTiming` |
| `chunk` | the catch-up inside a chunk: ticks still to do, the anchor computed when it began, whether the object it ticks is still the planet in RAM (`own`) |
| `unpersisted` | `economyUnpersisted` |
| `lastSeen`, `billed`, `rebilled`, `forgiven` | `company_state.last_seen_tick`; the ledger, by day; the days charged twice; the days waived by `OFFLINE_FEE_CAP_DAYS` or by a settlement that threw |
| `active`, `sess` | the ambient company; the route of `session/open`, cut at its awaits |
| `cmd` | commands of `withCareerWrite`, each with its clone of the planet |
| `LoadChunk`, `TickOnce`, `FinishChunk`, `ChunkThrows` | `runCatchUpWrite`: load under the locks, tick live RAM with the event loop running between two ticks, housekeeping and `saveMissions` |
| `SettleCompanies` | `settleWorldCompaniesPassiveFees` after each chunk; the watermark in its `finally` |
| `TakeSnapshot`, `SaveLands`, `SaveFails` | `persistPulseSnapshot`: clone, save off the locks, acknowledge the clock into RAM, or drop RAM |
| `ServeRam`, `ReadPlanet`, `InstallPlanet` | `loadEconomy` of a command: RAM, or what it reads in Postgres whenever the revision differs |
| `PublishSlice`, `AckSlice`, `AckRoster` | `applyCommandWorldSliceToRam` under the locks; `persistCommandWorldSlice`'s second application and `persistNpcLiveWorld` after them: each puts the *clone's* tick and anchor into RAM or into Postgres |
| `SavePlanet`, `SaveNpcLive`, `EndCommand`, `CommandFails` | the other ways a command ends |
| `ReadClock`, `InstallClock` | `getClock` of `session/open`, which loads and installs a planet under no lock |

Abstractions: fees have no amounts, only days; a settlement that throws for a
company charged nothing (`forgiven`), whether or not its watermark was saved; the
wall clock is a counter of owed batches.  `Rehydrates` says whether other saves may
have moved the revision, so that any load finds RAM stale.  A commit and its
acknowledgement are one step, a command's own rows are the matter of `WorldStore`,
and the saves of boards in the middle of a command (`persistInbound` and the like)
touch no clock; `POST /api/tick` is left out.

### 2.2 WorldStore

| Model | Code |
|---|---|
| `lock` | `worldLock` and `companyLock` together: every modelled path takes both, in that order |
| `ram`, `ramRev`, `dirtyLots`, `baseline` | the fields of `PostgresCareerStore` |
| `pg`, `pgRev`, `rowLock` | the lots and clock in Postgres, `economy_meta.revision`, its `FOR UPDATE` lock |
| `missions` | `company_state`: which lots are on a company's open missions |
| `req` | requests between their awaits: load, install, run, save missions, commit slice, acknowledge |
| `pulse` | the pulse likewise: chunk, snapshot, overlay, commit, acknowledge, flush |

Abstractions: a lot is the company whose claim it carries (kilograms, expiry and
NPC carriers: see 2.3); what a tick does to lots is left out, so a claim changes by
commands only; the number of chunks of a pulse is left open (`between` may start
another or end); the full lot sync of every 16th save is a choice (`full`), taken
when there is no baseline; the process holds the writer lease, so the
compare-and-set of a save never meets another writer's revision.

### 2.3 LotReservations

| Model | Code |
|---|---|
| `lots` | `world.lots`: status, `quantityKg`, `reservedKg`, `claimedByCompanyId`; `gone` is pruned from the array |
| `flight` | the NPC flight or crew-needed offer on a lot (`awaiting_pilot`, `in_flight`) and its `cargoKg` |
| `book` | the companies' missions: open or not, manifest lines, `contractPilot` |
| `flown`, `lost` | history: kilograms credited at the destination, kilograms lost to an impact |
| `piloted` | lots on which a company's list of missions has a contract one, closed ones included: what `persistCommandWorldSlice` looks at to decide whether it saves the roster |
| `deferred` | the last command's saves still to return, off the locks, always: its slice, its roster, its fresh mission |
| `Reserved`, `Released`, `Shrunk`, `Healed`, `Reconciled`, `Cancelling`, `Departing`, `Delivering` | `reserveShipmentLot`, `releaseShipmentReservation`, `shrinkLotAfterDelivery`, `healAwaitingPilotBoardLots`, `reconcileLotReservations`, `cancelMission`, `departMission`, `settleMission`, as functions on a planet |
| `Publish` | the end of a command: missions and the lots of its slice, nothing else, from the clone into RAM (`applyCommandWorldSliceToRam`) |
| `AckSlice`, `AckRoster` | the same slice applied again after its commit; `persistNpcLiveWorld` of a deferred slice |
| `Accept`, `Stage`, `Edit`, `Depart`, `Settle`, `Cancel`, `TakeOffer` | the routes accept, staging (new and replace), depart, settle, cancel, contract-pilot accept |
| `Dispatch`, `DispatchGrown` | open dispatch with a trim; the same when the trim was judged, before the locks, from a manifest that has grown since, so that only the mission is saved |
| `RevertDepart`, `LeaveAtHub`, `Impact` | the flight watch: false departure, freight left at a hub, `applyImpactFail` with persist `company` |
| `ExpireStale` | `expireStaleActiveMissions` in a fee settlement |
| `Pulse` | one chunk: heal, the fate of each lot, heal, reconcile with *one* company's missions, cancel overdue missions |

After `Publish` the clone's lot objects *are* the live ones, so the second
application changes a lot only if the pulse pruned it in between: then it is put
back, dead.  That is why `AckSlice` is short.

Abstractions: a fate per lot and chunk stands for the tick's dice (a carrier bids,
an offer is posted or its window ends, a carrier arrives, a lot retires or is
pruned), and a chunk deals a lot at most one; times are left out, so an offer's
window and a mission's deadline may end at any pulse (`live`, `stale`) except for a
mission the last command has just accepted (`fresh`); pay is left out; each lot is
formed once, and mission ids are reused.  At most one command at a time has saves
outstanding (`Quiet`): overlapping commands are the matter of `WorldStore`.  Left
out: FBO bonded holds (disabled by default), tour holds, charters, demand flights
and reposition flights, none of which a lot's NPC or mission holder goes through.
Bounds: `MaxKg` per mission and lot, `MaxFlown` (the history, which no action reads,
saturates above any lot's size), `MaxLost`.

### 2.4 CargoContract and CargoTrip

| Model | Code |
|---|---|
| `mission` | `state.missions`: status, `throughHostId`, `throughLoads`, `aircraftId`, origin, destination, `fuelUplift.originIcao` |
| `tail` | `state.fleet`: status, `assignedMissionId`, `locationIcao` |
| `paid`, `returned`, `lost`, `fuelled` | history, per mission |
| `Healed`, in every `Save` | `reconcileFleetAssignments`, run by every load and save of a company |
| `Accept`, `AddCargoStop`, `AddDeskHold`, `EditLoads`, `DropStop` | accept with or without a tail; `addCargoStop`; `attachDeskHoldToCargoTrip`; `refreshHostThroughLoads` and `syncDeskTripLoads` |
| `Dispatch`, `Depart`, `RevertFalseDepart`, `LeaveFreight` | open dispatch; depart with `applyPlayerDepartFuel`; the two corrections Watch makes |
| `Settle` | `settleMission` with what it unloads (`Here`), `continueCargoTripAfterSettle` (`Later`, `Onward`) and `relocateAircraftOnSettle` (`Landed`) |
| `Cancel`, `Impact`, `ExpireStale`, `ReturnToService` | `cancelMission` with the riders, `failMissionImpact`, `expireStaleActiveMissions`, the shop |

`Contract` is the refinement: the phase of a contract is the status of its
mission, and each step of `CargoTrip` must be one of `Book`, `Deliver` and `Return` of
some set of contracts, `Lose` of one, or none.  Abstractions: which stop is next
is left open (the code takes the lowest `stopIndex`); no weights, no pay; a
mission's row is not pruned; deadlines may pass at any time.  `RiderWatched` (Watch
bound to a later stop), `SweepFamilies` (a flight and its stop overdue together) and
`Inspections` say which cases happen: the first two break properties (section 5).

### 2.5 SettleSaga

| Model | Code |
|---|---|
| `req` | `POST /api/settle` between its critical sections, with what it read and still owes |
| `settled`, `closed`, `paid`, `debit` | the missions of a company and its wallet |
| `credit`, `hours`, `xp`, `place` | the home company's wallet and pilot career |
| `stats`, `cut` | the airline's statistics, `memberRouteCutPct` |
| `ReadCut`, `ReadHome` | before any lock: the cut, the ladder of the home (`progressionBag`) |
| `Settle`, `SettleAgain`, `SettleRefused` | write 1, `executeSettleFlight` with `applySettleWalletDeltas`: applied, replayed, 409 |
| `HomeWrite`, `Credit`, `Record` | write 2, the home's career from the bag; write 3, `pilotPayCredit`; the statistics |
| `WatchSettles` | Watch's own settlement on a local host: one write, no cut |
| `Fails`, `Crash` | a critical section or a deferred save throws; the host dies |

A ladder is the set of flights counted in it, a place the flight it comes from, a
cut an amount up to `MaxCut`.  Pay, lots and aircraft are left out.

### 2.6 WriterLease

| Model | Code |
|---|---|
| `lease`, `believes` | whose session has the advisory lock; `writerLeaseClient` is set |
| `mode`, `pulsing` | world API with lease, full API, API beside a worker; `startBackgroundPulse` was called |
| `ram`, `rev`, `pg`, `pgRev` | each process's planet and `ramRevision`; Postgres and `economy_meta.revision` |
| `cmd`, `clone`, `tip`, `pulse` | a command of the host up to its deferred slice, with the revision it expects; a pulse's snapshot |
| `worker`, `attempt` | `runPostgresWorldWorker`, `pulseOnce` |
| `StartHost`, `AsWriter`, `Command`, `SendSlice`, `CommitSlice`, `SliceRefused`, `TickHost`, `SavePulse` | bootstrap; `withCareerWrite`; `persistRevisioned`; the pulse's save, which never expects a revision |
| `StartWorker`, `WorkerTicks`, `WorkerSaves`, `WorkerRefused`, `WorkerDefers`, `WorkerPulse`, `StopWorker` | `tryAcquirePulseLock`, `pulseOnceAttempt`, `pulseOnce`, SIGTERM |
| `CrashHost`, `CrashWorker`, `DropLease`, `HostNotices`, `WorkerNotices` | a process ends; Postgres ends the session of the lock; each side's client learns of it |

A planet is its tick and the set of commits it has the effect of, so that "written
over" is a set that shrinks.  The worker calls itself a legacy diagnostic
that "cannot overlap" the host; that is what is checked.  A pulse of several ticks is one tick.  Left out:
`POST /api/tick`, `flushDirtyCommandLots` and Postgres errors that are no conflict.

### 2.7 SimBridge

| Model | Code |
|---|---|
| `gate` | the promise chain of `simbridge-gate.ts`: who waits, the first one holds |
| `pipe` | the socket of each client object: closed, connecting, open |
| `pc`, `left`, `held` | where probe, preflight, inject, start and tick are in their code, the calls they have left, the object they work with |
| `running`, `bridge`, `timer`, `bound`, `stale` | Watch: `running`, `this.bridge`, a tick is armed, `missionId` is set, `startEpoch` moved |
| `injecting` | `isOfpLoadActive()` |
| `Ask` ... `Finish` | `probeSimBridgeStatus`, `runMissionPreflight`, the inject, from admission to `finally` |
| `BeginStop`, `EndStop`, `BeginInject`, `InjectStopsWatch` | `CareerWatchSession.stop`, at once and after waiting for the tick without a lock; `POST load-ofp` |
| `ForgetMission` | accept and cancel while Watch does not run: `resetSession` |
| `BeginStart` ... `StartSettled` | `start`, `startExclusive`: stop the old one, load the mission (`LoadFails`: unknown or over), gate, open, compare the epoch, first tick |
| `BeginTick` ... `TickStops` | `tick`: ping, reset, reopen under the gate, sample, fail, settle and stop |
| `Connect`, `Drop` | a connection succeeds or fails; the simulator's host closes a pipe |

The two traits of the client that matter are kept: a call on a socket that is gone
opens another (`Calling`, from `ensureOpen`), and closing an object that is still
connecting closes nothing (`Closed`).  What is read, and how long a backoff lasts,
is left out; an object nobody refers to is forgotten.

### 2.8 DemandDesk

| Model | Code |
|---|---|
| `board` | `world.demandOrders`: status, `remainingKg`, `expiresAtTick` as ticks left |
| `hold`, `stock`, `yard`, `flight` | a company's `demandHolds`, warehouse, port pickups, missions with `cargoLines` |
| `late` | the row a command still has to save after the locks (`persistDemandOrder`) |
| `Look`, `OpenPorts`, `Pulse` | `GET /api/demand`, the ports snapshot, the pulse's hook: holds expire, claims are reconciled if every company could be read, the board is listed anew |
| `Hold`, `CancelHold`, `FlyNow`, `Dispatch` | `holdDemandOrder`, `cancelDemandHold`, `acceptDemandOrder`, `dispatchDemandHold(s)` |
| `EditOnly`, `EditLine`, `Trim` | `replaceDemandMissionCargo`, `syncDeskTripLoads`, `trimMissionCargoToKg` |
| `Cancel`, `Settle`, `Impact`, `LateSave` | a flight ends; what was deferred is saved |
| `HalfSaves`, `SavesLater`, `Reads` | the slips: the row fails after the board, an order is saved late, a company cannot be read |
| `Deposit`, `Abandon` | cargo arrives in the warehouse or is thrown away |
| `marred` | history: the orders that a slip, a quota or an edit of a dropped order has falsified; they are listed in the properties and become clean again with a new order |

Abstractions: one warehouse per company; one quota for the caps per country, port
and planet; which city lacks what is open; claims use the deadlines of lines; a
pulse's missions are not saved before its economy; the routes' own validation is
left out; a hold stacked onto a stop of a flight in planning is left out.

## 3. Runs

| Run | Shows | Bounds |
|---|---|---|
| `pulse_persist` | unsaved work is flagged, no day is skipped, and every batch is in the end persisted, with failed saves of pulses and of commands and restarts anywhere, and a command that hands its clock back | 1 company, 1 command, days of 2 ticks, chunks of 1, pulses of 1 or 2 ticks, wall clock to 4, 2 faults |
| `pulse_fees` | no day is skipped when chunks throw, settlements and saves fail, requests settle the ambient company and a command sets the clock back | 2 companies, 1 command, 1 `session/open`, days of 1 tick, chunks of 2, pulses of 3, wall clock to 3, 1 fault |
| `store_contested` | a violation, section 5: two companies accept the same lot | 2 companies, 2 lots, 1 request in flight, 3 accepts, clock to 3, no faults |
| `store_answered` | two requests at a time, every fault, anywhere: the locks and the row lock are held by who stands between taking and giving them back and by nobody else, every command is answered | 1 company, 1 lot, 2 commands, clock to 2, 1 fault |
| `lots_repair` | however wrong the bookings become, no lot is booked beyond what it has, nor airborne in part; a reservation nobody holds any more is given back, and a pulse puts every offer back on the board | 1 mission, one lot of 2 kg, at most 1 kg lost |
| `trip_contracts` | both records of a trip agree, no contract ends twice, a planned flight has its tail, fuel is bought once, and trips implement `CargoContract` | 3 missions, 2 tails, 3 airports, inspections |
| `saga_replay` | paid once, no cut lost but with a failed request, every cut arrives, ladders count what they should | an airline and a home, 3 flights, 2 requests at a time, 3 asked, 1 fault, 1 change of the cut |
| `saga_rider` | a violation, section 5 | 1 request, no faults |
| `lease_writers` | one ticker, no commit written over, the clock catches up | host in every mode, worker with 2 attempts, 2 commands, 2 ticks, 1 crash or dropped session |
| `bridge_gate` | short clients never overlap, a stopped start stays stopped, a running Watch ticks | 2 readers, inject, Watch with 2 client objects, 1 call per session, 1 dropped pipe |
| `bridge_served` | everyone is served, every inject ends | 1 reader, inject, Watch with 2 client objects, 1 call per session, connections that fail but no dropped pipe |
| `desk_board` | cargo is conserved, no order is over-promised, no city asks twice | 2 companies, 2 orders of 1 city, 2 products (2 kg and 1 kg), 1 flight of up to 2 lines, 1 slip |

*Why the bounds are enough.*  A day of two ticks has a boundary and an interior;
two chunks give a pulse a first chunk, a last chunk and a clipped one; a wall clock
of four leaves three batches to simulate: room for a pulse, a failed one and its
repetition across a day boundary.  In `pulse_fees` every tick is a day, so that each
window crosses one, and one of two ticks is capped.  One command is enough to set a
clock back at any point of a pulse; what two of them do is in section 5.  The last
batch of the wall clock comes after the last command, so that a clock left behind
meets the batch that corrects it.  In `WorldStore` lots interact, through the one revision that saves of
any lot move: two are the least with which a save of one lot makes RAM forget the
other's claim.  `store_answered` asks about locks only, and there two requests and a
pulse, each of which may fail at every await, meet over one lot as over many.
In `LotReservations` a lot of two kilograms can be shared by a mission and a
carrier, or by a mission and what is left of its offer, and both can be wrong at once.
`lots_repair` has one company; that the pulse of one meets the bookings of another
is covered by the proofs of `BookingFits` and `OfferSurfaces`, for any number of
companies and lots and manifests of several lines, and not for `LeakRepaired`.  With
two companies (one mission each, the lot of 1 kg, `TwoOwners`) and `Spec` in place of
`FairSpec` TLC also finishes the invariants (226,000 states, 4 minutes).  Three
missions make a flight with two later stops, one of which goes on with
the other; with three airports a stop may be unloaded, ride on or share the
landing, and a hub may be none of its ends; two tails tell a flight's own tail
from a rider's.  In `SettleSaga` one flight crosses companies, one is at home with
a rider; two requests can overlap, and the third asked is the repetition.  The
worker's two attempts are the first and the last of the code's three.  Two client
objects of Watch are the old and the new one.  Two orders make a city that might
ask twice and a flight that serves two; two kilograms can be held in part, and the
larger company has room to load both products.

`desk_board` gives each company as much room as cargo, so what is put back always
fits; with room for 1 of 2 kg in the second company and no slips, TLC
also finishes (26,000 states) with cargo waiting in the yard, and every invariant
holds.  Its edits are those of a flight with one line in both directions and of
several lines downwards (`Edits`); the others are in section 5.

*What the passing runs leave out, and why.*  `pulse_persist` has no chunk that throws and
one command at a time, `trip_contracts` neither `RiderWatched` nor `SweepFamilies`,
`saga_replay` no rider with a cut, and `lease_writers` claims two of its properties only
until a session is dropped.  In each wider regime the property does not hold
(section 5), and these runs say what the code does achieve.

*Views and symmetry.*  `trip_contracts` uses the view `OpenRows`: no action reads more of a
closed mission's row than its status.  Companies of `WorldPulse`, client objects of
`SimBridge`, companies and lots of `WorldStore`, tails and airports of
`CargoTrip` and orders of `DemandDesk` are interchangeable; the runs with a symmetry
set check no liveness property.

*Fairness.*  `FairSpec` of `WorldPulse` assumes weak fairness of the timer
(`setInterval` keeps calling `advance`), of the pulse's own continuations, of a command
once it has the locks, and of time, up to `MaxTick`;
`WorldStore` assumes weak fairness of the pulse's and of each request's
continuations: the event loop runs what is resolved and Postgres answers or fails.
`LotReservations` assumes weak fairness of the pulse only: not even the
acknowledgements have to arrive.  `SettleSaga` assumes it of each request's next
step.  `WriterLease` assumes it of each process's own steps and of both processes
being started again, as their containers are; not of commands.  `SimBridge` assumes
it of connections (`connectTimeoutMs` ends each), of the short clients, and of the
continuations of stop, start and tick; nobody has to ask for a probe, an inject or
a Watch.  Nothing is assumed of clients or of faults.  Faults
are bounded by `MaxFaults`, `MaxDrops` or `MaxSlips`; liveness therefore says "once the
faults have stopped".

*Deadlock* is checked in the runs of `WorldPulse`, `WorldStore`, `LotReservations` and
`DemandDesk`.  The others may really stop: when the bounded missions are all closed
(`Trip_contracts`), when no more settlements are asked for (`Saga_*`), when the clock
has reached the wall and the commands are spent (`Lease_writers`), and when a mission
is over and nobody asks (`Bridge_*`).

## 4. Proofs

`WorldPulse_proofs` proves for all constants satisfying `PulseAssumption`:

- `PulseTypeCorrect`: `Spec => []TypeOK`.  The inductive invariant `PulseInv` is `TypeOK`
  with `PlanetInv`: every planet there is (in RAM, in Postgres, a snapshot, a
  command's clone, what a request has read) has a tick not before the first one and
  an anchor not after the wall clock; a chunk that ticks its own planet has it in RAM.
  Without the second part typing is not inductive: a chunk that loads a planet could
  owe it a negative number of ticks.  That no clock ever goes back is *not* in it, and
  is false (section 5).
- `PulseUnsavedIsFlagged`, under `"chunk" \notin Faults` and `"command" \notin Faults`
  (section 5 says what a throwing chunk, or a failed command next to another one,
  does), for any number of commands and requests in flight.  `FlagInv` relates, at each
  `pc`, what RAM has that Postgres has not to the flags of the pulse: any difference
  needs the dirty flag, one outside the arrival slice the full flag; and it says that
  what a load has read in Postgres lacks nothing, and that a clone that has unsaved
  work while RAM is gone is flagged, since it may become the planet again.
- `PulseNoDaySkipped`, under `StartTick > 0` (a zero watermark means "none").
  `WatermarkInv` adds that no watermark is below `StartTick`, so that the fallback window
  is never taken; the next window starts where the last one ended, also when it ended
  before the one before.

The proofs use the arithmetic of `\div` through one lemma (`Division`) and its
corollary (`DayMonotone`) and otherwise split `Next` by action.

`CargoTrip_proofs`, for any number of missions, tails, airports and stops:

- `TripTypeCorrect` and `TripLinksAgree`, if Watch is bound to the flight itself
  (`~RiderWatched`).  Their conjunction is inductive, and neither half is: that a
  landing leaves well-formed rows needs that later stops carry nothing themselves.
  Each action is reduced to what it does to links by a lemma.
- `TripReleasedOnce` and `TripImplementsContract`, if besides no flight is overdue
  together with its own later stop (`~SweepFamilies`).  The lemmas of `TripFate` show
  that each step ends a set of open missions in one way, opens one, or does
  neither (`Fate`), which is the step of `CargoContract`; `Accounts` says that a closed
  contract is counted once and an open one never.
- `TripFuelOnce`, with `Bought`: a row without an uplift has bought none since the last
  hub.  `TripTailReady`, with `Held`: *every* open mission that names a tail, riders and
  flights in the air included, has it at its origin, since each of them may be on
  the ground again after one step.

`SettleSaga_proofs`, for any missions, companies and requests:

- `SagaTypeCorrect`, which no run checks, and `FlightsPaidOnce`.
- `NoCutLost`, if no flight has a rider that crosses companies (`RidersAtHome`, the case
  of section 5).  `Money` adds to `CutConserved` that nothing moved for flights that are
  not settled (`Untouched`) and that what a request owes is for a settled one
  (`OwedSettled`): without them a second settlement could owe once more.
- `LadderCounts`, if every rider is of its flight's home (`RidersSameHome`; a rider of
  another company's ladder goes to the airline, section 5).  `Progression` compares
  ladders and settled flights once a home is at rest; `Ladders` says what leads there:
  ladders and bags hold settled flights only, and while nothing overlapped or failed
  a home has one settlement at a time (`Alone`), the bag that will replace a ladder
  holds all of it (`BagFresh`), and a settled flight is in its ladder or in the bag
  that will replace it (`Counted`).

`WriterLease_proofs`, for any modes, attempts, faults and bounds:

- `LeaseTypeCorrect`, with `Filled`: who has a planet, and when.
- `LeaseOneTicker` and `LeaseNothingUndone`.  The invariant is `Quiet`: until a session is
  dropped, who believes to be the writer is (`Leased`), a planet of the current
  revision has every commit, a running command's clone has every commit but the
  host's own (`Cloned`), and it expects the right revision (`Expects`).

`SimBridge_proofs`, for any short clients, Watch clients, calls and drops:

- `BridgeTypeCorrect`, `BridgeShortClientsAlone` and `BridgeStoppedStaysStopped`.
  `BridgeInv` adds to the types where each actor may stand
  (`Places`), that the gate's queue is who waits and its holder who was let in
  (`Line`), that a short client has a socket only while it holds the gate
  (`Sockets`), which client object a Watch that runs, starts or stops has in hand
  (`Handles`), and that a start which was told to stop ends (`Heeded`).
- `BridgeRunningTicks`: `Halted` says that Watch does not run before its start has opened,
  so that only an opened start makes it run, with its first tick to come; from then on
  whoever takes the mission or the client object away without stopping Watch makes the
  claim void, and every way out of a tick arms the next one.  That nobody does is
  `RunningReconnects`, and false (section 5).

`WorldStore_proofs`, for any companies, lots, requests and faults:

- `StoreTypeCorrect` and `StoreLocksHeld`, by `StoreInv`.  Who holds the promise locks and
  who the row lock is a function of where the requests and the pulse stand; so at
  most one of them is inside a critical section, at most one inside a transaction, and
  no failure, restart or early answer leaves a lock behind.  The types need it too:
  what a request reads of RAM after an await is there only because nobody else had
  the locks meanwhile.

`LotReservations_proofs`, for any lots, missions, companies and kilograms:

- `LotsTypeCorrect` and `LotsBookingFits`, by `LotInv`: `TypeOK` and that each lot is `Fit`,
  booked for no more than it has and, off the board with a carrier or a pilot, for all
  of it.  Each command is followed through what it does to a clone (book, release,
  shrink, heal, reconcile), each of which keeps a lot fit, and through what it
  publishes; a late slice changes only lots that were pruned, a late roster no lot.  It
  does *not* say who holds what is booked: that is false with a second company or a
  late roster (section 5).
- `LotsOfferSurfaces`: whatever offers a late roster has put back, a pulse heals their
  lots, and what it does after the second heal (reconcile, cancel) leaves each of them on
  the board.
- The kilograms of a lot are a sum over missions.  It is the size of a set of
  missions' kilograms, so the lemmas about it are about finite sets: a step that
  changes one mission changes the sum by that mission's part.

`DemandDesk_proofs`, for any companies, orders, flights, products and limits:

- `DeskTypeCorrect`, in every regime: `TypeOK` is inductive as it stands, and says more
  than types.  No stock, order or hold goes below nothing, no warehouse above its
  capacity, no flight keeps an empty line; each step that takes must show that what it
  takes is there, each that puts back that what it keeps fits.
- `DeskCargoConserved`, if no line among several is raised (`"shared" \notin Edits`;
  section 5 says what that edit does).  With `TypeOK` it is inductive: a flight belongs to
  one company, and each step moves cargo between that company's warehouse, yard, flight
  and the outside (`Loading`, `Unloading`, `Emptied`).
- `DeskNeverOverPromised`, in every regime.  `Promises` is inductive with `TypeOK`, and is
  about every order that is not marred: what is left on the board, what holds, flights
  and cities have of it, and what a save that comes late will still give back
  (`Pending`) fit in what the city wants.  It needs more of the rows: an order expires
  only when its time has run out (`Past`), so that what is given back never wakes it;
  a late row asks for the same product and for no less than the row it is based on
  (`LateAgrees`); and nothing has landed of an id that is free (`BlankIsNew`), so that it may
  be listed again.  Each action is shown to do one of three things to an order's row:
  to follow it (`Follows`: it asks for no more than before and what came back), to be
  taken from, or to be listed.
- `DeskCityOnce`, if no line among several is raised (section 5 has the behaviour that
  breaks it otherwise).  `CityOnce` compares two orders by what is on the board and what
  is in the air, and neither part is inductive alone.  `Cities`, inductive with `TypeOK`
  and `Promises`, is about orders that are not marred: of a city's orders for one product
  at most one runs (`Apart`: it asks and has time left), and each order is in one of two
  states (`CityKept`).  While it asks, all that is under way of it is the product it asked
  for, and once it is filled it has not run out; when it has ended, what is under way of
  it is one product and less than the city wants of it.  The second state must be reached
  with less than the whole under way, and that is where claims matter: an order that
  was open still lacks a part, so `Promises` leaves room; one that was filled ends only
  when the watch, having read every company, finds no hold and no flight of it
  (`ClaimlessStep`), or when a part of it has landed, now or by the time a late row is
  saved (`LateEnds`).  No step starts an order again (`Leads`); a listing, the only way
  to a new one, looks at every order of the city (`EnsuredOnce`).
- `Sum` is the size of a set of cells, so that the lemmas about it are about finite
  sets: sums of sums, of one number, of numbers renamed (a line that is removed from a
  manifest), of numbers divided (a manifest that is trimmed).  Where a manifest is walked
  line by line (`FitsHaveRoom`: what is put back while there is room has room), the
  induction is the least line at which the claim fails (`LeastNumber`).

Every safety property that a passing run checks is the statement of a theorem: two of
`DemandDesk` for manifests without that raise, `UnsavedIsFlagged` without the failed
command saves that its run has, with a single command, besides.  Only model-checked: all liveness
(`EveryCommandAnswered`, `CutArrives`, `LeakRepaired` and the others), which is
beyond the prover.  What the violation runs check is false and not proved.

## 5. Disagreements with the repository's own words

Two are kept as runs.

1. `saga_rider`: of two crossing contracts that land on one aircraft the second's
   cut is debited from the airline and credited to nobody, against
   `src/docs/agent-context/16-va-logistics.md:296`.
2. `store_contested`: two companies' accepts of one lot are both answered 200, against
   "claim atômico; `409` se lot já `claimed_by_company_id`"
   (`src/docs/agent-context/14-mp-world-clock.md:101`) and "Accept concorrente →
   exatamente um 200" (`:506`).  No fault is needed, nor two requests in flight.
   `persistRevisioned` assigns `ramRevision` whatever its own commit returned
   (`shared/src/career-store-postgres.ts:612`), so that two saves whose answers come in
   the opposite order of their commits leave RAM's revision behind; the next chunk
   takes RAM for stale and installs a planet that it read before another claim was
   committed (`:2455`); the end-of-pulse save writes that lot back as free.

The others are seen with other constants of the same modules; where nothing is
said of a file, it is the kept `.cfg` with the change named.

*World pulse and store.*

- `BilledOnce`: a company is charged twice for a day, against "Always advance
  watermark after an attempt so a mid-settle throw cannot re-bill the same day"
  (`shared/src/career-store-postgres.ts:2735`) and "Stop re-billing the same economy
  day on chunked +Nd ticks" (`src/docs/agent-context/01-current-state.md:939`).
  `Pulse_persist.cfg` with `Spec`, `Faults = {}`, `Rehydrates = FALSE`,
  `PulseSizes = {4}` and `ChunkTicks = 2` shows it without a fault, a `session/open` or a
  stale revision.  The slice of a command that ran before a chunk is acknowledged
  between that chunk's ticks and their settlement: live RAM has the clone's clock
  again (`:2145`), the settlement assigns it as the watermark (`:2737`), and the next
  chunk charges from there.  There are other ways.  A load that finds RAM stale
  (`Rehydrates`) installs Postgres's older clock between two chunks; a failed save or a
  restart repeats ticks whose fees are committed; `session/open` settles up to a clock
  it read outside the locks, and moves the watermark back.
- The persisted clock can go back without any fault: a slice acknowledged between the
  last chunk and the snapshot sets RAM's clock to its clone's, and the snapshot is
  saved with it and with the newer boards; a late NPC roster writes its clone's tick
  and anchor straight into Postgres.  Acknowledged in the middle of a chunk, only the
  tick goes back while the anchor moves on: the batches are all simulated, but the
  planet's tick stays behind them.  The pulse ticks again from the anchor, so that no
  batch is lost (`BacklogPersisted`).
- A planet loaded again during a pulse's save replaces the ticked one in RAM, and the
  overlay takes the rows of nearly every table from there
  (`shared/src/career-charter.ts:1715`): the clock of those ticks is committed and their
  work is not.  The planets of `WorldPulse` have no rows to show it.
- `Pulse_persist.cfg` with `"chunk"` in `Faults` violates `UnsavedIsFlagged`: a chunk
  that throws after ticking RAM is not recorded in `economyUnpersisted`.  With two commands
  it is violated as well: a failed save of one drops RAM and tells the pulse nothing,
  the pulse ends without a planet to save and clears the flag, and the acknowledgement
  of the other puts its clone, with the unsaved ticks it was made from, back into RAM.
- `ClaimExclusive` fails in two shorter ways as well: with two requests in flight, RAM
  rehydrated because of one command's commit forgets another's published,
  uncommitted claim; and a restart between a command's missions and its slice
  (`"crash"`) leaves a mission without a claim.
- With cancels, one company, nothing in flight and no dirty lot, `pg.lots` need not
  have the claims of the missions: `StartFlush` builds its rows before `CommitFlush` waits
  for the row lock, and a cancel that commits in between is overwritten; the lot stays claimed.

*Lots.*

- `ReservationCovers`, with two companies (`TwoOwners`, one mission each) and a lot of 1 kg:
  the pulse reconciles the lots of the planet with the missions of one company and
  releases what another has booked, against "Release lot reservations that no longer
  match open missions" (`shared/src/career-mission.ts:1264`; the call is
  `career-ui/server/api.ts:2724`).  A carrier takes what was released and the owner
  settles it: `CarriedOnce` fails too.
- `LostStaysLost`: the lots of an impact are shrunk on a clone that is dropped
  (`career-ui/server/watch-helpers.ts:5225`); the next pulse gives the lost cargo back to
  the market, against "cargo lost (not restored to warehouse / demand / market as
  available)" (`shared/src/career-mission.ts:2461`).
- With one company too, `ReservationCovers`, `CarriedOnce` and `NoResurrection` are false,
  because the roster of a contract command is put into RAM after the locks, as it was.
  A contract mission departs with part of an offer, in one chunk the rest leaves with
  a carrier, the late roster has the offer still waiting: its lot is airborne, and an
  offer nobody can see stands for kilograms that are under way.  If the rest has been
  delivered by then, the next pulse heals the offer's lot, a delivered lot returns to
  the market, and the kilograms are unloaded a second time.
- `OfferBooked`: a cancelled contract mission's kilograms
  are in a roster still to be saved when a pulse reconciles.
- `Edit` books with `Free`, that is `replaceMissionManifest` passes no company: the
  replaced lines are neither checked against a claim nor stamped with one
  (`src/docs/agent-context/14-mp-world-clock.md:344`).

*Cargo trips.*

- `SweepFamilies = TRUE` violates `ReleasedOnce`: `expireStaleActiveMissions` walks a copy of
  the list and cancels a later stop a second time, against "CancelMission: release
  lots/tail once" (`shared/src/career-persist-commands.ts:750`).
- `RiderWatched = TRUE` violates `LinksAgree` and `ReleasedOnce`: a rider that is lost by
  itself stays on its flight's list, and `settleMission` skips cancelled and settled
  rows but not failed ones.
- An impact of the flight leaves its riders accepted, so that their cargo is
  returned later, although it was aboard ("cargo lost (not restored",
  `shared/src/career-mission.ts:2460`).
- `src/docs/agent-context/11-persist-commands.md:71` says that cancelling a trip's
  flight leaves the joined contracts accepted; `cancelMission` cancels them.

*Settlements.*

- `NothingTwice` fails on a request sent again: hours, statistics and place are
  applied once more, against "Replay if the mission is already `settled`"
  (`shared/src/career-persist-commands.ts:332`); a replay after the next flight moves
  the pilot back.
- A failure between write 1 and write 3 loses the pilot's pay and ladder; two
  overlapping settlements of one home lose a flight of its ladder (`Progression`
  without `~overlapped`).  A rider's ladder goes to the airline
  (`shared/src/career-mission.ts:3605`).

*Lease.*

- `WriterTicks` fails: a `world` host denied the lease at boot takes it with a later
  command; its health check passes, nothing ticks and the worker is refused, against
  "`CAREER_HEADLESS_PULSE=1` makes the API advance the world even with zero clients"
  (`src/deploy/README.md:137`).
- After a dropped session `OneTicker` and `NothingUndone` fail: the other process takes
  the lock while this one still ticks, and the pulse's save expects no revision
  ("so it cannot overlap the normal API-owned background pulse",
  `shared/src/career-world-worker-pg.ts:5`).  The worker's lock client has no `error`
  listener, so its process ends when it learns.

*SimBridge.*

- `RunningReconnects`: a Watch runs for its mission and never ticks again, against
  "reconnect belongs to tick backoff" and "each tick rearms setTimeout"
  (`career-ui/server/watch-helpers.ts:1971`, `:2299`).  A stop polls for the end of the
  tick in flight without a lock (`:2347`) and then closes whatever `this.bridge` is
  (`:2365`); a start that was sent after it polls for the same tick, and may have
  loaded its mission, opened and set its own client object first.
- A cancel or an accept that resets the session while a start is under way
  (`ForgetMission`) leaves a Watch that runs without a mission: its first tick returns and
  arms no other.
- `InjectOpensAlone` fails: stop gives up on a tick after 1.5 s, and the tick's next call
  opens its pipe again under the inject ("Watch reopen cannot open a second pipe
  client mid-inject", `career-ui/server/ofp-load-helpers.ts:981`).  The probes of a manual
  settle (`career-ui/server/watch-helpers.ts:1403`) open pipes without the gate at all.

*Demand desk.*

- `Edits` with `"shared"` violates `CargoConserved`: raising one line of several draws on
  the order and not on the warehouse, against "aumentar retira da WH"
  (`src/docs/agent-context/06-open-work.md:964`).  It violates `CityOnce` too, in twelve
  steps: the raise does not ask whether the order is still on, so it may
  fill up a flight for an order that has expired with part of it open; the city, for
  which no order is in progress, lists the product again while all of it is on its way.
- The orders that `marred` collects do break the other two: a deferred order save
  overwrites a newer row; the board is saved before the company's row, so that a
  failure gives back twice; an incomplete reading of the companies lists an order
  again that is being carried.
- Holds that expire inside hold, fly, dispatch or the ports snapshot are dropped
  without giving the kilograms back to a saved board ("Drop expired holds and return
  claimed kg to the Demand Board", `shared/src/career-demand.ts:539`); cancelling,
  trimming or settling a flight of several orders writes the first one only.  Both
  leave the board promising less than it could, which no property forbids.

*Aircraft market* (read, not modelled).  `claimAircraftInstanceInPg` commits off the
locks and RAM is patched two awaits later; a pulse save in between writes the row
back as available, and a second company may claim the hull too, against "Dual buy
same listing → one 200, one 409" (`src/docs/agent-context/27-mp-presence.md:43`).

## 6. Not modelled

`PROJECT.json` says for each component what is left out.  The models stand for a few
thousand of the repository's 283,000 implementation lines, and a share of 30 % is
out of reach: by far the largest part renders (`App.tsx`, the panels, their client
API: 40,000 lines and more), computes numbers (prices, distances, weights, phases,
load plans), holds data (profiles, airports, aircraft) or maps rows to columns.
None of it has the kind of behaviour these models are about; mapping it would only
restate it.  What has such behaviour and is not modelled:

- the aircraft market (above): a hull's row in Postgres, RAM and two companies'
  wallets, with claim, release, trade-in and the pulse's overlay;
- `POST /api/tick` and the ticks of remote clients;
- ports (listings, auto-buy, concession bids) and hauls between warehouses, which
  use the patterns of `DemandDesk`;
- charter tours and the crew desk, whose live rows appear in `WorldStore` only as an
  overlay;
- membership and invitations of airlines, accounts, access keys and the catalogue,
  whose operations are single SQL statements over one row.

## 7. Plan

1. Done: the models, their runs, and proofs for every module.
2. `AircraftMarket`; then port auctions; `POST /api/tick` in `WorldPulse`.

Runs are kept to one per question; where two small instances ask the same one, a
later module's run takes the place of the weaker.
