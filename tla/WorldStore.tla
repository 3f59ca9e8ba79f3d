------------------------------ MODULE WorldStore ------------------------------
(***************************************************************************)
(* The two-queue persistence of the world host: one live planet in RAM,    *)
(* one planet in Postgres behind the revision of economy_meta, commands    *)
(* (accept a lot, cancel its mission) that publish into RAM under the      *)
(* career lock and commit their slice after releasing it, and the pulse    *)
(* that ticks RAM under the lock and saves a snapshot off it.              *)
(*                                                                         *)
(* A lot is abstracted to the company whose claim it carries, a planet to  *)
(* its lots and its tick.  An action is one stretch of JavaScript between  *)
(* two awaits, or one Postgres transaction; a transaction that takes the   *)
(* FOR UPDATE lock and reads RAM inside it is two actions.                 *)
(***************************************************************************)
EXTENDS Naturals, FiniteSets

CONSTANTS
    Companies,    \* companies of the world
    Lots,         \* shipment lots on the board
    Kinds,        \* which commands are sent: "accept", "cancel"
    Reqs,         \* requests the host may be serving at the same time
    Free,         \* a lot that carries no claim
    NoWorld,      \* no planet: ram = null, no baseline
    Nobody,       \* no holder of a lock
    Faults,       \* which of "missions", "slice", "save", "crash" may happen
    MaxTick,      \* bound: last tick the wall clock owes
    MaxCommands,  \* bound: commands
    MaxFaults     \* bound: faults

Pulse == "pulse"
Save == "save"

ASSUME StoreAssumption ==
    /\ Free \notin Companies
    /\ Nobody \notin Reqs \cup {Pulse, Save}
    /\ Reqs \cap {Pulse, Save} = {}
    /\ Kinds \subseteq {"accept", "cancel"}
    /\ Faults \subseteq {"missions", "slice", "save", "crash"}
    /\ MaxTick \in Nat \ {0}
    /\ MaxCommands \in Nat
    /\ MaxFaults \in Nat

Board == [Lots -> Companies \cup {Free}]
World == [lots : Board, tick : Nat]

ASSUME NoWorldAssumption == NoWorld \notin World \cup Board

VARIABLES
    lock,       \* who holds worldLock and companyLock
    ram,        \* PostgresCareerStore.ram
    ramRev,     \* ramRevision, 0 for null
    dirtyLots,  \* dirtyCommandLotIds
    baseline,   \* lotSyncBaseline
    pg,         \* the planet in Postgres
    pgRev,      \* economy_meta.revision
    rowLock,    \* who holds economy_meta FOR UPDATE
    missions,   \* the lots of each company's open missions, in Postgres
    req,        \* the requests being served
    pulse,      \* the pulse
    commands,   \* commands so far
    faults      \* faults so far

ramVars == <<ram, ramRev, dirtyLots>>
pgVars == <<pg, pgRev, rowLock>>
vars == <<lock, ramVars, baseline, pgVars, missions, req, pulse, commands,
          faults>>

Idle == [pc |-> "idle"]
Unclaimed == [lots |-> [l \in Lots |-> Free], tick |-> 1]

Init ==
    /\ lock = Nobody
    /\ ram = NoWorld
    /\ ramRev = 0
    /\ dirtyLots = {}
    /\ baseline = NoWorld
    /\ pg = Unclaimed
    /\ pgRev = 1
    /\ rowLock = Nobody
    /\ missions = [c \in Companies |-> {}]
    /\ req = [r \in Reqs |-> Idle]
    /\ pulse = Idle
    /\ commands = 0
    /\ faults = 0
-----------------------------------------------------------------------------
(* The store: which planet a load serves, and what a slice does to it.     *)

\* loadEconomy serves RAM while its revision is the one just selected.
Fresh(seen) == ram # NoWorld /\ ramRev = seen

\* applyCommandWorldSliceToRam: install the slice's lot and the clock of its
\* world, or the whole world when the store has none; mark the lot dirty.
ApplySlice(world, lot) ==
    /\ ram' = IF ram = NoWorld THEN world
              ELSE [lots |-> [ram.lots EXCEPT ![lot] = world.lots[lot]],
                    tick |-> world.tick]
    /\ dirtyLots' = dirtyLots \cup {lot}

\* The pulse's acknowledgement copies only its clock onto live RAM.
AckClock(tick) ==
    ram' = IF ram = NoWorld THEN NoWorld ELSE [ram EXCEPT !.tick = tick]

DropRam == ram' = NoWorld /\ ramRev' = 0

MayFault(kind) ==
    /\ kind \in Faults
    /\ faults < MaxFaults
    /\ faults' = faults + 1

-----------------------------------------------------------------------------
(* A command: withCareerWrite with a command slice.                        *)

\* Take both locks, load the company's missions, select the revision.
StartCommand(r, kind, c, lot) ==
    /\ req[r].pc = "idle"
    /\ lock = Nobody
    /\ commands < MaxCommands
    /\ kind = "cancel" => lot \in missions[c]
    /\ lock' = r
    /\ commands' = commands + 1
    /\ req' = [req EXCEPT ![r] = [pc |-> "load", kind |-> kind, company |-> c,
                                  lot |-> lot, seen |-> pgRev]]
    /\ UNCHANGED <<ramVars, baseline, pgVars, missions, pulse, faults>>

\* RAM is current: hold a reference to it, await the missions.
ServeRam(r) ==
    /\ req[r].pc = "load"
    /\ Fresh(req[r].seen)
    /\ req' = [req EXCEPT ![r] = [kind |-> @.kind, company |-> @.company,
                    lot |-> @.lot, pc |-> "run", world |-> ram]]
    /\ UNCHANGED <<lock, ramVars, baseline, pgVars, missions, pulse, commands,
                   faults>>

\* It is not: read the planet and its revision in one read-only transaction.
ReadPg(r) ==
    /\ req[r].pc = "load"
    /\ ~Fresh(req[r].seen)
    /\ req' = [req EXCEPT ![r] = [kind |-> @.kind, company |-> @.company,
                    lot |-> @.lot, pc |-> "install", world |-> pg,
                    seen |-> pgRev]]
    /\ UNCHANGED <<lock, ramVars, baseline, pgVars, missions, pulse, commands,
                   faults>>

\* Mutant: the load is tried again, but the revision is not recorded.
HydrateRetries(r) ==
    /\ req[r].pc = "install"
    /\ ram' = req[r].world
    /\ req' = [req EXCEPT ![r].pc = "load"]
    /\ UNCHANGED <<lock, ramRev, dirtyLots, baseline, pgVars, missions, pulse,
                   commands, faults>>

Hydrate(r) ==
    /\ req[r].pc = "install"
    /\ ram' = req[r].world
    /\ ramRev' = req[r].seen
    /\ req' = [req EXCEPT ![r].pc = "run"]
    /\ UNCHANGED <<lock, dirtyLots, baseline, pgVars, missions, pulse,
                   commands, faults>>

\* The planet the handler clones: the live object, or the one it still holds.
Held(r) == IF ram = NoWorld THEN req[r].world ELSE ram

\* executeAcceptLot on the clone: another company's claim is a conflict and an
\* open mission with the lot a replay (both leave the lot as it is); a lot the
\* company claims without a mission has no cargo left and throws.
Rejected(r) ==
    LET c == req[r].company
        lot == req[r].lot
    IN  /\ req[r].kind = "accept"
        /\ lot \notin missions[c]
        /\ Held(r).lots[lot] = c

\* The owner of the lot and the company's missions after the handler.
OwnerAfter(r) ==
    LET held == Held(r).lots[req[r].lot]
    IN  IF req[r].kind = "cancel" THEN Free
        ELSE IF held = Free /\ req[r].lot \notin missions[req[r].company]
             THEN req[r].company
             ELSE held

MissionsAfter(r) ==
    LET c == req[r].company
        lot == req[r].lot
        claimed == Held(r).lots[lot] = Free
    IN  IF req[r].kind = "cancel" THEN missions[c] \ {lot}
        ELSE IF claimed THEN missions[c] \cup {lot} ELSE missions[c]

\* Run the handler on a clone and publish its slice into live RAM.
RunCommand(r) ==
    /\ req[r].pc = "run"
    /\ ~Rejected(r)
    /\ LET world == [Held(r) EXCEPT !.lots[req[r].lot] = OwnerAfter(r)]
       IN  /\ ApplySlice(world, req[r].lot)
           /\ req' = [req EXCEPT ![r] =
                         [pc |-> "missions", company |-> @.company,
                          lot |-> @.lot, world |-> world,
                          open |-> MissionsAfter(r)]]
    /\ UNCHANGED <<lock, ramRev, baseline, pgVars, missions, pulse, commands,
                   faults>>

RejectCommand(r) ==
    /\ req[r].pc = "run"
    /\ Rejected(r)
    /\ req' = [req EXCEPT ![r] = Idle]
    /\ lock' = Nobody
    /\ UNCHANGED <<ramVars, baseline, pgVars, missions, pulse, commands,
                   faults>>

\* saveMissions, then both locks are released.
SaveMissions(r) ==
    /\ req[r].pc = "missions"
    /\ missions' = [missions EXCEPT ![req[r].company] = req[r].open]
    /\ lock' = Nobody
    /\ req' = [req EXCEPT ![r] = [pc |-> "slice", lot |-> @.lot,
                                  world |-> @.world]]
    /\ UNCHANGED <<ramVars, baseline, pgVars, pulse, commands, faults>>

\* persistCommandWorldSlice, off the lock: the clone's lot, one revision up.
CommitSlice(r) ==
    /\ req[r].pc = "slice"
    /\ rowLock = Nobody
    /\ pg' = [pg EXCEPT !.lots[req[r].lot] = req[r].world.lots[req[r].lot]]
    /\ pgRev' = pgRev + 1
    /\ req' = [req EXCEPT ![r] = [pc |-> "ack", lot |-> @.lot,
                                  world |-> @.world, rev |-> pgRev + 1]]
    /\ UNCHANGED <<lock, ramVars, baseline, rowLock, missions, pulse,
                   commands, faults>>

\* The slice is applied to RAM a second time, from the same clone.
AckSlice(r) ==
    /\ req[r].pc = "ack"
    /\ ApplySlice(req[r].world, req[r].lot)
    /\ ramRev' = req[r].rev
    /\ req' = [req EXCEPT ![r] = Idle]
    /\ UNCHANGED <<lock, baseline, pgVars, missions, pulse, commands, faults>>

-----------------------------------------------------------------------------
(* The pulse: chunks that tick live RAM, then one snapshot save.           *)

StartChunk ==
    /\ pulse.pc \in {"idle", "between"}
    /\ lock = Nobody
    /\ lock' = Pulse
    /\ pulse' = [pc |-> "load", seen |-> pgRev,
                 dirty |-> pulse.pc = "between" /\ pulse.dirty]
    /\ UNCHANGED <<ramVars, baseline, pgVars, missions, req, commands, faults>>

PulseServeRam ==
    /\ pulse.pc = "load"
    /\ Fresh(pulse.seen)
    /\ pulse' = [pc |-> "tick", dirty |-> pulse.dirty]
    /\ UNCHANGED <<lock, ramVars, baseline, pgVars, missions, req, commands,
                   faults>>

PulseReadPg ==
    /\ pulse.pc = "load"
    /\ ~Fresh(pulse.seen)
    /\ pulse' = [pc |-> "install", dirty |-> pulse.dirty, world |-> pg,
                 seen |-> pgRev]
    /\ UNCHANGED <<lock, ramVars, baseline, pgVars, missions, req, commands,
                   faults>>

PulseHydrate ==
    /\ pulse.pc = "install"
    /\ ram' = pulse.world
    /\ ramRev' = pulse.seen
    /\ pulse' = [pc |-> "tick", dirty |-> pulse.dirty]
    /\ UNCHANGED <<lock, dirtyLots, baseline, pgVars, missions, req, commands,
                   faults>>

LiveTick == IF ram = NoWorld THEN 0 ELSE ram.tick

\* Mutant: a chunk ticks whether or not the wall clock owes a tick.
TickPulseUnowed(n) ==
    /\ pulse.pc = "tick"
    /\ AckClock(LiveTick + n)
    /\ pulse' = [pc |-> "between", dirty |-> pulse.dirty \/ n > 0]
    /\ lock' = Nobody
    /\ UNCHANGED <<ramRev, dirtyLots, baseline, pgVars, missions, req,
                   commands, faults>>

\* The ticks the wall clock owes, at most one here; a chunk whose planet was
\* dropped meanwhile ticks an object nobody else holds.
TickPulse(n) ==
    /\ pulse.pc = "tick"
    /\ LiveTick + n <= MaxTick
    /\ AckClock(LiveTick + n)
    /\ pulse' = [pc |-> "between", dirty |-> pulse.dirty \/ n > 0]
    /\ lock' = Nobody
    /\ UNCHANGED <<ramRev, dirtyLots, baseline, pgVars, missions, req,
                   commands, faults>>

\* The pulse ends unsaved: nothing was dirty, or there is no planet to clone.
EndPulse ==
    /\ pulse.pc = "between"
    /\ lock = Nobody
    /\ ~pulse.dirty \/ ram = NoWorld
    /\ pulse' = Idle
    /\ UNCHANGED <<lock, ramVars, baseline, pgVars, missions, req, commands,
                   faults>>

\* Clone live RAM under the locks; planLotSync picks the rows: those that
\* differ from the baseline, or all of them ("full").
SnapshotPulse(full) ==
    /\ pulse.pc = "between"
    /\ lock = Nobody
    /\ pulse.dirty
    /\ ram # NoWorld
    /\ baseline = NoWorld => full
    /\ pulse' = [pc |-> "save", snap |-> ram,
                 upserts |-> {l \in Lots : full \/ ram.lots[l] # baseline[l]}]
    /\ UNCHANGED <<lock, ramVars, baseline, pgVars, missions, req, commands,
                   faults>>

\* Inside the transaction, once the row lock is held, the snapshot's lots are
\* replaced by the live ones.
OverlayPulse ==
    /\ pulse.pc = "save"
    /\ rowLock = Nobody
    /\ rowLock' = Save
    /\ pulse' = [pc |-> "commit", snap |-> pulse.snap,
                 upserts |-> pulse.upserts,
                 rows |-> IF ram = NoWorld THEN pulse.snap.lots ELSE ram.lots]
    /\ UNCHANGED <<lock, ramVars, baseline, pg, pgRev, missions, req,
                   commands, faults>>

Upserted(lots, rows) ==
    [l \in Lots |-> IF l \in lots THEN rows[l] ELSE pg.lots[l]]

CommitPulse ==
    /\ pulse.pc = "commit"
    /\ pg' = [lots |-> Upserted(pulse.upserts, pulse.rows),
              tick |-> pulse.snap.tick]
    /\ pgRev' = pgRev + 1
    /\ rowLock' = Nobody
    /\ pulse' = [pc |-> "ack", snap |-> pulse.snap, rev |-> pgRev + 1]
    /\ UNCHANGED <<lock, ramVars, baseline, missions, req, commands, faults>>

AckPulse ==
    /\ pulse.pc = "ack"
    /\ AckClock(pulse.snap.tick)
    /\ ramRev' = pulse.rev
    /\ baseline' = pulse.snap.lots
    /\ pulse' = [pc |-> "dirty"]
    /\ UNCHANGED <<lock, dirtyLots, pgVars, missions, req, commands, faults>>

\* flushDirtyCommandLots: the ids are cleared and their rows are built from
\* live RAM before the transaction takes the row lock.
StartFlush ==
    /\ pulse.pc = "dirty"
    /\ IF ram = NoWorld \/ dirtyLots = {}
       THEN pulse' = Idle /\ UNCHANGED dirtyLots
       ELSE /\ pulse' = [pc |-> "flush", lots |-> dirtyLots, rows |-> ram.lots]
            /\ dirtyLots' = {}
    /\ UNCHANGED <<lock, ram, ramRev, baseline, pgVars, missions, req,
                   commands, faults>>

CommitFlush ==
    /\ pulse.pc = "flush"
    /\ rowLock = Nobody
    /\ pg' = [pg EXCEPT !.lots = Upserted(pulse.lots, pulse.rows)]
    /\ pgRev' = pgRev + 1
    /\ pulse' = [pc |-> "flushed", rev |-> pgRev + 1]
    /\ UNCHANGED <<lock, ramVars, baseline, rowLock, missions, req, commands,
                   faults>>

AckFlush ==
    /\ pulse.pc = "flushed"
    /\ ramRev' = pulse.rev
    /\ pulse' = Idle
    /\ UNCHANGED <<lock, ram, dirtyLots, baseline, pgVars, missions, req,
                   commands, faults>>

-----------------------------------------------------------------------------
(* Faults.                                                                 *)

\* saveMissions fails: the locks are released, RAM keeps the slice.
MissionsFail(r) ==
    /\ req[r].pc = "missions"
    /\ MayFault("missions")
    /\ lock' = Nobody
    /\ req' = [req EXCEPT ![r] = Idle]
    /\ UNCHANGED <<ramVars, baseline, pgVars, missions, pulse, commands>>

\* persistRevisioned drops RAM when the slice does not commit.
SliceFails(r) ==
    /\ req[r].pc = "slice"
    /\ MayFault("slice")
    /\ DropRam
    /\ req' = [req EXCEPT ![r] = Idle]
    /\ UNCHANGED <<lock, dirtyLots, baseline, pgVars, missions, pulse,
                   commands>>

\* Mutant: a save that fails inside its transaction keeps the row lock.
SaveFailsLocked ==
    /\ pulse.pc \in {"save", "commit", "flush"}
    /\ MayFault("save")
    /\ DropRam
    /\ pulse' = Idle
    /\ UNCHANGED <<lock, dirtyLots, baseline, pg, pgRev, rowLock, missions,
                   req, commands>>

\* ... or when the pulse's save or its flush does not.
SaveFails ==
    /\ pulse.pc \in {"save", "commit", "flush"}
    /\ MayFault("save")
    /\ DropRam
    /\ rowLock' = IF rowLock = Save THEN Nobody ELSE rowLock
    /\ pulse' = Idle
    /\ UNCHANGED <<lock, dirtyLots, baseline, pg, pgRev, missions, req,
                   commands>>

\* The process dies and restarts: only Postgres survives.
Crash ==
    /\ MayFault("crash")
    /\ DropRam
    /\ lock' = Nobody
    /\ dirtyLots' = {}
    /\ baseline' = NoWorld
    /\ rowLock' = Nobody
    /\ req' = [r \in Reqs |-> Idle]
    /\ pulse' = Idle
    /\ UNCHANGED <<pg, pgRev, missions, commands>>

-----------------------------------------------------------------------------
Send(r) ==
    \E kind \in Kinds, c \in Companies, lot \in Lots :
        StartCommand(r, kind, c, lot)

Serve(r) ==
    \/ ServeRam(r)
    \/ ReadPg(r)
    \/ Hydrate(r)
    \/ RunCommand(r)
    \/ RejectCommand(r)
    \/ SaveMissions(r)
    \/ CommitSlice(r)
    \/ AckSlice(r)

PulseStep ==
    \/ StartChunk
    \/ PulseServeRam
    \/ PulseReadPg
    \/ PulseHydrate
    \/ \E n \in {0, 1} : TickPulse(n)
    \/ EndPulse
    \/ \E full \in BOOLEAN : SnapshotPulse(full)
    \/ OverlayPulse
    \/ CommitPulse
    \/ AckPulse
    \/ StartFlush
    \/ CommitFlush
    \/ AckFlush

Fault ==
    \/ \E r \in Reqs : MissionsFail(r) \/ SliceFails(r)
    \/ SaveFails
    \/ Crash

Next ==
    \/ \E r \in Reqs : Send(r) \/ Serve(r)
    \/ PulseStep
    \/ Fault

Spec == Init /\ [][Next]_vars

\* The event loop runs every continuation and Postgres answers every query.
Fairness == WF_vars(PulseStep) /\ \A r \in Reqs : WF_vars(Serve(r))

FairSpec == Spec /\ Fairness

-----------------------------------------------------------------------------
(* Properties.                                                             *)

\* Every variable holds a value of its kind, and no clock passes the tick
\* the wall clock owes.
TypeOK ==
    /\ lock \in Reqs \cup {Pulse, Nobody}
    /\ ram \in [lots : Board, tick : 0 .. MaxTick] \cup {NoWorld}
    /\ ramRev \in Nat
    /\ dirtyLots \subseteq Lots
    /\ baseline \in Board \cup {NoWorld}
    /\ pg \in [lots : Board, tick : 0 .. MaxTick]
    /\ pgRev \in Nat \ {0}
    /\ rowLock \in {Save, Nobody}
    /\ missions \in [Companies -> SUBSET Lots]
    /\ DOMAIN req = Reqs
    /\ commands \in 0 .. MaxCommands
    /\ faults \in 0 .. MaxFaults

Holders(lot) == {c \in Companies : lot \in missions[c]}

\* What docs/agent-context/14-mp-world-clock.md promises of an accept: the
\* claim is atomic, so a lot is on the open missions of one company at most.
ClaimExclusive == \A lot \in Lots : Cardinality(Holders(lot)) <= 1

\* Whatever fails or restarts, the career locks are held by a request between
\* its load and its saveMissions, or by a chunk until it has ticked, and by
\* nobody else; the row lock by a save between its overlay and its commit.
LocksHeld ==
    /\ \A r \in Reqs :
          lock = r <=> req[r].pc \in {"load", "install", "run", "missions"}
    /\ lock = Pulse <=> pulse.pc \in {"load", "install", "tick"}
    /\ rowLock = Save <=> pulse.pc = "commit"

Answered == \A r \in Reqs : req[r].pc = "idle"

\* Every command that took the locks is answered: neither a pulse, nor a
\* fault, nor another command leaves a lock behind.
EveryCommandAnswered == \A r \in Reqs : req[r].pc = "load" ~> req[r].pc = "idle"
=============================================================================
