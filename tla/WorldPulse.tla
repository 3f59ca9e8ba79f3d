------------------------------ MODULE WorldPulse ------------------------------
(***************************************************************************)
(* The background pulse of the world host, on the Postgres store: the      *)
(* catch-up chunks that tick the planet in RAM, the company fee settlement *)
(* that follows each chunk and the single save at the end of the pulse;    *)
(* the session/open requests that settle one company between them; and the *)
(* commands, as far as they move the clock of the planet they share.       *)
(*                                                                         *)
(* A planet is abstracted to its clock and to what the pulse may still owe *)
(* Postgres of it:                                                         *)
(*   tick  - economy_meta.tick, the number of the last tick;               *)
(*   batch - lastBatchAtMs, the wall clock up to which ticks are simulated;*)
(*   land  - a pulse changed tables of the arrival slice (lots, airports,  *)
(*           NPCs, fuel) since this planet was read or saved;              *)
(*   rest  - a pulse changed tables that only a full save writes (demand,  *)
(*           events, ports, charter) since then.                           *)
(* What a command changes besides the clock is the matter of WorldStore.   *)
(*                                                                         *)
(* Each action is one stretch of JavaScript between two awaits, or one     *)
(* critical section under worldLock and companyLock in which no other      *)
(* actor can matter. A commit and its acknowledgement are one step.        *)
(***************************************************************************)
EXTENDS Naturals, FiniteSets

CONSTANTS
    Companies,     \* companies of the world
    Cmds,          \* slots of commands, each with at most one in flight
    TicksPerDay,   \* TICKS_PER_DAY
    ChunkTicks,    \* CATCH_UP_LOCK_CHUNK_TICKS
    PulseSizes,    \* the n of advance(): login burst, timer pulse
    CapDays,       \* OFFLINE_FEE_CAP_DAYS
    Faults,        \* which of FaultKinds may happen
    Rehydrates,    \* other saves may move the revision: a load finds RAM stale
    StartTick,     \* tick of the planet when the host opens it
    NoWorld,       \* the store holds no planet (ram = null)
    MaxTick,       \* bound: last tick the wall clock asks for
    MaxFaults,     \* bound: faults
    MaxOpens,      \* bound: session/open requests
    MaxCommands    \* bound: commands

FaultKinds == {"chunk", "settle", "save", "command", "crash"}

ASSUME PulseAssumption ==
    /\ TicksPerDay \in Nat \ {0}
    /\ ChunkTicks \in Nat \ {0}
    /\ PulseSizes \subseteq Nat \ {0}
    /\ CapDays \in Nat
    /\ Rehydrates \in BOOLEAN
    /\ StartTick \in Nat
    /\ Faults \subseteq FaultKinds
    /\ MaxTick \in Nat
    /\ MaxFaults \in Nat
    /\ MaxOpens \in Nat
    /\ MaxCommands \in Nat

World == [tick : Nat, batch : Nat, land : BOOLEAN, rest : BOOLEAN]

ASSUME NoWorldAssumption == NoWorld \notin World

VARIABLES
    wall,          \* the tick the wall clock asks for
    ram,           \* PostgresCareerStore.ram
    pg,            \* the planet in Postgres
    baseline,      \* lotSyncBaseline and airportSyncBaseline are set
    pc,            \* where advance() is; "idle" is pulseInFlight = false
    remaining,     \* ticks this pulse may still ask for
    chunk,         \* the catch-up of the chunk being run
    dirty,         \* economyDirty
    full,          \* needsFullPersist
    timing,        \* the PulseChunkTiming of the chunk being run
    unpersisted,   \* this.economyUnpersisted
    snap,          \* the clone the off-lock save is writing
    active,        \* the store's ambient activeCompanyId
    sess,          \* one session/open request per company
    cmd,           \* the commands, each with its clone of the planet
    lastSeen,      \* company_state.last_seen_tick
    billed,        \* ledger: the economy days each company was charged for
    rebilled,      \* ... and those it was charged for more than once
    forgiven,      \* days a settlement passed over: capped, or it threw
    faults,        \* faults so far
    opens,         \* session/open requests so far
    commands       \* commands so far

pulseVars == <<pc, remaining, chunk, dirty, full, timing, unpersisted, snap>>
storeVars == <<ram, pg, baseline>>
feeVars == <<lastSeen, billed, rebilled, forgiven>>
sessVars == <<active, sess, opens>>
cmdVars == <<cmd, commands>>
vars == <<wall, pulseVars, storeVars, feeVars, sessVars, cmdVars, faults>>

Lesser(a, b) == IF a < b THEN a ELSE b
IdleSession == [pc |-> "off", from |-> 0, to |-> 0, read |-> NoWorld]
IdleCommand == [pc |-> "off", world |-> NoWorld]
NoChunk == [own |-> FALSE, todo |-> 0, upto |-> 0,
            ticked |-> FALSE, saved |-> FALSE]
NoTiming == [dirty |-> FALSE, full |-> FALSE]

Init ==
    /\ wall = StartTick
    /\ ram = NoWorld
    /\ pg = [tick |-> StartTick, batch |-> StartTick,
             land |-> FALSE, rest |-> FALSE]
    /\ baseline = FALSE
    /\ pc = "idle"
    /\ remaining = 0
    /\ chunk = NoChunk
    /\ dirty = FALSE
    /\ full = FALSE
    /\ timing = NoTiming
    /\ unpersisted = FALSE
    /\ snap = NoWorld
    /\ active \in Companies
    /\ sess = [c \in Companies |-> IdleSession]
    /\ cmd = [k \in Cmds |-> IdleCommand]
    /\ lastSeen = [c \in Companies |-> StartTick]
    /\ billed = [c \in Companies |-> {}]
    /\ rebilled = [c \in Companies |-> {}]
    /\ forgiven = [c \in Companies |-> {}]
    /\ faults = 0
    /\ opens = 0
    /\ commands = 0
-----------------------------------------------------------------------------
(* Fees: the billing window of one settlement and what it charges.         *)

EconomyDay(t) == t \div TicksPerDay

\* Mutant: the watermark is ignored, the chunk's own start is used.
FromTickIgnoresWatermark(c, fallback) == fallback

\* companySessionFromTick: Postgres reads a zero watermark as none.
FromTick(c, fallback) == IF lastSeen[c] > 0 THEN lastSeen[c] ELSE fallback

DaysCrossed(from, to) == (EconomyDay(from) + 1) .. EconomyDay(to)

\* effectiveFeeTickRange: the first CapDays of the days crossed.
DaysCharged(from, to) ==
    {d \in DaysCrossed(from, to) : d <= EconomyDay(from) + CapDays}

\* One settlement up to tick "to": "charged" companies pay their window,
\* "threw" ones fail inside the settlers, the others fail to load or save.
\* The watermark is assigned in the finally block, whatever the window was.
SettleFees(charged, threw, to, fallback) ==
    LET crossed(c) == DaysCrossed(FromTick(c, fallback), to)
        paid(c) == IF c \in charged
                   THEN DaysCharged(FromTick(c, fallback), to) ELSE {}
        tried == charged \cup threw
    IN  /\ lastSeen' = [c \in Companies |->
                            IF c \in tried THEN to ELSE lastSeen[c]]
        /\ billed' = [c \in Companies |-> billed[c] \cup paid(c)]
        /\ rebilled' = [c \in Companies |->
                            rebilled[c] \cup (billed[c] \cap paid(c))]
        /\ forgiven' = [c \in Companies |->
                            IF c \in tried
                            THEN forgiven[c] \cup (crossed(c) \ paid(c))
                            ELSE forgiven[c]]

-----------------------------------------------------------------------------
(* The planet in RAM: who may replace it, and who sets its clock.          *)

MayFault(kind) == kind \in Faults /\ faults < MaxFaults

AtClock(world, clock) ==
    [world EXCEPT !.tick = clock.tick, !.batch = clock.batch]

\* applyCommandWorldSliceToRam: RAM takes the clock of the command's clone,
\* or the whole clone if it was dropped.
Acknowledged(clone) == IF ram = NoWorld THEN clone ELSE AtClock(ram, clone)

\* loadEconomy serves RAM, or Postgres when RAM is empty or its revision is
\* not the one in Postgres.
MayReadPg == ram = NoWorld \/ Rehydrates
Loadable == ({ram} \ {NoWorld}) \cup (IF MayReadPg THEN {pg} ELSE {})

\* Commands hold both locks up to the publication of their clone, a chunk
\* from its load to the end of its housekeeping.
CommandInside == \E k \in Cmds : cmd[k].pc \in {"install", "run"}
LocksFree == ~CommandInside /\ pc # "tick"

\* The object a chunk ticks is no longer the planet in RAM.
Orphaned == [chunk EXCEPT !.own = FALSE]

-----------------------------------------------------------------------------
(* The pulse: LocalWorldTickService.advance and the hooks it is given.     *)

\* advance() returns: its locals are gone, pulseInFlight is cleared.
PulseEnds ==
    /\ pc' = "idle"
    /\ remaining' = 0
    /\ chunk' = NoChunk
    /\ dirty' = FALSE
    /\ full' = FALSE
    /\ timing' = NoTiming
    /\ snap' = NoWorld

\* The wall clock owes one more batch. Its last one comes after the commands,
\* which leave a clock behind that only a later batch corrects.
WallClock ==
    /\ wall < MaxTick
    /\ wall + 1 = MaxTick => \A k \in Cmds : cmd[k].pc = "off"
    /\ wall' = wall + 1
    /\ UNCHANGED <<pulseVars, storeVars, feeVars, sessVars, cmdVars, faults>>

\* advance(): refused while a pulse is in flight; a failed save of an earlier
\* pulse makes this one dirty from the start.
BeginPulse(n) ==
    /\ pc = "idle"
    /\ pc' = "chunk"
    /\ remaining' = n
    /\ dirty' = unpersisted
    /\ full' = unpersisted
    /\ UNCHANGED <<wall, chunk, timing, unpersisted, snap, storeVars, feeVars,
                   sessVars, cmdVars, faults>>

\* Mutant: the last chunk of a pulse is not clipped to what remains.
ChunkUnclipped == ChunkTicks

Chunk == Lesser(ChunkTicks, remaining)

\* The chunk takes the locks and loads the planet; a load from Postgres that
\* finds flights due saves them itself.
LoadChunk(world, saved) ==
    /\ pc = "chunk"
    /\ ~CommandInside
    /\ world \in Loadable
    /\ saved => world = pg
    /\ ram' = world
    /\ baseline' = (baseline /\ ~saved)
    /\ LET owed == Lesser(Chunk, wall - world.batch)
       IN  chunk' = [own |-> TRUE, todo |-> owed, upto |-> world.batch + owed,
                     ticked |-> FALSE, saved |-> saved]
    /\ pc' = "tick"
    /\ UNCHANGED <<wall, remaining, dirty, full, timing, unpersisted, snap, pg,
                   feeVars, sessVars, cmdVars, faults>>

\* One tick of the loaded planet; the event loop runs between two of them.
TickOnce ==
    /\ pc = "tick"
    /\ chunk.todo > 0
    /\ chunk' = [chunk EXCEPT !.todo = @ - 1, !.ticked = TRUE]
    /\ ram' = IF chunk.own
              THEN [ram EXCEPT !.tick = @ + 1, !.land = TRUE, !.rest = TRUE]
              ELSE ram
    /\ UNCHANGED <<wall, pc, remaining, dirty, full, timing, unpersisted, snap,
                   pg, baseline, feeVars, sessVars, cmdVars, faults>>

\* What the rest of the critical section leaves in RAM: the batch anchor,
\* computed when the chunk began, landings and repairs, heals.
Finished(landed, healed) ==
    IF ram = NoWorld THEN NoWorld
    ELSE [ram EXCEPT !.batch = IF chunk.own THEN chunk.upto ELSE @,
                     !.land = @ \/ landed,
                     !.rest = @ \/ healed]

\* Mutant: a chunk that only ticked is not reported dirty.
FinishChunkTickNotDirty(landed, healed) ==
    /\ pc = "tick"
    /\ chunk.todo = 0
    /\ ram' = Finished(landed, healed)
    /\ timing' = [dirty |-> landed \/ healed,
                  full  |-> chunk.ticked \/ healed]
    /\ pc' = "settle"
    /\ chunk' = NoChunk
    /\ UNCHANGED <<wall, remaining, dirty, full, unpersisted, snap, pg,
                   baseline, feeVars, sessVars, cmdVars, faults>>

\* The chunk ends: flights and hauls due, reservations, missions; no save.
FinishChunk(landed, healed) ==
    /\ pc = "tick"
    /\ chunk.todo = 0
    /\ ram' = Finished(landed, healed)
    /\ timing' = [dirty |-> chunk.ticked \/ chunk.saved \/ landed \/ healed,
                  full  |-> chunk.ticked \/ chunk.saved \/ healed]
    /\ pc' = "settle"
    /\ chunk' = NoChunk
    /\ UNCHANGED <<wall, remaining, dirty, full, unpersisted, snap, pg,
                   baseline, feeVars, sessVars, cmdVars, faults>>

\* The catch block of advance(): report zeros and return.
PulseFails ==
    /\ PulseEnds
    /\ faults' = faults + 1
    /\ UNCHANGED <<wall, feeVars, sessVars, cmdVars>>

\* runCatchUpWrite throws: at the load, whose own save drops RAM, among the
\* ticks, or at saveMissions once RAM has the whole chunk.
ChunkThrows(landed, healed) ==
    /\ MayFault("chunk")
    /\ \/ /\ pc = "chunk"
          /\ ~CommandInside
          /\ ram' \in {ram, NoWorld}
       \/ /\ pc = "tick"
          /\ ram' = IF chunk.todo = 0 THEN Finished(landed, healed) ELSE ram
    /\ UNCHANGED <<unpersisted, pg, baseline>>
    /\ PulseFails

\* The second critical section of a chunk: every company is settled up to
\* the live tick, if there is a planet; then the loop takes the flags over.
SettleCompanies(charged, threw) ==
    /\ pc = "settle"
    /\ LocksFree
    /\ IF ram = NoWorld THEN UNCHANGED feeVars
       ELSE SettleFees(charged, threw, ram.tick,
                       IF ram.tick > Chunk THEN ram.tick - Chunk ELSE 0)
    /\ dirty' = (dirty \/ timing.dirty)
    /\ full' = (full \/ timing.full)
    /\ remaining' = remaining - Chunk
    /\ timing' = NoTiming
    /\ pc' = IF remaining - Chunk > 0 THEN "chunk" ELSE "save"
    /\ UNCHANGED <<wall, chunk, unpersisted, snap, storeVars, sessVars,
                   cmdVars>>

SettleAll ==
    /\ SettleCompanies(Companies, {})
    /\ UNCHANGED faults

\* A company whose settlement throws is logged and passed over.
SettleSome(c, advanced) ==
    /\ MayFault("settle")
    /\ SettleCompanies(Companies \ {c}, IF advanced THEN {c} ELSE {})
    /\ faults' = faults + 1

\* The loop ended with nothing to save, or finds no planet to clone.
QuietPulse ==
    /\ pc = "save"
    /\ dirty => ram = NoWorld /\ LocksFree
    /\ unpersisted' = FALSE
    /\ PulseEnds
    /\ UNCHANGED <<wall, storeVars, feeVars, sessVars, cmdVars, faults>>

\* Mutant: a baseline is enough, whatever the chunks changed.
ArrivalOnlyIgnoresFull == baseline

\* saveArrivalPulse is safe only on a baseline; otherwise the whole planet.
ArrivalOnly == ~full /\ baseline

\* persistPulseSnapshot: clone live RAM under the locks, save off them.
TakeSnapshot ==
    /\ pc = "save"
    /\ dirty
    /\ LocksFree
    /\ ram # NoWorld
    /\ snap' = ram
    /\ pc' = IF ArrivalOnly THEN "saveArrival" ELSE "saveFull"
    /\ UNCHANGED <<wall, remaining, chunk, dirty, full, timing, unpersisted,
                   storeVars, feeVars, sessVars, cmdVars, faults>>

Saving == pc \in {"saveArrival", "saveFull"}

\* The commit takes the clock from the clone and the rows from live RAM
\* (overlayLiveEconomyOntoPulseSnapshot); RAM acknowledges the clone's clock.
SaveLands ==
    /\ Saving
    /\ pg' = AtClock(pg, snap)
    /\ ram' = IF ram = NoWorld THEN NoWorld
              ELSE [AtClock(ram, snap) EXCEPT
                        !.land = FALSE,
                        !.rest = @ /\ pc = "saveArrival"]
    /\ baseline' = TRUE
    /\ unpersisted' = FALSE
    /\ PulseEnds
    /\ UNCHANGED <<wall, feeVars, sessVars, cmdVars, faults>>

\* persistRevisioned drops RAM after a failed commit, or after a failed
\* flushDirtyCommandLots behind a commit that landed.
SaveFails(landed) ==
    /\ Saving
    /\ MayFault("save")
    /\ pg' = IF landed THEN AtClock(pg, snap) ELSE pg
    /\ baseline' = (baseline \/ landed)
    /\ ram' = NoWorld
    /\ unpersisted' = TRUE
    /\ PulseFails

\* The process dies and restarts: only Postgres survives.
Crash ==
    /\ MayFault("crash")
    /\ ram' = NoWorld
    /\ baseline' = FALSE
    /\ unpersisted' = FALSE
    /\ PulseEnds
    /\ sess' = [c \in Companies |-> IdleSession]
    /\ cmd' = [k \in Cmds |-> IdleCommand]
    /\ faults' = faults + 1
    /\ UNCHANGED <<wall, pg, feeVars, active, opens, commands>>

-----------------------------------------------------------------------------
(* Commands: withCareerWrite on a clone of the planet.                     *)

\* The locks are taken and the planet asked for.
StartCommand(k) ==
    /\ wall < MaxTick
    /\ commands < MaxCommands
    /\ cmd[k].pc = "off"
    /\ LocksFree
    /\ commands' = commands + 1
    /\ UNCHANGED <<wall, pulseVars, storeVars, feeVars, sessVars, faults>>

\* RAM is of the current revision: the command works on a clone of it.
ServeRam(k) ==
    /\ StartCommand(k)
    /\ ram # NoWorld
    /\ cmd' = [cmd EXCEPT ![k] = [pc |-> "run", world |-> ram]]

\* It is not, or there is none: the planet is read from Postgres ...
ReadPlanet(k) ==
    /\ StartCommand(k)
    /\ MayReadPg
    /\ cmd' = [cmd EXCEPT ![k] = [pc |-> "install", world |-> pg]]

\* ... and becomes the planet in RAM, whatever was committed meanwhile; with
\* flights that were due it is saved at once, whole.
InstallPlanet(k, saved) ==
    /\ cmd[k].pc = "install"
    /\ ram' = cmd[k].world
    /\ pg' = IF saved THEN AtClock(pg, cmd[k].world) ELSE pg
    /\ baseline' = (baseline /\ ~saved)
    /\ cmd' = [cmd EXCEPT ![k].pc = "run"]
    /\ UNCHANGED <<wall, pulseVars, feeVars, sessVars, commands, faults>>

\* A command slice is published in RAM, the locks are released.
PublishSlice(k) ==
    /\ cmd[k].pc = "run"
    /\ ram' = Acknowledged(cmd[k].world)
    /\ cmd' = [cmd EXCEPT ![k].pc = "slice"]
    /\ UNCHANGED <<wall, pulseVars, pg, baseline, feeVars, sessVars, commands,
                   faults>>

\* A command without a slice saves its whole clone under the locks.
SavePlanet(k) ==
    /\ cmd[k].pc = "run"
    /\ pg' = AtClock(pg, cmd[k].world)
    /\ ram' = [cmd[k].world EXCEPT !.land = FALSE, !.rest = FALSE]
    /\ baseline' = FALSE
    /\ cmd' = [cmd EXCEPT ![k] = IdleCommand]
    /\ UNCHANGED <<wall, pulseVars, feeVars, sessVars, commands, faults>>

\* A contract accepted by an NPC pilot saves its clone's clock and the NPC,
\* lot and airport tables under the locks, and puts the clone in RAM.
SaveNpcLive(k) ==
    /\ cmd[k].pc = "run"
    /\ pg' = AtClock(pg, cmd[k].world)
    /\ ram' = Acknowledged(cmd[k].world)
    /\ baseline' = FALSE
    /\ cmd' = [cmd EXCEPT ![k] = IdleCommand]
    /\ UNCHANGED <<wall, pulseVars, feeVars, sessVars, commands, faults>>

\* A read, a refusal, or a command that saves other tables only.
EndCommand(k) ==
    /\ cmd[k].pc = "run"
    /\ cmd' = [cmd EXCEPT ![k] = IdleCommand]
    /\ UNCHANGED <<wall, pulseVars, storeVars, feeVars, sessVars, commands,
                   faults>>

\* The slice is committed off the locks and applied to RAM once more; a
\* contract mission then has its NPC roster saved.
AckSlice(k, contract) ==
    /\ cmd[k].pc = "slice"
    /\ ram' = Acknowledged(cmd[k].world)
    /\ cmd' = [cmd EXCEPT ![k] =
                  IF contract THEN [@ EXCEPT !.pc = "roster"] ELSE IdleCommand]
    /\ UNCHANGED <<wall, pulseVars, pg, baseline, feeVars, sessVars, commands,
                   faults>>

\* persistNpcLiveWorld of a deferred slice: the clone's clock, in Postgres.
AckRoster(k) ==
    /\ cmd[k].pc = "roster"
    /\ pg' = AtClock(pg, cmd[k].world)
    /\ ram' = IF ram = NoWorld THEN cmd[k].world ELSE ram
    /\ baseline' = FALSE
    /\ cmd' = [cmd EXCEPT ![k] = IdleCommand]
    /\ UNCHANGED <<wall, pulseVars, feeVars, sessVars, commands, faults>>

\* A save of the command fails, or its answer is lost: RAM is dropped, and
\* nothing tells the pulse.
CommandFails(k, landed) ==
    /\ cmd[k].pc # "off"
    /\ MayFault("command")
    /\ landed => cmd[k].pc # "slice"
    /\ pg' = IF landed THEN AtClock(pg, cmd[k].world) ELSE pg
    /\ ram' = NoWorld
    /\ chunk' = Orphaned
    /\ cmd' = [cmd EXCEPT ![k] = IdleCommand]
    /\ faults' = faults + 1
    /\ UNCHANGED <<wall, pc, remaining, dirty, full, timing, unpersisted, snap,
                   baseline, feeVars, sessVars, commands>>

-----------------------------------------------------------------------------
(* POST /api/companies/session/open.                                       *)

\* activateCompanyContext, then the route reads its fallback watermark.
OpenSession(c) ==
    /\ opens < MaxOpens
    /\ sess[c].pc = "off"
    /\ active' = c
    /\ sess' = [sess EXCEPT ![c] = [IdleSession EXCEPT !.pc = "clock",
                                                       !.from = lastSeen[c]]]
    /\ opens' = opens + 1
    /\ UNCHANGED <<wall, pulseVars, storeVars, feeVars, cmdVars, faults>>

\* getClock: the live tick, under no lock; without a planet in RAM it reads
\* the one in Postgres ...
ReadClock(c) ==
    /\ sess[c].pc = "clock"
    /\ sess' = [sess EXCEPT ![c] =
                    IF ram = NoWorld
                    THEN [@ EXCEPT !.pc = "install", !.read = pg]
                    ELSE [@ EXCEPT !.pc = "missions", !.to = ram.tick]]
    /\ UNCHANGED <<wall, pulseVars, storeVars, feeVars, active, opens,
                   cmdVars, faults>>

\* ... and puts it in RAM, under no lock either.
InstallClock(c, saved) ==
    /\ sess[c].pc = "install"
    /\ ram' = sess[c].read
    /\ pg' = IF saved THEN AtClock(pg, sess[c].read) ELSE pg
    /\ baseline' = (baseline /\ ~saved)
    /\ chunk' = Orphaned
    /\ sess' = [sess EXCEPT ![c].pc = "missions", ![c].to = sess[c].read.tick,
                            ![c].read = NoWorld]
    /\ UNCHANGED <<wall, pc, remaining, dirty, full, timing, unpersisted, snap,
                   feeVars, active, opens, cmdVars, faults>>

\* The missions of the ambient company decide whether there is a delta.
ReadWatermark(c) ==
    /\ sess[c].pc = "missions"
    /\ LET from == FromTick(active, sess[c].from)
       IN  sess' = [sess EXCEPT ![c] =
                        IF sess[c].to > from
                        THEN [@ EXCEPT !.pc = "settle", !.from = from]
                        ELSE IdleSession]
    /\ UNCHANGED <<wall, pulseVars, storeVars, feeVars, active, opens, cmdVars,
                   faults>>

\* applyCompanySessionSettlement under both locks: the ambient company is
\* settled up to the tick read before; nothing without a planet in RAM.
SettleSession(c) ==
    /\ sess[c].pc = "settle"
    /\ LocksFree
    /\ IF ram = NoWorld THEN UNCHANGED feeVars
                        ELSE SettleFees({active}, {}, sess[c].to, sess[c].from)
    /\ sess' = [sess EXCEPT ![c] = IdleSession]
    /\ UNCHANGED <<wall, pulseVars, storeVars, active, opens, cmdVars, faults>>

-----------------------------------------------------------------------------
PulseStep ==
    \/ \E world \in {ram, pg}, saved \in BOOLEAN : LoadChunk(world, saved)
    \/ TickOnce
    \/ \E landed, healed \in BOOLEAN : FinishChunk(landed, healed)
    \/ SettleAll
    \/ QuietPulse
    \/ TakeSnapshot
    \/ SaveLands

Fault ==
    \/ \E landed, healed \in BOOLEAN : ChunkThrows(landed, healed)
    \/ \E c \in Companies, advanced \in BOOLEAN : SettleSome(c, advanced)
    \/ \E landed \in BOOLEAN : SaveFails(landed)
    \/ \E k \in Cmds, landed \in BOOLEAN : CommandFails(k, landed)
    \/ Crash

\* A command once it holds the locks.
CommandStep(k) ==
    \/ \E saved \in BOOLEAN : InstallPlanet(k, saved)
    \/ PublishSlice(k)
    \/ SavePlanet(k)
    \/ SaveNpcLive(k)
    \/ EndCommand(k)
    \/ \E contract \in BOOLEAN : AckSlice(k, contract)
    \/ AckRoster(k)

SessionStep(c) ==
    \/ OpenSession(c)
    \/ ReadClock(c)
    \/ \E saved \in BOOLEAN : InstallClock(c, saved)
    \/ ReadWatermark(c)
    \/ SettleSession(c)

Next ==
    \/ WallClock
    \/ \E n \in PulseSizes : BeginPulse(n)
    \/ PulseStep
    \/ Fault
    \/ \E k \in Cmds : ServeRam(k) \/ ReadPlanet(k) \/ CommandStep(k)
    \/ \E c \in Companies : SessionStep(c)

Spec == Init /\ [][Next]_vars

\* Time passes, the timer keeps starting pulses, the event loop runs every
\* continuation, and Postgres answers a command or fails it.
Fairness ==
    /\ WF_vars(WallClock)
    /\ WF_vars(\E n \in PulseSizes : BeginPulse(n))
    /\ WF_vars(PulseStep)
    /\ \A k \in Cmds : WF_vars(CommandStep(k))

FairSpec == Spec /\ Fairness

-----------------------------------------------------------------------------
(* Properties.                                                             *)

\* Every variable holds a value of its kind.
TypeOK ==
    /\ wall \in Nat
    /\ ram \in World \cup {NoWorld}
    /\ pg \in World /\ ~pg.land /\ ~pg.rest
    /\ baseline \in BOOLEAN
    /\ pc \in {"idle", "chunk", "tick", "settle", "save", "saveArrival",
               "saveFull"}
    /\ remaining \in Nat
    /\ chunk \in [own : BOOLEAN, todo : Nat, upto : Nat, ticked : BOOLEAN,
                  saved : BOOLEAN]
    /\ dirty \in BOOLEAN /\ full \in BOOLEAN
    /\ timing \in [dirty : BOOLEAN, full : BOOLEAN]
    /\ unpersisted \in BOOLEAN
    /\ snap \in World \cup {NoWorld}
    /\ active \in Companies
    /\ sess \in [Companies ->
                    [pc : {"off", "clock", "install", "missions", "settle"},
                     from : Nat, to : Nat, read : World \cup {NoWorld}]]
    /\ cmd \in [Cmds -> [pc : {"off", "install", "run", "slice", "roster"},
                         world : World \cup {NoWorld}]]
    /\ lastSeen \in [Companies -> Nat]
    /\ billed \in [Companies -> SUBSET Nat]
    /\ rebilled \in [Companies -> SUBSET Nat]
    /\ forgiven \in [Companies -> SUBSET Nat]
    /\ faults \in Nat
    /\ opens \in Nat
    /\ commands \in Nat

\* Between pulses, whatever a pulse left in RAM that Postgres does not have
\* is flagged, so that the next pulse saves it: what the comment on
\* economyUnpersisted promises.
UnsavedIsFlagged ==
    pc = "idle" /\ ram # NoWorld /\ (ram.land \/ ram.rest) => unpersisted

\* Once the watermark is past a day, that day was charged, or was waived by
\* the offline cap or by a settlement that threw.
NoDaySkipped ==
    \A c \in Companies :
        DaysCrossed(StartTick, lastSeen[c]) \subseteq billed[c] \cup forgiven[c]

\* Every batch the wall clock owes is in the end simulated and persisted,
\* whatever clock commands put back into RAM and into Postgres meanwhile.
BacklogPersisted == \A t \in 1 .. MaxTick : (wall >= t) ~> (pg.batch >= t)

\* No company is charged twice for the same economy day.
BilledOnce == \A c \in Companies : rebilled[c] = {}
=============================================================================
