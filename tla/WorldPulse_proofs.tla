--------------------------- MODULE WorldPulse_proofs ---------------------------
(***************************************************************************)
(* Proofs about WorldPulse, for every set of companies and every bound.    *)
(***************************************************************************)
EXTENDS WorldPulse, Integers, TLAPS

-----------------------------------------------------------------------------
(* Economy days.                                                           *)

\* A product of naturals is a natural.
LEMMA ProductNat ==
    ASSUME NEW n \in Nat \ {0}, NEW k \in Nat
    PROVE  n * k \in Nat
BY Z3

\* What the prover needs to know of \div: quotient and remainder.
LEMMA Division ==
    ASSUME NEW n \in Nat \ {0}, NEW a \in Nat
    PROVE  /\ a \div n \in Nat
           /\ a = n * (a \div n) + (a % n)
           /\ a % n \in 0 .. (n - 1)
BY Z3

\* A later tick is never on an earlier economy day.
LEMMA DayMonotone ==
    ASSUME NEW a \in Nat, NEW b \in Nat, a <= b
    PROVE  /\ EconomyDay(a) \in Nat
           /\ EconomyDay(b) \in Nat
           /\ EconomyDay(a) <= EconomyDay(b)
<1> DEFINE n == TicksPerDay
           x == a \div n
           y == b \div n
<1>0. n \in Nat \ {0}
    BY PulseAssumption
<1>1. x \in Nat /\ y \in Nat /\ n * x <= a /\ b <= n * y + (n - 1)
    BY <1>0, Division, Z3
<1>2. SUFFICES ASSUME ~(x <= y) PROVE FALSE
    BY <1>1 DEF EconomyDay
<1> DEFINE k == x - (y + 1)
<1>3. k \in Nat /\ x = y + 1 + k
    BY <1>1, <1>2
<1> HIDE DEF n, x, y, k
<1>4. n * x = n * y + n + n * k
    BY <1>0, <1>1, <1>3, Z3
<1>5. n * k \in Nat /\ n * y \in Nat /\ n * x \in Nat
    BY <1>0, <1>1, <1>3, ProductNat
<1> QED
    BY <1>0, <1>1, <1>4, <1>5

\* The economy day of a tick is a natural.
LEMMA DayNat ==
    ASSUME NEW a \in Nat
    PROVE  EconomyDay(a) \in Nat
BY DayMonotone

-----------------------------------------------------------------------------
(* The planets: every copy of the clock is past the first tick and owes    *)
(* the wall clock nothing negative.                                        *)

Session == [pc : {"off", "clock", "install", "missions", "settle"},
            from : Nat, to : Nat, read : World \cup {NoWorld}]
Command == [pc : {"off", "install", "run", "slice", "roster"},
            world : World \cup {NoWorld}]
CatchUp == [own : BOOLEAN, todo : Nat, upto : Nat, ticked : BOOLEAN,
            saved : BOOLEAN]
Timing == [dirty : BOOLEAN, full : BOOLEAN]

Fit(w) == w \in World /\ StartTick <= w.tick /\ w.batch <= wall

PlanetInv ==
    /\ Fit(pg)
    /\ ram # NoWorld => Fit(ram)
    /\ Saving => Fit(snap)
    /\ \A k \in Cmds : cmd[k].pc # "off" => Fit(cmd[k].world)
    /\ \A c \in Companies : sess[c].pc = "install" => Fit(sess[c].read)
    /\ \A c \in Companies :
         sess[c].pc \in {"missions", "settle"} => StartTick <= sess[c].to
    /\ chunk.upto <= wall
    /\ pc = "tick" /\ chunk.own => ram # NoWorld

PulseInv == TypeOK /\ PlanetInv

\* No request in progress is a state of a session, a command, a chunk.
LEMMA IdleTyped ==
    /\ IdleSession \in Session
    /\ IdleCommand \in Command
    /\ NoChunk \in CatchUp
    /\ NoTiming \in Timing
BY DEF IdleSession, IdleCommand, NoChunk, NoTiming, Session, Command, CatchUp,
       Timing

\* A planet put on the clock of another keeps the other's bounds.
LEMMA AtClockFit ==
    ASSUME NEW w \in World, NEW v, Fit(v)
    PROVE  /\ Fit(AtClock(w, v))
           /\ AtClock(w, v).land = w.land
           /\ AtClock(w, v).rest = w.rest
BY DEF Fit, AtClock, World

\* What an acknowledgement leaves in RAM is a planet.
LEMMA AcknowledgedFit ==
    ASSUME PulseInv, NEW v, Fit(v)
    PROVE  Fit(Acknowledged(v)) /\ Acknowledged(v) # NoWorld
<1>1. CASE ram = NoWorld
    BY <1>1, NoWorldAssumption DEF Acknowledged, Fit
<1>2. CASE ram # NoWorld
    <2>1. ram \in World
        BY <1>2 DEF PulseInv, PlanetInv, Fit
    <2> QED
        BY <1>2, <2>1, AtClockFit, NoWorldAssumption DEF Acknowledged, Fit
<1> QED
    BY <1>1, <1>2

\* What a chunk leaves in RAM is a planet, or nothing if it was dropped.
LEMMA FinishedFit ==
    ASSUME PulseInv, NEW landed \in BOOLEAN, NEW healed \in BOOLEAN
    PROVE  /\ ram = NoWorld => Finished(landed, healed) = NoWorld
           /\ ram # NoWorld =>
                /\ Fit(Finished(landed, healed))
                /\ Finished(landed, healed).land = (ram.land \/ landed)
                /\ Finished(landed, healed).rest = (ram.rest \/ healed)
<1>1. CASE ram = NoWorld
    BY <1>1 DEF Finished
<1>2. CASE ram # NoWorld
    <2> DEFINE b == IF chunk.own THEN chunk.upto ELSE ram.batch
    <2>1. ram \in World /\ StartTick <= ram.tick /\ ram.batch <= wall
        BY <1>2 DEF PulseInv, PlanetInv, Fit
    <2>2. b \in Nat /\ b <= wall
        <3>1. chunk.upto \in Nat /\ chunk.upto <= wall
            BY DEF PulseInv, TypeOK, PlanetInv
        <3> QED
            BY <2>1, <3>1 DEF World
    <2>3. Finished(landed, healed) =
              [ram EXCEPT !.batch = b, !.land = @ \/ landed, !.rest = @ \/ healed]
        BY <1>2 DEF Finished
    <2> HIDE DEF b
    <2> QED
        BY <1>2, <2>1, <2>2, <2>3 DEF Fit, World
<1> QED
    BY <1>1, <1>2

\* A settlement keeps the watermark and the ledger of every company typed.
LEMMA SettleFeesTyped ==
    ASSUME TypeOK, NEW charged, NEW threw, NEW to \in Nat, NEW fallback \in Nat,
           SettleFees(charged, threw, to, fallback)
    PROVE  /\ lastSeen' \in [Companies -> Nat]
           /\ billed' \in [Companies -> SUBSET Nat]
           /\ rebilled' \in [Companies -> SUBSET Nat]
           /\ forgiven' \in [Companies -> SUBSET Nat]
<1>1. \A c \in Companies : FromTick(c, fallback) \in Nat
    BY DEF TypeOK, FromTick
<1>2. \A f \in Nat : DaysCrossed(f, to) \in SUBSET Nat
    BY DayNat DEF DaysCrossed
<1>3. \A f \in Nat : DaysCharged(f, to) \in SUBSET Nat
    BY <1>2 DEF DaysCharged
<1> QED
    BY <1>1, <1>2, <1>3 DEF TypeOK, SettleFees


\* The host opens a planet that satisfies the invariant.
LEMMA PulseInvInit == Init => PulseInv
<1> SUFFICES ASSUME Init PROVE PulseInv
    OBVIOUS
<1>1. Fit(pg) /\ ~pg.land /\ ~pg.rest
    BY PulseAssumption DEF Init, World, Fit
<1>2. sess \in [Companies -> Session] /\ cmd \in [Cmds -> Command]
    BY IdleTyped DEF Init
<1>3. TypeOK
    BY <1>1, <1>2, IdleTyped, PulseAssumption
       DEF Init, TypeOK, Session, Command, CatchUp, Timing, Fit
<1>4. PlanetInv
    BY <1>1, PulseAssumption
       DEF Init, PlanetInv, Saving, IdleCommand, IdleSession, NoChunk
<1> QED
    BY <1>3, <1>4 DEF PulseInv

\* The end of a pulse leaves nothing of it behind that could break the
\* invariant, whatever planet is then in RAM and in Postgres.
LEMMA PulseEndsInv ==
    ASSUME PulseInv, PulseEnds, UNCHANGED <<wall, feeVars, sessVars, cmdVars>>,
           pg' = pg \/ (Fit(pg') /\ ~pg'.land /\ ~pg'.rest),
           ram' = ram \/ ram' = NoWorld \/ Fit(ram'),
           baseline' \in BOOLEAN, unpersisted' \in BOOLEAN, faults' \in Nat
    PROVE  PulseInv'
<1>1. TypeOK'
    <2>1. chunk' \in CatchUp /\ timing' \in Timing
        BY IdleTyped DEF PulseEnds
    <2> QED
        BY <2>1 DEF PulseInv, TypeOK, PulseEnds, Fit, CatchUp, Timing,
                    feeVars, sessVars, cmdVars
<1>2. PlanetInv'
    BY DEF PulseInv, TypeOK, PlanetInv, PulseEnds, Fit, Saving, NoChunk,
           feeVars, sessVars, cmdVars
<1> QED
    BY <1>1, <1>2 DEF PulseInv

\* A chunk, from its load to its settlement.
LEMMA PulseInvChunk ==
    ASSUME PulseInv,
           \/ WallClock
           \/ \E n \in PulseSizes : BeginPulse(n)
           \/ \E world, saved : LoadChunk(world, saved) /\ saved \in BOOLEAN
           \/ TickOnce
           \/ \E landed, healed \in BOOLEAN : FinishChunk(landed, healed)
    PROVE  PulseInv'
<1> USE DEF PulseInv
<1>1. CASE WallClock
    BY <1>1, PulseAssumption
       DEF WallClock, TypeOK, PlanetInv, Fit, World, Saving, pulseVars,
           storeVars, feeVars, sessVars, cmdVars
<1>2. ASSUME NEW n \in PulseSizes, BeginPulse(n) PROVE PulseInv'
    <2>1. TypeOK'
        BY <1>2, PulseAssumption
           DEF BeginPulse, TypeOK, storeVars, feeVars, sessVars, cmdVars
    <2>2. PlanetInv'
        BY <1>2 DEF BeginPulse, PlanetInv, Fit, Saving, storeVars, sessVars,
                    cmdVars
    <2> QED
        BY <2>1, <2>2
<1>3. ASSUME NEW world, NEW saved \in BOOLEAN, LoadChunk(world, saved)
      PROVE  PulseInv'
    <2>1. Fit(world) /\ world # NoWorld
        BY <1>3, NoWorldAssumption DEF LoadChunk, Loadable, PlanetInv, Fit
    <2> DEFINE owed == Lesser(Chunk, wall - world.batch)
    <2>2. owed \in Nat /\ world.batch + owed <= wall /\ world.batch \in Nat
        BY <2>1, PulseAssumption DEF TypeOK, Fit, World, Chunk, Lesser
    <2>3. chunk' = [own |-> TRUE, todo |-> owed, upto |-> world.batch + owed,
                    ticked |-> FALSE, saved |-> saved]
        BY <1>3 DEF LoadChunk
    <2> HIDE DEF owed
    <2>4. chunk' \in CatchUp /\ chunk'.upto <= wall
        BY <2>2, <2>3 DEF CatchUp
    <2>5. TypeOK'
        BY <1>3, <2>1, <2>4
           DEF LoadChunk, TypeOK, Fit, CatchUp, feeVars, sessVars, cmdVars
    <2>6. PlanetInv'
        BY <1>3, <2>1, <2>4
           DEF LoadChunk, PlanetInv, Fit, Saving, sessVars, cmdVars
    <2> QED
        BY <2>5, <2>6
<1>4. CASE TickOnce
    <2>0. /\ chunk \in CatchUp /\ chunk.todo - 1 \in Nat
          /\ pc = "tick" /\ wall' = wall
        BY <1>4 DEF TickOnce, TypeOK, CatchUp
    <2>1. /\ chunk' \in CatchUp
          /\ chunk'.upto = chunk.upto
          /\ chunk'.own = chunk.own
        BY <1>4, <2>0 DEF TickOnce, CatchUp
    <2>2. (ram # NoWorld => Fit(ram')) /\ (ram = NoWorld => ram' = ram)
        <3>1. CASE ram = NoWorld
            BY <1>4, <2>0, <3>1 DEF TickOnce, PlanetInv
        <3>2. CASE ram # NoWorld
            <4>1. /\ ram \in World /\ StartTick <= ram.tick
                  /\ ram.batch <= wall /\ ram.tick + 1 \in Nat
                BY <3>2 DEF PlanetInv, Fit, World
            <4>2. /\ ram' \in World /\ ram'.batch = ram.batch
                  /\ ram'.tick \in {ram.tick, ram.tick + 1}
                BY <1>4, <4>1 DEF TickOnce, World
            <4>3. StartTick <= ram'.tick
                BY <4>1, <4>2, PulseAssumption DEF World
            <4> QED
                BY <2>0, <3>2, <4>1, <4>2, <4>3 DEF Fit
        <3> QED
            BY <3>1, <3>2
    <2>3. (ram # NoWorld) <=> (ram' # NoWorld)
        BY <2>2, NoWorldAssumption DEF Fit
    <2>4. TypeOK'
        BY <1>4, <2>1, <2>2
           DEF TickOnce, TypeOK, Fit, CatchUp, feeVars, sessVars, cmdVars
    <2>5. PlanetInv'
        BY <1>4, <2>1, <2>2, <2>3
           DEF TickOnce, PlanetInv, Fit, Saving, sessVars, cmdVars
    <2> QED
        BY <2>4, <2>5
<1>5. ASSUME NEW landed \in BOOLEAN, NEW healed \in BOOLEAN,
             FinishChunk(landed, healed)
      PROVE  PulseInv'
    <2>1. ram' = NoWorld \/ Fit(ram')
        BY <1>5, FinishedFit DEF FinishChunk
    <2>2. timing' \in Timing
        BY <1>5 DEF FinishChunk, Timing, TypeOK
    <2>3. TypeOK'
        BY <1>5, <2>1, <2>2, IdleTyped
           DEF FinishChunk, TypeOK, Fit, CatchUp, Timing, feeVars, sessVars,
               cmdVars
    <2>4. PlanetInv'
        BY <1>5, <2>1
           DEF FinishChunk, TypeOK, PlanetInv, Fit, Saving, NoChunk, sessVars,
               cmdVars
    <2> QED
        BY <2>3, <2>4
<1> QED
    BY <1>1, <1>2, <1>3, <1>4, <1>5

\* A settlement of the pulse, whichever companies it charges.
LEMMA PulseInvSettle ==
    ASSUME PulseInv, NEW charged, NEW threw, SettleCompanies(charged, threw),
           faults' \in Nat
    PROVE  PulseInv'
<1> USE DEF PulseInv
<1>1. Chunk \in Nat /\ remaining - Chunk \in Nat
    BY PulseAssumption DEF TypeOK, Chunk, Lesser
<1>2. /\ lastSeen' \in [Companies -> Nat]
      /\ billed' \in [Companies -> SUBSET Nat]
      /\ rebilled' \in [Companies -> SUBSET Nat]
      /\ forgiven' \in [Companies -> SUBSET Nat]
    <2>1. CASE ram = NoWorld
        BY <2>1 DEF SettleCompanies, TypeOK, feeVars
    <2>2. CASE ram # NoWorld
        <3>1. ram.tick \in Nat
            BY <2>2 DEF PlanetInv, Fit, World
        <3>2. (IF ram.tick > Chunk THEN ram.tick - Chunk ELSE 0) \in Nat
            BY <1>1, <3>1
        <3> QED
            BY <2>2, <3>1, <3>2, SettleFeesTyped DEF SettleCompanies
    <2> QED
        BY <2>1, <2>2
<1>3. dirty' \in BOOLEAN /\ full' \in BOOLEAN /\ timing' \in Timing
    BY IdleTyped DEF SettleCompanies, TypeOK
<1>4. TypeOK'
    BY <1>1, <1>2, <1>3
       DEF SettleCompanies, TypeOK, Timing, storeVars, sessVars, cmdVars
<1>5. PlanetInv'
    BY DEF SettleCompanies, PlanetInv, Fit, Saving, storeVars, sessVars, cmdVars
<1> QED
    BY <1>4, <1>5

\* The save of a pulse, and what ends a pulse early.
LEMMA PulseInvSave ==
    ASSUME PulseInv,
           \/ QuietPulse
           \/ TakeSnapshot
           \/ SaveLands
           \/ \E landed, healed \in BOOLEAN : ChunkThrows(landed, healed)
           \/ \E landed \in BOOLEAN : SaveFails(landed)
           \/ Crash
    PROVE  PulseInv'
<1> USE DEF PulseInv
<1>1. CASE QuietPulse
    BY <1>1, PulseEndsInv DEF QuietPulse, TypeOK, storeVars
<1>2. CASE TakeSnapshot
    <2>1. Fit(snap')
        BY <1>2 DEF TakeSnapshot, PlanetInv, storeVars, Fit
    <2>2. TypeOK'
        BY <1>2, <2>1
           DEF TakeSnapshot, TypeOK, Fit, storeVars, feeVars, sessVars, cmdVars
    <2>3. PlanetInv'
        BY <1>2, <2>1
           DEF TakeSnapshot, PlanetInv, Fit, Saving, storeVars, sessVars, cmdVars
    <2> QED
        BY <2>2, <2>3
<1>3. ASSUME Saving
      PROVE  /\ Fit(AtClock(pg, snap))
             /\ ~AtClock(pg, snap).land
             /\ ~AtClock(pg, snap).rest
    BY <1>3, AtClockFit DEF TypeOK, PlanetInv
<1>4. CASE SaveLands
    <2>1. pg' = AtClock(pg, snap) /\ Saving
        BY <1>4 DEF SaveLands
    <2>2. ram' = NoWorld \/ Fit(ram')
        <3>1. CASE ram = NoWorld
            BY <1>4, <3>1 DEF SaveLands
        <3>2. CASE ram # NoWorld
            <4>1. ram \in World /\ Fit(snap) /\ Fit(AtClock(ram, snap))
                BY <1>4, <3>2, AtClockFit DEF SaveLands, PlanetInv, Fit
            <4> QED
                BY <1>4, <3>2, <4>1 DEF SaveLands, Fit, World
        <3> QED
            BY <3>1, <3>2
    <2>3. /\ Fit(pg') /\ ~pg'.land /\ ~pg'.rest
        BY <1>3, <2>1 DEF Fit
    <2>4. /\ PulseEnds /\ UNCHANGED <<wall, feeVars, sessVars, cmdVars>>
          /\ baseline' \in BOOLEAN /\ unpersisted' \in BOOLEAN /\ faults' \in Nat
        BY <1>4 DEF SaveLands, TypeOK
    <2> QED
        BY <2>2, <2>3, <2>4, PulseEndsInv
<1>5. ASSUME NEW landed \in BOOLEAN, NEW healed \in BOOLEAN,
             ChunkThrows(landed, healed)
      PROVE  PulseInv'
    <2>1. ram' = ram \/ ram' = NoWorld \/ Fit(ram')
        BY <1>5, FinishedFit DEF ChunkThrows
    <2>2. /\ PulseEnds /\ UNCHANGED <<wall, feeVars, sessVars, cmdVars, pg>>
          /\ baseline' \in BOOLEAN /\ unpersisted' \in BOOLEAN /\ faults' \in Nat
        BY <1>5 DEF ChunkThrows, PulseFails, TypeOK
    <2> QED
        BY <2>1, <2>2, PulseEndsInv
<1>6. ASSUME NEW landed \in BOOLEAN, SaveFails(landed) PROVE PulseInv'
    <2>1. pg' = pg \/ (Fit(pg') /\ ~pg'.land /\ ~pg'.rest)
        BY <1>3, <1>6 DEF SaveFails
    <2>2. /\ PulseEnds /\ UNCHANGED <<wall, feeVars, sessVars, cmdVars>>
          /\ ram' = NoWorld
          /\ baseline' \in BOOLEAN /\ unpersisted' \in BOOLEAN /\ faults' \in Nat
        BY <1>6 DEF SaveFails, PulseFails, TypeOK
    <2> QED
        BY <2>1, <2>2, PulseEndsInv
<1>7. CASE Crash
    <2>1. /\ sess' = [c \in Companies |-> IdleSession]
          /\ cmd' = [k \in Cmds |-> IdleCommand]
          /\ chunk' = NoChunk /\ timing' = NoTiming
        BY <1>7 DEF Crash, PulseEnds
    <2>2. /\ sess' \in [Companies -> Session]
          /\ cmd' \in [Cmds -> Command]
          /\ chunk' \in CatchUp /\ timing' \in Timing
        BY <2>1, IdleTyped
    <2>3. TypeOK'
        <3>1. /\ ram' = NoWorld /\ snap' = NoWorld /\ pc' = "idle"
              /\ remaining' = 0 /\ baseline' = FALSE /\ unpersisted' = FALSE
              /\ dirty' = FALSE /\ full' = FALSE /\ faults' \in Nat
              /\ UNCHANGED <<wall, pg, feeVars, active, opens, commands>>
            BY <1>7 DEF Crash, PulseEnds, TypeOK
        <3> QED
            BY <2>2, <3>1 DEF TypeOK, feeVars, Session, Command, CatchUp, Timing
    <2>4. PlanetInv'
        BY <1>7, <2>1
           DEF Crash, PulseEnds, TypeOK, PlanetInv, Fit, Saving, IdleSession,
               IdleCommand, NoChunk
    <2> QED
        BY <2>3, <2>4
<1> QED
    BY <1>1, <1>2, <1>4, <1>5, <1>6, <1>7

\* A step of a command that leaves the planets fit, a command typed and its
\* clone fit keeps the invariant.
LEMMA CommandFrame ==
    ASSUME PulseInv, NEW k \in Cmds,
           UNCHANGED <<wall, pc, remaining, dirty, full, timing, unpersisted,
                       snap, feeVars, sessVars>>,
           baseline' \in BOOLEAN, faults' \in Nat, commands' \in Nat,
           Fit(pg') /\ ~pg'.land /\ ~pg'.rest,
           ram' = ram \/ ram' = NoWorld \/ Fit(ram'),
           \/ chunk' = chunk /\ (ram' = NoWorld => ram = NoWorld)
           \/ chunk' = Orphaned,
           NEW q \in Command, cmd' = [cmd EXCEPT ![k] = q],
           q.pc # "off" => Fit(q.world)
    PROVE  PulseInv'
<1> USE DEF PulseInv
<1>1. chunk' \in CatchUp /\ chunk'.upto = chunk.upto
      /\ (chunk' = Orphaned => ~chunk'.own)
      /\ (chunk' = chunk \/ chunk' = Orphaned)
    BY DEF TypeOK, CatchUp, Orphaned
<1>2. cmd' \in [Cmds -> Command]
    BY DEF TypeOK, Command
<1>3. TypeOK'
    BY <1>1, <1>2 DEF TypeOK, Fit, CatchUp, Command, feeVars, sessVars
<1>4. \A j \in Cmds : cmd'[j].pc # "off" => Fit(cmd'[j].world)
    BY DEF TypeOK, PlanetInv
<1>5. PlanetInv'
    <2>1. wall' = wall
        OBVIOUS
    <2>2. (ram' # NoWorld => Fit(ram')) /\ (Saving' => Fit(snap'))
        BY DEF PlanetInv, Saving
    <2>3. pc' = "tick" /\ chunk'.own => ram' # NoWorld
        <3>1. ASSUME pc = "tick", chunk'.own PROVE ram' # NoWorld
            <4>1. chunk' = chunk /\ (ram' = NoWorld => ram = NoWorld)
                BY <1>1, <3>1
            <4> QED
                BY <3>1, <4>1 DEF PlanetInv
        <3> QED
            BY <3>1
    <2>4. sess' = sess
        BY DEF sessVars
    <2> QED
        BY <1>1, <1>4, <2>1, <2>2, <2>3, <2>4 DEF PlanetInv, Fit
<1> QED
    BY <1>3, <1>5

\* A command, from its load to its last acknowledgement.
LEMMA PulseInvCommand ==
    ASSUME PulseInv, NEW k \in Cmds,
           \/ ServeRam(k)
           \/ ReadPlanet(k)
           \/ CommandStep(k)
           \/ \E landed \in BOOLEAN : CommandFails(k, landed)
    PROVE  PulseInv'
<1> USE DEF PulseInv
<1> DEFINE w == cmd[k].world
<1>1. /\ cmd[k] \in Command
      /\ cmd[k].pc # "off" => Fit(w) /\ w \in World /\ w # NoWorld
      /\ Fit(pg) /\ pg \in World /\ ~pg.land /\ ~pg.rest
      /\ baseline \in BOOLEAN /\ faults + 1 \in Nat /\ commands + 1 \in Nat
      /\ faults \in Nat /\ commands \in Nat
    BY NoWorldAssumption DEF TypeOK, Command, PlanetInv, Fit
<1>2. IdleCommand \in Command /\ IdleCommand.pc = "off"
    BY IdleTyped DEF IdleCommand
<1>3. ASSUME cmd[k].pc # "off"
      PROVE  /\ Fit(AtClock(pg, w))
             /\ ~AtClock(pg, w).land /\ ~AtClock(pg, w).rest
             /\ Fit(Acknowledged(w)) /\ Acknowledged(w) # NoWorld
    BY <1>1, <1>3, AtClockFit, AcknowledgedFit
<1>4. ASSUME NEW p \in {"off", "install", "run", "slice", "roster"},
             NEW v \in World, Fit(v)
      PROVE  /\ [pc |-> p, world |-> v] \in Command
             /\ [pc |-> p, world |-> v].world = v
    BY DEF Command
<1>5. ASSUME NEW p \in {"off", "install", "run", "slice", "roster"}
      PROVE  /\ [cmd[k] EXCEPT !.pc = p] \in Command
             /\ [cmd[k] EXCEPT !.pc = p].world = w
    BY <1>1 DEF Command
<1> HIDE DEF w
<1>6. CASE ServeRam(k)
    <2> DEFINE q == [pc |-> "run", world |-> ram]
    <2>1. Fit(ram) /\ ram \in World
        BY <1>6 DEF ServeRam, PlanetInv, Fit
    <2>2. q \in Command /\ q.world = ram
        BY <1>4, <2>1
    <2>3. cmd' = [cmd EXCEPT ![k] = q]
        BY <1>6 DEF ServeRam
    <2> HIDE DEF q
    <2>4. /\ UNCHANGED <<wall, pulseVars, storeVars, feeVars, sessVars, faults>>
          /\ commands' \in Nat
        BY <1>1, <1>6 DEF ServeRam, StartCommand
    <2>5. Fit(pg') /\ ~pg'.land /\ ~pg'.rest
        BY <1>1, <2>4 DEF storeVars, Fit
    <2> QED
        BY <1>1, <2>1, <2>2, <2>3, <2>4, <2>5, CommandFrame
           DEF pulseVars, storeVars
<1>7. CASE ReadPlanet(k)
    <2> DEFINE q == [pc |-> "install", world |-> pg]
    <2>1. q \in Command /\ q.world = pg
        BY <1>1, <1>4
    <2>2. cmd' = [cmd EXCEPT ![k] = q]
        BY <1>7 DEF ReadPlanet
    <2> HIDE DEF q
    <2>3. /\ UNCHANGED <<wall, pulseVars, storeVars, feeVars, sessVars, faults>>
          /\ commands' \in Nat
        BY <1>1, <1>7 DEF ReadPlanet, StartCommand
    <2>4. Fit(pg') /\ ~pg'.land /\ ~pg'.rest
        BY <1>1, <2>3 DEF storeVars, Fit
    <2> QED
        BY <1>1, <2>1, <2>2, <2>3, <2>4, CommandFrame
           DEF pulseVars, storeVars
<1>8. ASSUME NEW saved \in BOOLEAN, InstallPlanet(k, saved) PROVE PulseInv'
    <2> DEFINE q == [cmd[k] EXCEPT !.pc = "run"]
    <2>1. q \in Command /\ q.world = w
        BY <1>5
    <2>2. cmd' = [cmd EXCEPT ![k] = q]
        BY <1>8 DEF InstallPlanet
    <2>3. Fit(w) /\ w # NoWorld /\ ram' = w
          /\ (pg' = pg \/ pg' = AtClock(pg, w))
        BY <1>1, <1>8 DEF InstallPlanet, w
    <2>4. Fit(pg') /\ ~pg'.land /\ ~pg'.rest
        BY <1>1, <1>3, <1>8, <2>3 DEF InstallPlanet, Fit
    <2> HIDE DEF q
    <2> QED
        BY <1>1, <1>8, <2>1, <2>2, <2>3, <2>4, CommandFrame
           DEF InstallPlanet, pulseVars
<1>9. CASE PublishSlice(k)
    <2> DEFINE q == [cmd[k] EXCEPT !.pc = "slice"]
    <2>1. q \in Command /\ q.world = w
        BY <1>5
    <2>2. cmd' = [cmd EXCEPT ![k] = q]
        BY <1>9 DEF PublishSlice
    <2>3. Fit(w) /\ ram' = Acknowledged(w) /\ ram' # NoWorld /\ Fit(ram')
        BY <1>1, <1>3, <1>9 DEF PublishSlice, w, Fit
    <2> HIDE DEF q
    <2> QED
        BY <1>1, <1>9, <2>1, <2>2, <2>3, CommandFrame
           DEF PublishSlice, pulseVars
<1>10. CASE SavePlanet(k)
    <2>1. /\ pg' = AtClock(pg, w)
          /\ ram' = [w EXCEPT !.land = FALSE, !.rest = FALSE]
          /\ cmd[k].pc # "off"
        BY <1>10 DEF SavePlanet, w
    <2>2. Fit(pg') /\ ~pg'.land /\ ~pg'.rest
        BY <1>3, <2>1 DEF Fit
    <2>3. Fit(ram') /\ ram' # NoWorld
        BY <1>1, <2>1, NoWorldAssumption DEF Fit, World
    <2> QED
        BY <1>1, <1>2, <1>10, <2>2, <2>3, CommandFrame
           DEF SavePlanet, pulseVars
<1>11. CASE SaveNpcLive(k)
    <2>1. /\ pg' = AtClock(pg, w) /\ ram' = Acknowledged(w)
          /\ cmd[k].pc # "off"
        BY <1>11 DEF SaveNpcLive, w
    <2>2. Fit(pg') /\ ~pg'.land /\ ~pg'.rest /\ Fit(ram') /\ ram' # NoWorld
        BY <1>3, <2>1 DEF Fit
    <2> QED
        BY <1>1, <1>2, <1>11, <2>2, CommandFrame
           DEF SaveNpcLive, pulseVars
<1>12. CASE EndCommand(k)
    BY <1>1, <1>2, <1>12, CommandFrame
       DEF EndCommand, pulseVars, storeVars
<1>13. ASSUME NEW contract \in BOOLEAN, AckSlice(k, contract) PROVE PulseInv'
    <2>1. /\ ram' = Acknowledged(w) /\ cmd[k].pc # "off"
        BY <1>13 DEF AckSlice, w
    <2>2. Fit(ram') /\ ram' # NoWorld
        BY <1>3, <2>1 DEF Fit
    <2>3. PICK q \in Command : /\ cmd' = [cmd EXCEPT ![k] = q]
                               /\ q.pc # "off" => q.world = w
        <3>1. CASE contract
            BY <1>5, <1>13, <3>1 DEF AckSlice
        <3>2. CASE ~contract
            BY <1>2, <1>13, <3>2 DEF AckSlice
        <3> QED
            BY <3>1, <3>2
    <2> QED
        BY <1>1, <1>13, <2>1, <2>2, <2>3, CommandFrame
           DEF AckSlice, pulseVars
<1>14. CASE AckRoster(k)
    <2>1. /\ pg' = AtClock(pg, w) /\ cmd[k].pc # "off"
          /\ ram' = (IF ram = NoWorld THEN w ELSE ram)
        BY <1>14 DEF AckRoster, w
    <2>2. Fit(pg') /\ ~pg'.land /\ ~pg'.rest
        BY <1>3, <2>1 DEF Fit
    <2>3. (ram' = ram \/ Fit(ram')) /\ ram' # NoWorld
        BY <1>1, <2>1
    <2> QED
        BY <1>1, <1>2, <1>14, <2>2, <2>3, CommandFrame
           DEF AckRoster, pulseVars
<1>15. ASSUME NEW landed \in BOOLEAN, CommandFails(k, landed) PROVE PulseInv'
    <2>1. (pg' = pg \/ pg' = AtClock(pg, w)) /\ cmd[k].pc # "off"
        BY <1>15 DEF CommandFails, w
    <2>2. Fit(pg') /\ ~pg'.land /\ ~pg'.rest
        BY <1>1, <1>3, <1>15, <2>1 DEF CommandFails, Fit
    <2>3. /\ UNCHANGED <<wall, pc, remaining, dirty, full, timing, unpersisted,
                         snap, baseline, feeVars, sessVars, commands>>
          /\ ram' = NoWorld /\ chunk' = Orphaned /\ faults' \in Nat
          /\ cmd' = [cmd EXCEPT ![k] = IdleCommand]
        BY <1>1, <1>15 DEF CommandFails
    <2> QED
        BY <1>1, <1>2, <2>2, <2>3, CommandFrame
<1> QED
    BY <1>6, <1>7, <1>8, <1>9, <1>10, <1>11, <1>12, <1>13, <1>14, <1>15
       DEF CommandStep

\* A session/open, from its activation to its settlement.
LEMMA PulseInvSession ==
    ASSUME PulseInv, NEW c \in Companies, SessionStep(c)
    PROVE  PulseInv'
<1> USE DEF PulseInv
<1>0. /\ sess \in [Companies -> Session] /\ sess[c] \in Session
      /\ active \in Companies /\ sess[c].from \in Nat
    BY DEF TypeOK, Session
<1>1. CASE OpenSession(c)
    <2>1. sess' \in [Companies -> Session]
        BY <1>0, <1>1, IdleTyped DEF OpenSession, TypeOK, Session
    <2>2. \A d \in Companies : sess'[d] = sess[d] \/ sess'[d].pc = "clock"
        BY <1>0, <1>1 DEF OpenSession, IdleSession
    <2>3. TypeOK'
        BY <1>1, <2>1
           DEF OpenSession, TypeOK, Session, pulseVars, storeVars, feeVars,
               cmdVars
    <2>4. PlanetInv'
        BY <1>1, <2>2
           DEF OpenSession, PlanetInv, Fit, Saving, pulseVars, storeVars, cmdVars
    <2> QED
        BY <2>3, <2>4
<1>2. CASE ReadClock(c)
    <2>1. /\ sess' \in [Companies -> Session]
          /\ sess'[c].pc = "install" => Fit(sess'[c].read)
          /\ sess'[c].pc \in {"missions", "settle"} => StartTick <= sess'[c].to
        <3>1. CASE ram = NoWorld
            BY <1>0, <1>2, <3>1 DEF ReadClock, TypeOK, PlanetInv, Session, Fit
        <3>2. CASE ram # NoWorld
            BY <1>0, <1>2, <3>2
               DEF ReadClock, TypeOK, PlanetInv, Session, Fit, World
        <3> QED
            BY <3>1, <3>2
    <2>2. \A d \in Companies : d # c => sess'[d] = sess[d]
        BY <1>0, <1>2 DEF ReadClock
    <2>3. TypeOK'
        BY <1>2, <2>1
           DEF ReadClock, TypeOK, Session, pulseVars, storeVars, feeVars, cmdVars
    <2>4. PlanetInv'
        <3>1. \A d \in Companies : sess'[d].pc = "install" => Fit(sess'[d].read)
            BY <2>1, <2>2 DEF PlanetInv
        <3>2. \A d \in Companies :
                sess'[d].pc \in {"missions", "settle"} => StartTick <= sess'[d].to
            BY <2>1, <2>2 DEF PlanetInv
        <3> QED
            BY <1>2, <3>1, <3>2
               DEF ReadClock, PlanetInv, Fit, Saving, pulseVars, storeVars,
                   cmdVars
    <2> QED
        BY <2>3, <2>4
<1>3. ASSUME NEW saved \in BOOLEAN, InstallClock(c, saved) PROVE PulseInv'
    <2>1. Fit(sess[c].read) /\ sess[c].read \in World
        BY <1>3 DEF InstallClock, PlanetInv, Fit
    <2>2. ram' = sess[c].read /\ ram' # NoWorld
        BY <1>3, <2>1, NoWorldAssumption DEF InstallClock
    <2>3. Fit(pg') /\ ~pg'.land /\ ~pg'.rest
        BY <1>3, <2>1, AtClockFit DEF InstallClock, TypeOK, PlanetInv, Fit
    <2>4. /\ sess' \in [Companies -> Session]
          /\ sess'[c].pc = "missions" /\ StartTick <= sess'[c].to
        BY <1>0, <1>3, <2>1 DEF InstallClock, Session, Fit, World
    <2>5. \A d \in Companies : d # c => sess'[d] = sess[d]
        BY <1>0, <1>3 DEF InstallClock
    <2>6. chunk' \in CatchUp /\ chunk'.upto = chunk.upto
        BY <1>3 DEF InstallClock, TypeOK, CatchUp, Orphaned
    <2>7. TypeOK'
        BY <1>3, <2>1, <2>2, <2>3, <2>4, <2>6
           DEF InstallClock, TypeOK, Session, CatchUp, Fit, feeVars, cmdVars
    <2>8. PlanetInv'
        <3>1. \A d \in Companies : sess'[d].pc = "install" => Fit(sess'[d].read)
            BY <2>4, <2>5 DEF PlanetInv
        <3>2. \A d \in Companies :
                sess'[d].pc \in {"missions", "settle"} => StartTick <= sess'[d].to
            BY <2>4, <2>5 DEF PlanetInv
        <3> QED
            BY <1>3, <2>1, <2>2, <2>3, <2>6, <3>1, <3>2
               DEF InstallClock, PlanetInv, Fit, Saving, cmdVars
    <2> QED
        BY <2>7, <2>8
<1>4. CASE ReadWatermark(c)
    <2>1. FromTick(active, sess[c].from) \in Nat
        BY <1>0 DEF TypeOK, FromTick
    <2>2. /\ sess' \in [Companies -> Session]
          /\ sess'[c].pc = "off" \/ (/\ sess'[c].pc = "settle"
                                     /\ sess'[c].to = sess[c].to)
        BY <1>0, <1>4, <2>1, IdleTyped DEF ReadWatermark, Session, IdleSession
    <2>3. \A d \in Companies : d # c => sess'[d] = sess[d]
        BY <1>0, <1>4 DEF ReadWatermark
    <2>4. TypeOK'
        BY <1>4, <2>2
           DEF ReadWatermark, TypeOK, pulseVars, storeVars, feeVars, cmdVars,
               Session
    <2>5. PlanetInv'
        BY <1>4, <2>2, <2>3
           DEF ReadWatermark, PlanetInv, Fit, Saving, pulseVars, storeVars,
               cmdVars
    <2> QED
        BY <2>4, <2>5
<1>5. CASE SettleSession(c)
    <2>1. /\ lastSeen' \in [Companies -> Nat]
          /\ billed' \in [Companies -> SUBSET Nat]
          /\ rebilled' \in [Companies -> SUBSET Nat]
          /\ forgiven' \in [Companies -> SUBSET Nat]
        <3>1. CASE ram = NoWorld
            BY <1>5, <3>1 DEF SettleSession, TypeOK, feeVars
        <3>2. CASE ram # NoWorld
            BY <1>0, <1>5, <3>2, SettleFeesTyped DEF SettleSession, Session
        <3> QED
            BY <3>1, <3>2
    <2>2. /\ sess' \in [Companies -> Session]
          /\ \A d \in Companies : sess'[d] = sess[d] \/ sess'[d].pc = "off"
        BY <1>0, <1>5, IdleTyped DEF SettleSession, IdleSession
    <2>3. TypeOK'
        BY <1>5, <2>1, <2>2
           DEF SettleSession, TypeOK, pulseVars, storeVars, cmdVars, Session
    <2>4. PlanetInv'
        BY <1>5, <2>2
           DEF SettleSession, PlanetInv, Fit, Saving, pulseVars, storeVars,
               cmdVars
    <2> QED
        BY <2>3, <2>4
<1> QED
    BY <1>1, <1>2, <1>3, <1>4, <1>5 DEF SessionStep

\* Every chunk, settlement, save, fault, command and session step keeps the
\* types and the bounds of every planet.
LEMMA PulseInvNext == PulseInv /\ [Next]_vars => PulseInv'
<1> SUFFICES ASSUME PulseInv, [Next]_vars PROVE PulseInv'
    OBVIOUS
<1>1. CASE SettleAll \/ \E c \in Companies, advanced \in BOOLEAN :
                            SettleSome(c, advanced)
    <2>0. faults \in Nat /\ faults + 1 \in Nat
        BY DEF PulseInv, TypeOK
    <2>1. faults' \in Nat
        BY <1>1, <2>0 DEF SettleAll, SettleSome
    <2> QED
        BY <1>1, <2>1, PulseInvSettle DEF SettleAll, SettleSome
<1>2. CASE UNCHANGED vars
    BY <1>2 DEF vars, PulseInv, TypeOK, PlanetInv, Fit, Saving, pulseVars,
                storeVars, feeVars, sessVars, cmdVars
<1> QED
    BY <1>1, <1>2, PulseInvChunk, PulseInvSave, PulseInvCommand,
       PulseInvSession, Zenon
       DEF Next, PulseStep, Fault

\* Types and bounds, along every behaviour.
LEMMA PulseInvariant == Spec => []PulseInv
BY PulseInvInit, PulseInvNext, PTL DEF Spec

\* Every variable keeps its kind, whatever faults and interleavings occur; in
\* particular no chunk is ever owed a negative number of ticks.
THEOREM PulseTypeCorrect == Spec => []TypeOK
BY PulseInvariant, PTL DEF PulseInv

-----------------------------------------------------------------------------
(* What the flags promise, as long as no chunk throws and no command fails *)
(* to save.                                                                *)

Tainted(w) == w.land \/ w.rest

FlagInv ==
    /\ pc # "settle" => ~timing.dirty /\ ~timing.full
    /\ pc # "tick" => ~chunk.ticked
    /\ pc \notin {"idle", "chunk"} => ram # NoWorld
    /\ pc # "idle" /\ unpersisted => dirty /\ full
    /\ pc = "idle" /\ ram # NoWorld /\ Tainted(ram) => unpersisted
    /\ pc # "idle" /\ ram # NoWorld /\ Tainted(ram) =>
         dirty \/ timing.dirty \/ chunk.ticked
    /\ pc # "idle" /\ ram # NoWorld /\ ram.rest =>
         full \/ timing.full \/ chunk.ticked
    /\ pc = "saveArrival" => ~ram.rest
    /\ \A k \in Cmds : cmd[k].pc = "install" => ~Tainted(cmd[k].world)
    /\ \A k \in Cmds : cmd[k].pc # "off" /\ Tainted(cmd[k].world)
                       /\ ram = NoWorld => unpersisted
    /\ \A c \in Companies : sess[c].pc = "install" => ~Tainted(sess[c].read)

\* The steps of a chunk report whatever they change in RAM.
LEMMA FlagInvChunk ==
    ASSUME PulseInv, FlagInv,
           \/ \E n \in PulseSizes : BeginPulse(n)
           \/ \E world, saved : LoadChunk(world, saved) /\ saved \in BOOLEAN
           \/ TickOnce
           \/ \E landed, healed \in BOOLEAN : FinishChunk(landed, healed)
           \/ \E charged, threw : SettleCompanies(charged, threw)
    PROVE  FlagInv'
<1>0. /\ pg \in World /\ ~Tainted(pg)
      /\ ram # NoWorld => ram \in World
      /\ dirty \in BOOLEAN /\ full \in BOOLEAN /\ unpersisted \in BOOLEAN
      /\ chunk \in CatchUp /\ timing \in Timing
    BY DEF PulseInv, TypeOK, PlanetInv, Fit, CatchUp, Timing, Tainted
<1>1. ASSUME NEW n \in PulseSizes, BeginPulse(n) PROVE FlagInv'
    BY <1>0, <1>1 DEF BeginPulse, FlagInv, Tainted, storeVars, sessVars, cmdVars
<1>2. ASSUME NEW world, NEW saved \in BOOLEAN, LoadChunk(world, saved)
      PROVE  FlagInv'
    <2>1. world # NoWorld /\ (world = ram \/ (world = pg /\ ~Tainted(world)))
        BY <1>0, <1>2, NoWorldAssumption DEF LoadChunk, Loadable
    <2>2. ~chunk'.ticked
        BY <1>2 DEF LoadChunk
    <2>3. ram # NoWorld \/ ~Tainted(world)
        BY <2>1
    <2> QED
        BY <1>0, <1>2, <2>1, <2>2, <2>3
           DEF LoadChunk, FlagInv, Tainted, sessVars, cmdVars
<1>3. CASE TickOnce
    <2>1. chunk'.ticked
        BY <1>0, <1>3 DEF TickOnce, CatchUp
    <2>2. ram # NoWorld /\ ram' # NoWorld
        <3>1. ram # NoWorld /\ ram.tick + 1 \in Nat
            BY <1>0, <1>3 DEF TickOnce, FlagInv, World
        <3>2. ram' \in World
            BY <1>0, <1>3, <3>1 DEF TickOnce, World
        <3> QED
            BY <3>1, <3>2, NoWorldAssumption
    <2> QED
        BY <1>0, <1>3, <2>1, <2>2
           DEF TickOnce, FlagInv, Tainted, sessVars, cmdVars
<1>4. ASSUME NEW landed \in BOOLEAN, NEW healed \in BOOLEAN,
             FinishChunk(landed, healed)
      PROVE  FlagInv'
    <2>1. /\ ram # NoWorld /\ ram' \in World
          /\ ram'.land = (ram.land \/ landed)
          /\ ram'.rest = (ram.rest \/ healed)
        BY <1>4, FinishedFit DEF FinishChunk, FlagInv, Fit
    <2>2. /\ timing'.dirty = (chunk.ticked \/ chunk.saved \/ landed \/ healed)
          /\ timing'.full = (chunk.ticked \/ chunk.saved \/ healed)
          /\ ~chunk'.ticked /\ ram' # NoWorld /\ pc' = "settle"
        BY <1>4, <2>1, NoWorldAssumption DEF FinishChunk, NoChunk
    <2>3. Tainted(ram') => dirty \/ timing'.dirty
        BY <1>4, <2>1, <2>2 DEF FinishChunk, FlagInv, Tainted
    <2>4. ram'.rest => full \/ timing'.full
        BY <1>4, <2>1, <2>2 DEF FinishChunk, FlagInv
    <2> QED
        BY <1>4, <2>1, <2>2, <2>3, <2>4
           DEF FinishChunk, FlagInv, sessVars, cmdVars, Tainted
<1>5. ASSUME NEW charged, NEW threw, SettleCompanies(charged, threw)
      PROVE  FlagInv'
    <2>1. /\ ram' = ram /\ chunk' = chunk /\ pc = "settle"
          /\ pc' \in {"chunk", "save"}
          /\ dirty' = (dirty \/ timing.dirty) /\ full' = (full \/ timing.full)
          /\ ~timing'.dirty /\ ~timing'.full
          /\ unpersisted' = unpersisted /\ sess' = sess /\ cmd' = cmd
        BY <1>5 DEF SettleCompanies, storeVars, sessVars, cmdVars, NoTiming
    <2> QED
        BY <1>0, <2>1 DEF FlagInv, Tainted
<1> QED
    BY <1>1, <1>2, <1>3, <1>4, <1>5

\* A save clears what it wrote, and a failed one raises the flag.
LEMMA FlagInvSave ==
    ASSUME PulseInv, FlagInv,
           \/ QuietPulse
           \/ TakeSnapshot
           \/ SaveLands
           \/ \E landed \in BOOLEAN : SaveFails(landed)
           \/ Crash
    PROVE  FlagInv'
<1>0. /\ ram # NoWorld => ram \in World
      /\ dirty \in BOOLEAN /\ full \in BOOLEAN /\ unpersisted \in BOOLEAN
      /\ cmd \in [Cmds -> Command] /\ sess \in [Companies -> Session]
    BY DEF PulseInv, TypeOK, PlanetInv, Fit, Command, Session
<1>1. CASE QuietPulse
    <2>1. /\ pc' = "idle" /\ ram' = ram /\ ram # NoWorld /\ ~dirty
          /\ pc = "save" /\ cmd' = cmd /\ sess' = sess /\ unpersisted' = FALSE
          /\ ~timing'.dirty /\ ~timing'.full /\ ~chunk'.ticked
        BY <1>1 DEF QuietPulse, PulseEnds, FlagInv, storeVars, sessVars, cmdVars,
                    NoTiming, NoChunk
    <2> QED
        BY <1>0, <2>1 DEF FlagInv, Tainted
<1>2. CASE TakeSnapshot
    <2>1. /\ pc' \in {"saveArrival", "saveFull"} /\ ram' = ram /\ ram # NoWorld
          /\ pc' = "saveArrival" => ~full
          /\ pc = "save" /\ cmd' = cmd /\ sess' = sess /\ timing' = timing
          /\ UNCHANGED <<chunk, unpersisted, dirty, full>>
        BY <1>2 DEF TakeSnapshot, ArrivalOnly, storeVars, sessVars, cmdVars
    <2> QED
        BY <1>0, <2>1 DEF FlagInv, Tainted
<1>3. CASE SaveLands
    <2>1. /\ pc' = "idle" /\ cmd' = cmd /\ sess' = sess /\ unpersisted' = FALSE
          /\ ~timing'.dirty /\ ~timing'.full /\ ~chunk'.ticked
        BY <1>3 DEF SaveLands, PulseEnds, sessVars, cmdVars, NoTiming, NoChunk
    <2>2. ram \in World /\ ram # NoWorld /\ AtClock(ram, snap) \in World
        BY <1>0, <1>3, AtClockFit
           DEF SaveLands, Saving, FlagInv, PulseInv, PlanetInv, Fit
    <2>3. /\ ram' = [AtClock(ram, snap) EXCEPT
                        !.land = FALSE, !.rest = @ /\ pc = "saveArrival"]
          /\ Fit(snap) /\ pc \in {"saveArrival", "saveFull"}
        BY <1>3, <2>2 DEF SaveLands, Saving, PulseInv, PlanetInv
    <2>4. AtClock(ram, snap).rest = ram.rest
        BY <2>2, <2>3, AtClockFit
    <2>5. pc = "saveArrival" => ~ram.rest
        BY DEF FlagInv
    <2>6. ram' \in World /\ ~ram'.land /\ ~ram'.rest
        BY <2>2, <2>3, <2>4, <2>5 DEF World
    <2> QED
        BY <1>0, <2>1, <2>6, NoWorldAssumption DEF FlagInv, Tainted
<1>4. ASSUME NEW landed \in BOOLEAN, SaveFails(landed) PROVE FlagInv'
    <2>1. /\ pc' = "idle" /\ cmd' = cmd /\ sess' = sess /\ unpersisted' = TRUE
          /\ ~timing'.dirty /\ ~timing'.full /\ ~chunk'.ticked
          /\ ram' = NoWorld
        BY <1>4 DEF SaveFails, PulseFails, PulseEnds, sessVars, cmdVars,
                    NoTiming, NoChunk
    <2> QED
        BY <2>1 DEF FlagInv, Tainted
<1>5. CASE Crash
    <2>1. /\ pc' = "idle" /\ ram' = NoWorld
          /\ ~timing'.dirty /\ ~timing'.full /\ ~chunk'.ticked
          /\ \A k \in Cmds : cmd'[k].pc = "off"
          /\ \A c \in Companies : sess'[c].pc = "off"
        BY <1>5 DEF Crash, PulseEnds, NoTiming, NoChunk, IdleCommand, IdleSession
    <2> QED
        BY <2>1 DEF FlagInv, Tainted
<1> QED
    BY <1>1, <1>2, <1>3, <1>4, <1>5

\* A command that puts into RAM its clone, live RAM on its clone's clock, or
\* a planet as Postgres has it leaves the flags right.
LEMMA FlagInvFrame ==
    ASSUME PulseInv, FlagInv, NEW k \in Cmds, NEW q \in Command,
           UNCHANGED <<pc, dirty, full, timing, unpersisted, chunk, sess>>,
           cmd' = [cmd EXCEPT ![k] = q],
           q.pc = "install" => ~Tainted(q.world),
           q.pc # "off" =>
             \/ ~Tainted(q.world)
             \/ cmd[k].pc # "off" /\ q.world = cmd[k].world
             \/ ram # NoWorld,
           \/ ram' = ram
           \/ ram' # NoWorld /\ ~Tainted(ram')
           \/ /\ ram # NoWorld /\ ram' # NoWorld
              /\ ram'.land = ram.land /\ ram'.rest = ram.rest
           \/ /\ ram = NoWorld /\ ram' # NoWorld
              /\ cmd[k].pc # "off" /\ ram' = cmd[k].world
    PROVE  FlagInv'
<1>1. /\ \A j \in Cmds : j # k => cmd'[j] = cmd[j]
      /\ cmd'[k] = q
    BY DEF PulseInv, TypeOK
<1>2. ram = NoWorld /\ ram' # NoWorld /\ Tainted(ram') => unpersisted
    BY DEF FlagInv
<1>3. ram' = NoWorld => ram = NoWorld
    OBVIOUS
<1>4. /\ pc = "idle" /\ ram' # NoWorld /\ Tainted(ram') => unpersisted
      /\ pc # "idle" /\ ram' # NoWorld /\ Tainted(ram') =>
           dirty \/ timing.dirty \/ chunk.ticked
      /\ pc # "idle" /\ ram' # NoWorld /\ ram'.rest =>
           full \/ timing.full \/ chunk.ticked
    BY <1>2 DEF FlagInv, Tainted
<1>5. pc = "saveArrival" => ~ram'.rest
    BY DEF FlagInv, Tainted
<1>6. /\ \A j \in Cmds : cmd'[j].pc = "install" => ~Tainted(cmd'[j].world)
      /\ \A j \in Cmds : cmd'[j].pc # "off" /\ Tainted(cmd'[j].world)
                         /\ ram' = NoWorld => unpersisted
    BY <1>1, <1>3 DEF FlagInv
<1> QED
    BY <1>3, <1>4, <1>5, <1>6, Zenon DEF FlagInv

\* A command whose saves land leaves the flags right.
LEMMA FlagInvCommand ==
    ASSUME PulseInv, FlagInv, NEW k \in Cmds,
           ServeRam(k) \/ ReadPlanet(k) \/ CommandStep(k)
    PROVE  FlagInv'
<1> DEFINE w == cmd[k].world
<1>1. /\ cmd[k] \in Command
      /\ cmd[k].pc # "off" => Fit(w) /\ w \in World /\ w # NoWorld
      /\ pg \in World /\ ~Tainted(pg)
      /\ ram # NoWorld => ram \in World
    BY NoWorldAssumption DEF PulseInv, TypeOK, Command, PlanetInv, Fit, Tainted
<1>2. IdleCommand \in Command /\ IdleCommand.pc = "off"
    BY IdleTyped DEF IdleCommand
<1>3. ASSUME cmd[k].pc # "off"
      PROVE  /\ Acknowledged(w) # NoWorld
             /\ ram = NoWorld => Acknowledged(w) = w
             /\ ram # NoWorld => /\ Acknowledged(w).land = ram.land
                                 /\ Acknowledged(w).rest = ram.rest
    BY <1>1, <1>3, AtClockFit, AcknowledgedFit DEF Acknowledged
<1>4. ASSUME NEW p \in {"off", "install", "run", "slice", "roster"},
             NEW v \in World
      PROVE  /\ [pc |-> p, world |-> v] \in Command
             /\ [pc |-> p, world |-> v].world = v
             /\ [pc |-> p, world |-> v].pc = p
    BY DEF Command
<1>5. ASSUME NEW p \in {"off", "install", "run", "slice", "roster"}
      PROVE  /\ [cmd[k] EXCEPT !.pc = p] \in Command
             /\ [cmd[k] EXCEPT !.pc = p].world = w
             /\ [cmd[k] EXCEPT !.pc = p].pc = p
    BY <1>1 DEF Command
<1> HIDE DEF w
<1>6. CASE ServeRam(k)
    <2> DEFINE q == [pc |-> "run", world |-> ram]
    <2>1. ram # NoWorld /\ q \in Command /\ q.pc = "run"
        BY <1>1, <1>4, <1>6 DEF ServeRam
    <2>2. /\ cmd' = [cmd EXCEPT ![k] = q] /\ ram' = ram
          /\ UNCHANGED <<pc, dirty, full, timing, unpersisted, chunk, sess>>
        BY <1>6 DEF ServeRam, StartCommand, pulseVars, storeVars, sessVars
    <2> HIDE DEF q
    <2> QED
        BY <2>1, <2>2, FlagInvFrame
<1>7. CASE ReadPlanet(k)
    <2> DEFINE q == [pc |-> "install", world |-> pg]
    <2>1. ~Tainted(q.world) /\ q \in Command
        BY <1>1, <1>4
    <2>2. /\ cmd' = [cmd EXCEPT ![k] = q] /\ ram' = ram
          /\ UNCHANGED <<pc, dirty, full, timing, unpersisted, chunk, sess>>
        BY <1>7 DEF ReadPlanet, StartCommand, pulseVars, storeVars, sessVars
    <2> HIDE DEF q
    <2> QED
        BY <2>1, <2>2, FlagInvFrame
<1>8. ASSUME NEW saved \in BOOLEAN, InstallPlanet(k, saved) PROVE FlagInv'
    <2> DEFINE q == [cmd[k] EXCEPT !.pc = "run"]
    <2>1. q \in Command /\ q.world = w /\ q.pc = "run"
        BY <1>5
    <2>2. /\ cmd' = [cmd EXCEPT ![k] = q] /\ ram' = w
          /\ cmd[k].pc = "install" /\ w = cmd[k].world
          /\ UNCHANGED <<pc, dirty, full, timing, unpersisted, chunk, sess>>
        BY <1>8 DEF InstallPlanet, pulseVars, sessVars, w
    <2>3. w # NoWorld /\ ~Tainted(w)
        BY <1>1, <2>2 DEF FlagInv
    <2> HIDE DEF q
    <2> QED
        BY <2>1, <2>2, <2>3, FlagInvFrame
<1>9. CASE PublishSlice(k)
    <2> DEFINE q == [cmd[k] EXCEPT !.pc = "slice"]
    <2>1. q \in Command /\ q.world = w /\ q.pc = "slice"
        BY <1>5
    <2>2. /\ cmd' = [cmd EXCEPT ![k] = q] /\ ram' = Acknowledged(w)
          /\ cmd[k].pc = "run" /\ w = cmd[k].world
          /\ UNCHANGED <<pc, dirty, full, timing, unpersisted, chunk, sess>>
        BY <1>9 DEF PublishSlice, pulseVars, sessVars, w
    <2> HIDE DEF q
    <2> QED
        BY <1>3, <2>1, <2>2, FlagInvFrame
<1>10. CASE SavePlanet(k)
    <2>1. /\ ram' = [w EXCEPT !.land = FALSE, !.rest = FALSE]
          /\ cmd[k].pc = "run" /\ cmd' = [cmd EXCEPT ![k] = IdleCommand]
          /\ UNCHANGED <<pc, dirty, full, timing, unpersisted, chunk, sess>>
        BY <1>10 DEF SavePlanet, pulseVars, sessVars, w
    <2>2. ram' # NoWorld /\ ~Tainted(ram')
        BY <1>1, <2>1, NoWorldAssumption DEF World, Tainted
    <2> QED
        BY <1>2, <2>1, <2>2, FlagInvFrame
<1>11. CASE SaveNpcLive(k)
    <2>1. /\ cmd' = [cmd EXCEPT ![k] = IdleCommand] /\ ram' = Acknowledged(w)
          /\ cmd[k].pc = "run" /\ w = cmd[k].world
          /\ UNCHANGED <<pc, dirty, full, timing, unpersisted, chunk, sess>>
        BY <1>11 DEF SaveNpcLive, pulseVars, sessVars, w
    <2> QED
        BY <1>2, <1>3, <2>1, FlagInvFrame
<1>12. CASE EndCommand(k)
    <2>1. /\ cmd' = [cmd EXCEPT ![k] = IdleCommand] /\ ram' = ram
          /\ UNCHANGED <<pc, dirty, full, timing, unpersisted, chunk, sess>>
        BY <1>12 DEF EndCommand, pulseVars, storeVars, sessVars
    <2> QED
        BY <1>2, <2>1, FlagInvFrame
<1>13. ASSUME NEW contract \in BOOLEAN, AckSlice(k, contract) PROVE FlagInv'
    <2>1. /\ ram' = Acknowledged(w)
          /\ cmd[k].pc = "slice" /\ w = cmd[k].world
          /\ UNCHANGED <<pc, dirty, full, timing, unpersisted, chunk, sess>>
        BY <1>13 DEF AckSlice, pulseVars, sessVars, w
    <2>2. PICK q \in Command : /\ cmd' = [cmd EXCEPT ![k] = q]
                               /\ q.pc # "install"
                               /\ q.pc # "off" => q.world = w
        <3>1. CASE contract
            BY <1>5, <1>13, <3>1 DEF AckSlice
        <3>2. CASE ~contract
            BY <1>2, <1>13, <3>2 DEF AckSlice
        <3> QED
            BY <3>1, <3>2
    <2> QED
        BY <1>3, <2>1, <2>2, FlagInvFrame
<1>14. CASE AckRoster(k)
    <2>1. /\ cmd' = [cmd EXCEPT ![k] = IdleCommand]
          /\ ram' = (IF ram = NoWorld THEN w ELSE ram)
          /\ cmd[k].pc = "roster" /\ w = cmd[k].world
          /\ UNCHANGED <<pc, dirty, full, timing, unpersisted, chunk, sess>>
        BY <1>14 DEF AckRoster, pulseVars, sessVars, w
    <2> QED
        BY <1>1, <1>2, <2>1, FlagInvFrame
<1> QED
    BY <1>6, <1>7, <1>8, <1>9, <1>10, <1>11, <1>12, <1>13, <1>14
       DEF CommandStep

\* A session/open puts into RAM what Postgres had, or nothing.
LEMMA FlagInvSession ==
    ASSUME PulseInv, FlagInv, NEW c \in Companies, SessionStep(c)
    PROVE  FlagInv'
<1>0. /\ sess \in [Companies -> Session] /\ pg \in World /\ ~Tainted(pg)
    BY DEF PulseInv, TypeOK, Session, Tainted
<1>1. ASSUME NEW saved \in BOOLEAN, InstallClock(c, saved) PROVE FlagInv'
    <2>1. /\ ram' = sess[c].read /\ sess[c].pc = "install"
          /\ chunk' = Orphaned /\ cmd' = cmd
          /\ UNCHANGED <<pc, dirty, full, timing, unpersisted>>
          /\ \A d \in Companies : sess'[d] = sess[d] \/ sess'[d].pc = "missions"
        BY <1>0, <1>1 DEF InstallClock, cmdVars, Session
    <2>2. ram' # NoWorld /\ ~Tainted(ram')
        BY <2>1, NoWorldAssumption DEF FlagInv, PulseInv, PlanetInv, Fit
    <2>3. chunk'.ticked = chunk.ticked
        BY <2>1 DEF Orphaned, PulseInv, TypeOK
    <2> QED
        BY <2>1, <2>2, <2>3 DEF FlagInv, Tainted
<1>2. CASE ~ \E saved \in BOOLEAN : InstallClock(c, saved)
    <2>1. /\ UNCHANGED <<ram, chunk, cmd, pc, dirty, full, timing, unpersisted>>
          /\ \A d \in Companies :
               \/ sess'[d] = sess[d]
               \/ sess'[d].pc # "install"
               \/ ~Tainted(sess'[d].read)
        <3>1. CASE OpenSession(c)
            BY <1>0, <3>1
               DEF OpenSession, IdleSession, pulseVars, storeVars, cmdVars
        <3>2. CASE ReadClock(c)
            BY <1>0, <3>2 DEF ReadClock, Session, pulseVars, storeVars, cmdVars
        <3>3. CASE ReadWatermark(c)
            BY <1>0, <3>3 DEF ReadWatermark, Session, IdleSession, pulseVars,
                              storeVars, cmdVars
        <3>4. CASE SettleSession(c)
            BY <1>0, <3>4
               DEF SettleSession, IdleSession, pulseVars, storeVars, cmdVars
        <3> QED
            BY <1>2, <3>1, <3>2, <3>3, <3>4 DEF SessionStep
    <2> QED
        BY <2>1 DEF FlagInv, Tainted
<1> QED
    BY <1>1, <1>2

\* No step without a chunk or a command that fails loses track of what RAM
\* holds unsaved.
LEMMA FlagInvNext ==
    ASSUME "chunk" \notin Faults, "command" \notin Faults
    PROVE  PulseInv /\ FlagInv /\ [Next]_vars => FlagInv'
<1> SUFFICES ASSUME PulseInv, FlagInv, [Next]_vars PROVE FlagInv'
    OBVIOUS
<1>1. CASE WallClock
    BY <1>1 DEF WallClock, FlagInv, Tainted, pulseVars, storeVars, sessVars,
                cmdVars
<1>2. CASE UNCHANGED vars
    BY <1>2 DEF vars, FlagInv, Tainted, pulseVars, storeVars, sessVars, cmdVars
<1>3. ASSUME NEW landed, NEW healed PROVE ~ChunkThrows(landed, healed)
    BY DEF ChunkThrows, MayFault
<1>4. ASSUME NEW k, NEW landed PROVE ~CommandFails(k, landed)
    BY DEF CommandFails, MayFault
<1>5. ASSUME SettleAll \/ \E c \in Companies, advanced \in BOOLEAN :
                              SettleSome(c, advanced)
      PROVE  \E charged, threw : SettleCompanies(charged, threw)
    BY <1>5, Zenon DEF SettleAll, SettleSome
<1> QED
    BY <1>1, <1>2, <1>3, <1>4, <1>5, FlagInvChunk, FlagInvSave, FlagInvCommand,
       FlagInvSession, Zenon
       DEF Next, PulseStep, Fault

\* Between pulses, unsaved pulse work in RAM is flagged, as long as no chunk
\* throws and no command fails to save: failed saves of the pulse, failed
\* settlements, restarts, and any number of commands and sessions in flight
\* are included.
THEOREM PulseUnsavedIsFlagged ==
    ASSUME "chunk" \notin Faults, "command" \notin Faults
    PROVE  Spec => []UnsavedIsFlagged
<1>1. Init => FlagInv
    BY DEF Init, FlagInv, Tainted, NoTiming, NoChunk, IdleCommand, IdleSession
<1>2. PulseInv /\ FlagInv /\ [Next]_vars => FlagInv'
    BY FlagInvNext
<1>3. FlagInv => UnsavedIsFlagged
    BY DEF FlagInv, UnsavedIsFlagged, Tainted
<1> QED
    BY <1>1, <1>2, <1>3, PulseInvariant, PTL DEF Spec

-----------------------------------------------------------------------------
(* The fee watermark: no day is passed over in silence.                    *)

WatermarkInv ==
    /\ \A c \in Companies : StartTick <= lastSeen[c]
    /\ NoDaySkipped

\* A settlement up to any tick keeps every day below the watermark charged or
\* forgiven: the window starts where the previous one ended.
LEMMA SettleKeepsDays ==
    ASSUME TypeOK, StartTick > 0, NEW charged, NEW threw,
           NEW to \in Nat, StartTick <= to, NEW fallback \in Nat,
           \A c \in Companies : StartTick <= lastSeen[c],
           NoDaySkipped,
           SettleFees(charged, threw, to, fallback)
    PROVE  /\ \A c \in Companies : StartTick <= lastSeen'[c]
           /\ NoDaySkipped'
<1>1. StartTick \in Nat
    BY PulseAssumption
<1>2. \A c \in Companies : FromTick(c, fallback) = lastSeen[c]
    BY <1>1 DEF FromTick, TypeOK
<1>3. ASSUME NEW c \in Companies
      PROVE  DaysCrossed(StartTick, lastSeen'[c]) \subseteq billed'[c] \cup forgiven'[c]
    <2> DEFINE crossed == DaysCrossed(lastSeen[c], to)
               charge == DaysCharged(lastSeen[c], to)
    <2>1. EconomyDay(StartTick) \in Nat /\ EconomyDay(lastSeen[c]) \in Nat
          /\ EconomyDay(to) \in Nat
        BY <1>1, DayNat DEF TypeOK
    <2>2. DaysCrossed(StartTick, lastSeen[c]) \subseteq billed[c] \cup forgiven[c]
        BY DEF NoDaySkipped
    <2>3. billed[c] \subseteq billed'[c] /\ forgiven[c] \subseteq forgiven'[c]
        BY DEF SettleFees
    <2>4. CASE c \notin charged \cup threw
        BY <2>2, <2>3, <2>4 DEF SettleFees
    <2>5. CASE c \in charged \cup threw
        <3>1. lastSeen'[c] = to
            BY <2>5 DEF SettleFees
        <3>2. crossed \subseteq billed'[c] \cup forgiven'[c]
            BY <1>2, <2>5 DEF SettleFees
        <3>3. \A d \in DaysCrossed(StartTick, to) :
                d \in DaysCrossed(StartTick, lastSeen[c]) \/ d \in crossed
            BY <2>1 DEF DaysCrossed
        <3> QED
            BY <2>2, <2>3, <3>1, <3>2, <3>3
    <2> QED
        BY <2>4, <2>5
<1>4. \A c \in Companies : StartTick <= lastSeen'[c]
    BY DEF SettleFees
<1> QED
    BY <1>3, <1>4 DEF NoDaySkipped

\* Every step keeps the days below each watermark accounted for.
LEMMA WatermarkInvNext ==
    ASSUME StartTick > 0
    PROVE  PulseInv /\ WatermarkInv /\ [Next]_vars => WatermarkInv'
<1> SUFFICES ASSUME PulseInv, WatermarkInv, [Next]_vars PROVE WatermarkInv'
    OBVIOUS
<1>0. TypeOK /\ PlanetInv /\ StartTick \in Nat
    BY PulseAssumption DEF PulseInv
<1>1. CASE UNCHANGED feeVars
    BY <1>1 DEF WatermarkInv, NoDaySkipped, feeVars
<1>2. ASSUME NEW charged, NEW threw, SettleCompanies(charged, threw),
             ~UNCHANGED feeVars
      PROVE  WatermarkInv'
    <2>1. ram \in World /\ ram.tick \in Nat /\ StartTick <= ram.tick
        BY <1>0, <1>2 DEF SettleCompanies, PlanetInv, Fit, World
    <2>2. Chunk \in Nat
        BY <1>0, PulseAssumption DEF TypeOK, Chunk, Lesser
    <2>3. (IF ram.tick > Chunk THEN ram.tick - Chunk ELSE 0) \in Nat
        BY <2>1, <2>2
    <2> QED
        BY <1>0, <1>2, <2>1, <2>3, SettleKeepsDays
           DEF SettleCompanies, WatermarkInv
<1>3. ASSUME NEW c \in Companies, SettleSession(c), ~UNCHANGED feeVars
      PROVE  WatermarkInv'
    <2>1. /\ sess[c] \in Session /\ StartTick <= sess[c].to
          /\ sess[c].to \in Nat /\ sess[c].from \in Nat
        BY <1>0, <1>3 DEF SettleSession, PlanetInv, TypeOK, Session
    <2> QED
        BY <1>0, <1>3, <2>1, SettleKeepsDays DEF SettleSession, WatermarkInv
<1>4. \/ UNCHANGED feeVars
      \/ \E charged, threw : SettleCompanies(charged, threw)
      \/ \E c \in Companies : SettleSession(c)
    <2>1. CASE UNCHANGED vars
        BY <2>1 DEF vars
    <2>2. CASE WallClock \/ \E n \in PulseSizes : BeginPulse(n)
        BY <2>2 DEF WallClock, BeginPulse
    <2>3. CASE PulseStep
        BY <2>3, Zenon
           DEF PulseStep, LoadChunk, TickOnce, FinishChunk, SettleAll,
               QuietPulse, TakeSnapshot, SaveLands
    <2>4. CASE Fault
        BY <2>4, Zenon
           DEF Fault, ChunkThrows, PulseFails, SettleSome, SaveFails,
               CommandFails, Crash
    <2>5. ASSUME NEW k \in Cmds,
                 ServeRam(k) \/ ReadPlanet(k) \/ CommandStep(k)
          PROVE  UNCHANGED feeVars
        BY <2>5, Zenon
           DEF ServeRam, ReadPlanet, StartCommand, CommandStep, InstallPlanet,
               PublishSlice, SavePlanet, SaveNpcLive, EndCommand, AckSlice,
               AckRoster
    <2>6. ASSUME NEW c \in Companies, SessionStep(c)
          PROVE  UNCHANGED feeVars \/ SettleSession(c)
        BY <2>6, Zenon
           DEF SessionStep, OpenSession, ReadClock, InstallClock, ReadWatermark
    <2> QED
        BY <2>1, <2>2, <2>3, <2>4, <2>5, <2>6, Zenon DEF Next
<1> QED
    BY <1>1, <1>2, <1>3, <1>4

\* On a world past tick 0, a watermark past a day means the day was charged
\* or waived, through crashes, failed settlements, racing sessions, and
\* commands and reloads that set the clock of RAM and of Postgres back.
THEOREM PulseNoDaySkipped ==
    ASSUME StartTick > 0
    PROVE  Spec => []NoDaySkipped
<1>1. Init => WatermarkInv
    <2> SUFFICES ASSUME Init PROVE WatermarkInv
        OBVIOUS
    <2>1. StartTick \in Nat /\ EconomyDay(StartTick) \in Nat
        BY PulseAssumption, DayNat
    <2>2. DaysCrossed(StartTick, StartTick) = {}
        BY <2>1 DEF DaysCrossed
    <2> QED
        BY <2>1, <2>2 DEF Init, WatermarkInv, NoDaySkipped
<1>2. PulseInv /\ WatermarkInv /\ [Next]_vars => WatermarkInv'
    BY WatermarkInvNext
<1>3. WatermarkInv => NoDaySkipped
    BY DEF WatermarkInv
<1> QED
    BY <1>1, <1>2, <1>3, PulseInvariant, PTL DEF Spec
=============================================================================
