----------------------------- MODULE WriterLease -----------------------------
(***************************************************************************)
(* Two processes on one Postgres world: the API host, with its background  *)
(* pulse and its players' commands, and the stand-alone world worker.  An  *)
(* advisory lock (the world-writer lease) says which of them ticks the     *)
(* clock; the revision of economy_meta refuses a save that was computed    *)
(* from a planet somebody else has changed since.                          *)
(*                                                                         *)
(* A planet is its tick and the commits whose effect it has, each named by *)
(* its author and its revision.  An action is one critical section of a    *)
(* process or one Postgres transaction with its acknowledgement; what the  *)
(* commands and the pulse of one host do to each other is WorldStore's     *)
(* subject.                                                                *)
(***************************************************************************)
EXTENDS Naturals, FiniteSets

CONSTANTS
    Host, Worker, Nobody,
    Modes,        \* how the host may be started, see StartHost
    Attempts,     \* of a worker's pulse on a planet that keeps changing
    NoWorld,      \* ram = null
    Faults,       \* which of "crash", "drop" may happen
    MaxTick,      \* bound: the tick the wall clock asks for
    MaxCommands,  \* bound: commands
    MaxFaults     \* bound: faults

ASSUME LeaseAssumption ==
    /\ Host # Worker /\ Nobody \notin {Host, Worker}
    /\ Modes \subseteq {"world", "full", "external"}
    /\ Attempts \in Nat \ {0}
    /\ Faults \subseteq {"crash", "drop"}
    /\ {MaxTick, MaxCommands, MaxFaults} \subseteq Nat

Processes == {Host, Worker}
World == [tick : Nat, has : SUBSET (Processes \X Nat)]

ASSUME NoWorldAssumption == NoWorld \notin World

Any == 0    \* no expected revision: the row lock only

VARIABLES
    lease,     \* whose Postgres session has the advisory lock
    believes,  \* the host's writerLeaseClient is set
    mode,      \* how the host runs, or "down"
    pulsing,   \* its background pulse was started
    ram, rev,  \* of each process: its planet, the revision it was read at
    pg, pgRev, \* the planet in Postgres, economy_meta.revision
    cmd, clone, \* the host's command: "idle", "run", "sent"; its planet
    tip,       \* the revision its slice expects
    pulse,     \* the snapshot a host pulse is saving, or NoWorld
    worker,    \* the worker: "down", "idle", "load", "save", "defer"
    attempt,   \* of its pulse
    dropped,   \* history: a session that had the lease was dropped
    commands, faults

command == <<cmd, clone, tip>>
hostVars == <<believes, mode, pulsing, command, pulse>>
workerVars == <<worker, attempt>>
ramVars == <<ram, rev>>
pgVars == <<pg, pgRev>>
vars == <<lease, hostVars, ramVars, pgVars, workerVars, dropped, commands,
          faults>>

Init ==
    /\ lease = Nobody
    /\ believes = FALSE /\ mode = "down" /\ pulsing = FALSE
    /\ ram = [p \in Processes |-> NoWorld]
    /\ rev = [p \in Processes |-> 0]
    /\ pg = [tick |-> 0, has |-> {}] /\ pgRev = 1
    /\ cmd = "idle" /\ clone = NoWorld /\ tip = Any /\ pulse = NoWorld
    /\ worker = "down" /\ attempt = 0
    /\ dropped = FALSE /\ commands = 0 /\ faults = 0
-----------------------------------------------------------------------------
(* The store of either process.                                            *)

\* loadEconomy: the planet in RAM if nobody committed since, else Postgres.
Loaded(p) == IF ram[p] # NoWorld /\ rev[p] = pgRev THEN ram[p] ELSE pg

Caches(p, world, revision) ==
    /\ ram' = [ram EXCEPT ![p] = world]
    /\ rev' = [rev EXCEPT ![p] = revision]

Ticked(world) == [world EXCEPT !.tick = @ + 1]
With(world, p) == [world EXCEPT !.has = @ \cup {<<p, pgRev + 1>>}]

\* A transaction of p that writes the world, one revision up.
Commits(p, world) == pgRev' = pgRev + 1 /\ pg' = With(world, p)

\* Mutant: the revision read under the row lock is not compared.
RefusedNever(expected) == expected \notin Nat

\* lockEconomyRevision: another commit came first.
Refused(expected) == expected \notin {Any, pgRev}

\* A process is gone: its RAM, and the lease with its session.
Gone(p) ==
    /\ Caches(p, NoWorld, 0)
    /\ lease' = IF lease = p THEN Nobody ELSE lease
-----------------------------------------------------------------------------
(* The host.                                                               *)

\* Mutant: the pulse is started whether or not the lease was acquired.
StartHostDenied(m) ==
    /\ mode = "down"
    /\ mode' = m
    /\ pulsing' = (m # "external")
    /\ believes' = (m # "external" /\ lease = Nobody)
    /\ lease' = IF m # "external" /\ lease = Nobody THEN Host ELSE lease
    /\ UNCHANGED <<ramVars, pgVars, command, pulse, workerVars, dropped, commands,
                   faults>>

\* "external" leaves the clock to the worker; the others ask for the lease
\* once, and pulse if they get it.
StartHost(m) ==
    /\ mode = "down"
    /\ mode' = m
    /\ pulsing' = (m # "external" /\ lease = Nobody)
    /\ believes' = pulsing'
    /\ lease' = IF pulsing' THEN Host ELSE lease
    /\ UNCHANGED <<ramVars, pgVars, command, pulse, workerVars, dropped, commands,
                   faults>>

\* Before each write a "world" host makes sure that it has the lease.
AsWriter ==
    IF mode = "world" /\ ~believes
    THEN lease = Nobody /\ lease' = Host /\ believes' = TRUE
    ELSE UNCHANGED <<lease, believes>>

\* A command runs on a clone and is published in RAM.
Command ==
    /\ mode # "down" /\ cmd = "idle"
    /\ commands < MaxCommands
    /\ commands' = commands + 1
    /\ AsWriter
    /\ Caches(Host, Loaded(Host), pgRev)
    /\ cmd' = "run" /\ clone' = Loaded(Host)
    /\ UNCHANGED <<mode, pulsing, tip, pulse, pgVars, workerVars, dropped,
                   faults>>

\* persistRevisioned: only a host without the lease expects a revision.
SendSlice ==
    /\ cmd = "run"
    /\ cmd' = "sent"
    /\ tip' = IF believes THEN Any ELSE rev[Host]
    /\ UNCHANGED <<lease, believes, mode, pulsing, clone, ramVars, pgVars,
                   pulse, workerVars, dropped, commands, faults>>

CommandOver == cmd' = "idle" /\ clone' = NoWorld /\ tip' = Any

\* The slice writes its rows as the clone has them, over what the worker made
\* of them since; the clone, with its clock, reaches RAM again.
CommitSlice ==
    /\ cmd = "sent" /\ ~Refused(tip)
    /\ Commits(Host, [pg EXCEPT !.has =
                         {c \in @ : c[1] = Host \/ c \in clone.has}])
    /\ Caches(Host, With(IF ram[Host] = NoWorld THEN clone
                         ELSE [ram[Host] EXCEPT !.tick = clone.tick], Host),
              pgRev + 1)
    /\ CommandOver
    /\ UNCHANGED <<lease, believes, mode, pulsing, pulse, workerVars, dropped,
                   commands, faults>>

\* The client gets a conflict, and the planet is read again next time.
SliceRefused ==
    /\ cmd = "sent" /\ Refused(tip)
    /\ Caches(Host, NoWorld, 0)
    /\ CommandOver
    /\ UNCHANGED <<lease, believes, mode, pulsing, pulse, pgVars, workerVars,
                   dropped, commands, faults>>

\* A chunk of the background pulse: tick live RAM and clone it.
TickHost ==
    /\ pulsing /\ pulse = NoWorld
    /\ Loaded(Host).tick < MaxTick
    /\ AsWriter
    /\ Caches(Host, Ticked(Loaded(Host)), pgRev)
    /\ pulse' = Ticked(Loaded(Host))
    /\ UNCHANGED <<mode, pulsing, command, pgVars, workerVars, dropped,
                   commands, faults>>

\* The snapshot is saved off the lock and never expects a revision; commands
\* that reached live RAM meanwhile are in it.
SavePulse ==
    /\ pulse # NoWorld
    /\ LET live == IF ram[Host] = NoWorld THEN pulse ELSE ram[Host]
           world == [live EXCEPT !.tick = pulse.tick]
       IN  /\ Commits(Host, world)
           /\ Caches(Host, IF ram[Host] = NoWorld THEN NoWorld
                           ELSE With(world, Host), pgRev + 1)
    /\ pulse' = NoWorld
    /\ UNCHANGED <<lease, believes, mode, pulsing, command, workerVars,
                   dropped, commands, faults>>
-----------------------------------------------------------------------------
(* The worker.                                                             *)

Goes(to) == worker' = to
HostUnchanged == UNCHANGED <<hostVars, commands, faults>>

\* It takes the lease for its lifetime, or exits and is started again later.
StartWorker ==
    /\ worker = "down" /\ lease = Nobody
    /\ lease' = Worker
    /\ Goes("load") /\ attempt' = 1
    /\ UNCHANGED <<ramVars, pgVars, dropped>>
    /\ HostUnchanged

\* Load and tick; the planet in RAM is the one that ticks.
WorkerTicks ==
    /\ worker = "load"
    /\ IF Loaded(Worker).tick < MaxTick
       THEN Caches(Worker, Ticked(Loaded(Worker)), pgRev) /\ Goes("save")
       ELSE Caches(Worker, Loaded(Worker), pgRev) /\ Goes("idle")
    /\ UNCHANGED <<lease, pgVars, attempt, dropped>>
    /\ HostUnchanged

WorkerSaves ==
    /\ worker = "save" /\ ~Refused(rev[Worker])
    /\ Commits(Worker, ram[Worker])
    /\ Caches(Worker, With(ram[Worker], Worker), pgRev + 1)
    /\ Goes("idle")
    /\ UNCHANGED <<lease, attempt, dropped>>
    /\ HostUnchanged

\* Mutant: the third conflict is tried again like the others.
WorkerRefusedAgain ==
    /\ worker = "save" /\ Refused(rev[Worker])
    /\ Caches(Worker, NoWorld, 0)
    /\ attempt' = attempt + 1
    /\ Goes("load")
    /\ UNCHANGED <<lease, pgVars, dropped>>
    /\ HostUnchanged

\* The planet changed since: drop it and try again, or put the pulse off.
WorkerRefused ==
    /\ worker = "save" /\ Refused(rev[Worker])
    /\ Caches(Worker, NoWorld, 0)
    /\ IF attempt < Attempts
       THEN attempt' = attempt + 1 /\ Goes("load")
       ELSE UNCHANGED attempt /\ Goes("defer")
    /\ UNCHANGED <<lease, pgVars, dropped>>
    /\ HostUnchanged

WorkerDefers ==
    /\ worker = "defer"
    /\ Caches(Worker, Loaded(Worker), pgRev)
    /\ Goes("idle")
    /\ UNCHANGED <<lease, pgVars, attempt, dropped>>
    /\ HostUnchanged

\* The next pulse is due.
WorkerPulse ==
    /\ worker = "idle"
    /\ Goes("load") /\ attempt' = 1
    /\ UNCHANGED <<lease, ramVars, pgVars, dropped>>
    /\ HostUnchanged

\* Mutant: the lock's session is left open.
StopWorkerLocked ==
    /\ worker = "idle"
    /\ Goes("down") /\ attempt' = 0
    /\ Caches(Worker, NoWorld, 0)
    /\ UNCHANGED <<lease, pgVars, dropped>>
    /\ HostUnchanged

\* SIGTERM, seen between two pulses.
StopWorker ==
    /\ worker = "idle"
    /\ Goes("down") /\ attempt' = 0
    /\ Gone(Worker)
    /\ UNCHANGED <<pgVars, dropped>>
    /\ HostUnchanged
-----------------------------------------------------------------------------
(* Faults.                                                                 *)

MayFault(kind) ==
    /\ kind \in Faults /\ faults < MaxFaults
    /\ faults' = faults + 1

CrashHost ==
    /\ MayFault("crash") /\ mode # "down"
    /\ Gone(Host)
    /\ mode' = "down" /\ believes' = FALSE /\ pulsing' = FALSE
    /\ CommandOver /\ pulse' = NoWorld
    /\ UNCHANGED <<pgVars, workerVars, dropped, commands>>

CrashWorker ==
    /\ MayFault("crash") /\ worker # "down"
    /\ Gone(Worker)
    /\ worker' = "down" /\ attempt' = 0
    /\ UNCHANGED <<hostVars, pgVars, dropped, commands>>

\* Postgres drops the session that has the lock.
DropLease ==
    /\ MayFault("drop") /\ lease # Nobody
    /\ lease' = Nobody /\ dropped' = TRUE
    /\ UNCHANGED <<hostVars, ramVars, pgVars, workerVars, commands>>

\* The host's client reports it.
HostNotices ==
    /\ believes /\ lease # Host
    /\ believes' = FALSE
    /\ UNCHANGED <<lease, mode, pulsing, command, pulse, ramVars, pgVars,
                   workerVars, dropped, commands, faults>>

\* The worker's has no listener for it: the process ends.
WorkerNotices ==
    /\ worker # "down" /\ lease # Worker
    /\ Gone(Worker)
    /\ worker' = "down" /\ attempt' = 0
    /\ UNCHANGED <<hostVars, pgVars, dropped, commands, faults>>
-----------------------------------------------------------------------------
HostStep ==
    \/ SendSlice \/ CommitSlice \/ SliceRefused
    \/ SavePulse \/ HostNotices

WorkerStep ==
    \/ WorkerTicks \/ WorkerSaves \/ WorkerRefused \/ WorkerDefers
    \/ WorkerPulse \/ WorkerNotices

Next ==
    \/ \E m \in Modes : StartHost(m)
    \/ Command \/ TickHost \/ HostStep
    \/ StartWorker \/ StopWorker \/ WorkerStep
    \/ CrashHost \/ CrashWorker \/ DropLease

Spec == Init /\ [][Next]_vars

\* Transactions and timers run in the end, and both containers are restarted
\* unless stopped.
Fairness ==
    /\ WF_vars(\E m \in Modes : StartHost(m)) /\ WF_vars(StartWorker)
    /\ WF_vars(TickHost) /\ WF_vars(HostStep) /\ WF_vars(WorkerStep)

FairSpec == Spec /\ Fairness
-----------------------------------------------------------------------------
(* Properties.                                                             *)

\* No planet in RAM is newer than Postgres, and a worker's pulse is tried a
\* bounded number of times.
TypeOK ==
    /\ lease \in {Host, Worker, Nobody}
    /\ {believes, pulsing, dropped} \subseteq BOOLEAN
    /\ mode \in {"down", "world", "full", "external"}
    /\ ram \in [Processes -> World \cup {NoWorld}]
    /\ rev \in [Processes -> 0..pgRev]
    /\ pg \in World /\ pgRev \in Nat
    /\ cmd \in {"idle", "run", "sent"} /\ tip \in 0..pgRev
    /\ {clone, pulse} \subseteq World \cup {NoWorld}
    /\ worker \in {"down", "idle", "load", "save", "defer"}
    /\ attempt \in 0..Attempts
    /\ commands \in 0..MaxCommands /\ faults \in 0..MaxFaults

\* As long as no session that has the lease is dropped, nothing one process
\* commits is written over from a planet that did not have it: the pulses and
\* the commands of either survive those of the other, their conflicts and
\* their restarts.  (persistRevisioned, lockEconomyRevision)
NothingUndone == [][~dropped => pg.has \subseteq pg'.has]_vars

\* Nor do the worker and the pulse of the host ever tick the world at once.
\* (acquireWorldWriterLease, tryAcquirePulseLock)
OneTicker == ~dropped => ~(pulsing /\ worker # "down")

\* A "world" host that was denied the lease at boot and took it for a command
\* later: the health check passes, and nothing ticks.
Orphaned == mode = "world" /\ believes /\ ~pulsing

\* The wall clock's tick, saved or in the planet the host ticks.
Reached == pg.tick = MaxTick \/ (pulsing /\ Loaded(Host).tick = MaxTick)

\* Through commands, conflicts, restarts, dropped sessions and changes of
\* writer the world reaches the wall clock and stays there, unless the lease
\* is orphaned.
ClockCatchesUp == <>[](Reached \/ Orphaned)

\* A host whose health check says it is the writer ticks the world.
\* (deploy/README.md: "makes the API advance the world even with zero clients")
WriterTicks == ~Orphaned
=============================================================================
