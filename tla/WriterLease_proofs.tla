-------------------------- MODULE WriterLease_proofs --------------------------
(***************************************************************************)
(* Proofs about WriterLease, for any modes, clocks, numbers of commands,   *)
(* attempts and faults.                                                    *)
(***************************************************************************)
EXTENDS WriterLease, TLAPS

\* What TypeOK does not say of the shapes: who has a planet, and when.
Filled ==
    /\ cmd # "idle" => clone \in World /\ mode # "down"
    /\ worker = "save" => ram[Worker] \in World
    /\ \A p \in Processes : ram[p] # NoWorld => rev[p] # Any
    /\ cmd # "sent" => tip = Any
    /\ mode = "down" => cmd = "idle" /\ pulse = NoWorld /\ ~pulsing /\ ~believes
    /\ pgRev # 0

Typed == TypeOK /\ Filled

-----------------------------------------------------------------------------
(* The planets.                                                            *)

LEMMA TwoProcesses ==
    /\ Host \in Processes /\ Worker \in Processes /\ Host # Worker
    /\ Nobody # Host /\ Nobody # Worker
BY LeaseAssumption DEF Processes

LEMMA Shapes ==
    ASSUME TypeOK
    PROVE  /\ ram \in [Processes -> World \cup {NoWorld}]
           /\ rev \in [Processes -> Nat] /\ \A p \in Processes : rev[p] <= pgRev
           /\ pg \in World /\ pgRev \in Nat /\ tip \in Nat /\ tip <= pgRev
           /\ clone \in World \cup {NoWorld} /\ pulse \in World \cup {NoWorld}
           /\ attempt \in Nat /\ attempt <= Attempts
BY LeaseAssumption DEF TypeOK

LEMMA Planets ==
    ASSUME TypeOK, NEW w \in World, NEW p \in Processes
    PROVE  /\ Ticked(w) \in World /\ Ticked(w).has = w.has
           /\ With(w, p) \in World
           /\ With(w, p).has = w.has \cup {<<p, pgRev + 1>>}
           /\ w.tick \in Nat /\ w.has \in SUBSET (Processes \X Nat)
           /\ \A t \in Nat : /\ [w EXCEPT !.tick = t] \in World
                             /\ [w EXCEPT !.tick = t].has = w.has
           /\ \A h \in SUBSET (Processes \X Nat) :
                   /\ [w EXCEPT !.has = h] \in World
                   /\ [w EXCEPT !.has = h].has = h
<1>1. pgRev \in Nat
    BY Shapes
<1>2. <<p, pgRev + 1>> \in Processes \X Nat
    BY <1>1
<1> QED
    BY <1>1, <1>2 DEF World, Ticked, With

LEMMA LoadedWorld ==
    ASSUME TypeOK, NEW p \in Processes
    PROVE  /\ Loaded(p) \in World
           /\ (ram[p] # NoWorld /\ rev[p] = pgRev /\ Loaded(p) = ram[p])
                 \/ Loaded(p) = pg
BY Shapes DEF Loaded

\* A process keeps a planet, and remembers when it was read.
LEMMA CachesTyped ==
    ASSUME TypeOK, NEW p \in Processes, NEW w \in World \cup {NoWorld},
           NEW r \in Nat, pgRev' \in Nat, pgRev <= pgRev', r <= pgRev', Caches(p, w, r)
    PROVE  /\ ram' \in [Processes -> World \cup {NoWorld}]
           /\ rev' \in [Processes -> 0..pgRev']
           /\ ram'[p] = w /\ rev'[p] = r
           /\ \A q \in Processes \ {p} : ram'[q] = ram[q] /\ rev'[q] = rev[q]
BY Shapes DEF Caches

LEMMA WorldIsNot == \A w \in World : w # NoWorld
BY NoWorldAssumption

\* The rows a slice leaves, and what reaches the host's RAM.
Merged == [pg EXCEPT !.has = {c \in @ : c[1] = Host \/ c \in clone.has}]
Acked == IF ram[Host] = NoWorld THEN clone ELSE [ram[Host] EXCEPT !.tick = clone.tick]

LEMMA SliceWorlds ==
    ASSUME TypeOK, clone \in World
    PROVE  /\ Merged \in World /\ Acked \in World
           /\ Merged.has = {c \in pg.has : c[1] = Host \/ c \in clone.has}
           /\ Acked.has = IF ram[Host] = NoWorld THEN clone.has ELSE ram[Host].has
<1>1. pg \in World /\ ram[Host] \in World \cup {NoWorld}
    BY Shapes, TwoProcesses
<1>2. {c \in pg.has : c[1] = Host \/ c \in clone.has} \in SUBSET (Processes \X Nat)
    BY <1>1 DEF World
<1>3. Merged \in World /\ Merged.has = {c \in pg.has : c[1] = Host \/ c \in clone.has}
    BY <1>1, <1>2 DEF Merged, World
<1>4. clone.tick \in Nat
    BY DEF World
<1>5. Acked \in World /\ Acked.has = IF ram[Host] = NoWorld THEN clone.has ELSE ram[Host].has
    BY <1>1, <1>4 DEF Acked, World
<1> QED
    BY <1>3, <1>5

\* What a pulse of the host saves.
Snapshot ==
    LET live == IF ram[Host] = NoWorld THEN pulse ELSE ram[Host]
    IN [live EXCEPT !.tick = pulse.tick]

LEMMA SnapshotWorld ==
    ASSUME TypeOK, pulse # NoWorld
    PROVE  /\ Snapshot \in World
           /\ Snapshot.has = IF ram[Host] = NoWorld THEN pulse.has ELSE ram[Host].has
<1>1. pulse \in World /\ ram[Host] \in World \cup {NoWorld}
    BY Shapes, TwoProcesses
<1>2. pulse.tick \in Nat
    BY <1>1 DEF World
<1> QED
    BY <1>1, <1>2 DEF Snapshot, World

-----------------------------------------------------------------------------
(* Every variable keeps its type.                                          *)

Scalars ==
    /\ lease \in {Host, Worker, Nobody}
    /\ believes \in BOOLEAN /\ pulsing \in BOOLEAN /\ dropped \in BOOLEAN
    /\ mode \in {"down", "world", "full", "external"}
    /\ cmd \in {"idle", "run", "sent"}
    /\ worker \in {"down", "idle", "load", "save", "defer"}
    /\ commands \in 0..MaxCommands /\ faults \in 0..MaxFaults

Planet ==
    /\ ram \in [Processes -> World \cup {NoWorld}]
    /\ rev \in [Processes -> 0..pgRev]
    /\ pg \in World /\ pgRev \in Nat /\ tip \in 0..pgRev
    /\ clone \in World \cup {NoWorld} /\ pulse \in World \cup {NoWorld}
    /\ attempt \in 0..Attempts

LEMMA TypeIs == TypeOK <=> Scalars /\ Planet
BY DEF TypeOK, Scalars, Planet

LEMMA TypeWas == TypeOK' <=> Scalars' /\ Planet'
BY DEF TypeOK, Scalars, Planet

LEMMA Bounds ==
    /\ MaxCommands \in Nat /\ MaxFaults \in Nat /\ Attempts \in Nat /\ Attempts # 0
    /\ \A m \in Modes : m \in {"world", "full", "external"}
BY LeaseAssumption

LEMMA TypedInit == Init => Typed
<1> SUFFICES ASSUME Init PROVE Typed
    OBVIOUS
<1>a. commands \in 0..MaxCommands /\ faults \in 0..MaxFaults
    BY Bounds DEF Init
<1>b. believes \in BOOLEAN /\ pulsing \in BOOLEAN /\ dropped \in BOOLEAN
    BY DEF Init
<1>c. /\ lease \in {Host, Worker, Nobody} /\ cmd \in {"idle", "run", "sent"}
      /\ mode \in {"down", "world", "full", "external"}
      /\ worker \in {"down", "idle", "load", "save", "defer"}
    BY DEF Init
<1>1. Scalars
    BY <1>a, <1>b, <1>c DEF Scalars
<1>2. pg \in World
    BY DEF Init, World
<1>3. Planet
    BY <1>2, Bounds DEF Init, Planet, Any
<1>4. Filled
    BY DEF Init, Filled, Any
<1> QED
    BY <1>1, <1>3, <1>4, TypeIs DEF Typed

LEMMA TypedStartHost ==
    ASSUME Typed, NEW m \in Modes, StartHost(m) PROVE Typed'
<1>1. Scalars /\ Planet
    BY TypeIs DEF Typed
<1>2. Scalars'
    BY <1>1, Bounds DEF StartHost, Scalars, command, workerVars
<1>3. Planet'
    BY <1>1 DEF StartHost, Planet, ramVars, pgVars, command, workerVars
<1>4. Filled'
    BY LeaseAssumption DEF Typed, Filled, StartHost, ramVars, pgVars, command, workerVars
<1> QED
    BY <1>2, <1>3, <1>4, TypeWas DEF Typed

LEMMA TypedCommand == ASSUME Typed, Command PROVE Typed'
<1>1. Scalars /\ Planet /\ TypeOK
    BY TypeIs DEF Typed
<1>2. lease' \in {Host, Worker, Nobody} /\ believes' \in BOOLEAN
    BY <1>1 DEF Command, AsWriter, Scalars
<1>3. Scalars'
    BY <1>1, <1>2, LeaseAssumption DEF Command, Scalars, workerVars, command
<1>4. PICK w \in World : w = Loaded(Host)
    BY <1>1, LoadedWorld, TwoProcesses
<1>5. /\ Caches(Host, w, pgRev) /\ clone' = w /\ pgRev' = pgRev
      /\ UNCHANGED <<pg, tip, pulse, attempt, worker, mode, pulsing>> /\ cmd' = "run"
      /\ mode # "down" /\ cmd # "sent"
    BY <1>4 DEF Command, pgVars, workerVars
<1>6. pgRev \in Nat
    BY <1>1, Shapes
<1>7. /\ ram' \in [Processes -> World \cup {NoWorld}] /\ rev' \in [Processes -> 0..pgRev']
      /\ ram'[Host] = w /\ rev'[Host] = pgRev
      /\ \A q \in Processes \ {Host} : ram'[q] = ram[q] /\ rev'[q] = rev[q]
    BY <1>1, <1>5, <1>6, CachesTyped, TwoProcesses
<1>8. Planet'
    BY <1>1, <1>5, <1>7 DEF Planet
<1>9. Filled'
    BY <1>5, <1>7, TwoProcesses DEF Typed, Filled, Any
<1> QED
    BY <1>3, <1>8, <1>9, TypeWas DEF Typed

LEMMA TypedSendSlice == ASSUME Typed, SendSlice PROVE Typed'
<1>1. Scalars /\ Planet /\ TypeOK
    BY TypeIs DEF Typed
<1>2. Scalars'
    BY <1>1 DEF SendSlice, Scalars, workerVars
<1>3. tip' \in 0..pgRev
    BY <1>1, Shapes, TwoProcesses DEF SendSlice, Any
<1>4. Planet'
    BY <1>1, <1>3 DEF SendSlice, Planet, ramVars, pgVars, workerVars
<1>5. Filled'
    BY DEF Typed, Filled, SendSlice, ramVars, pgVars, workerVars
<1> QED
    BY <1>2, <1>4, <1>5, TypeWas DEF Typed

LEMMA TypedCommitSlice == ASSUME Typed, CommitSlice PROVE Typed'
<1>1. Scalars /\ Planet /\ TypeOK
    BY TypeIs DEF Typed
<1>2. Scalars'
    BY <1>1 DEF CommitSlice, CommandOver, Scalars, workerVars
<1>3. clone \in World /\ pgRev \in Nat
    BY <1>1, Shapes DEF Typed, Filled, CommitSlice
<1>4. PICK w \in World : w = With(Acked, Host)
    BY <1>1, <1>3, SliceWorlds, Planets, TwoProcesses
<1>5. PICK v \in World : v = With(Merged, Host)
    BY <1>1, <1>3, SliceWorlds, Planets, TwoProcesses
<1>6. /\ Caches(Host, w, pgRev + 1) /\ pg' = v /\ pgRev' = pgRev + 1
      /\ UNCHANGED <<mode, pulsing, pulse, worker, attempt, believes>>
      /\ cmd' = "idle" /\ clone' = NoWorld /\ tip' = Any
    BY <1>4, <1>5 DEF CommitSlice, Commits, CommandOver, Merged, Acked, workerVars
<1>7. /\ ram' \in [Processes -> World \cup {NoWorld}] /\ rev' \in [Processes -> 0..pgRev']
      /\ ram'[Host] = w /\ rev'[Host] = pgRev + 1
      /\ \A q \in Processes \ {Host} : ram'[q] = ram[q] /\ rev'[q] = rev[q]
    BY <1>1, <1>3, <1>6, CachesTyped, TwoProcesses
<1>8. Planet'
    BY <1>1, <1>3, <1>6, <1>7 DEF Planet, Any
<1>9. Filled'
    BY <1>3, <1>6, <1>7, TwoProcesses DEF Typed, Filled, Any
<1> QED
    BY <1>2, <1>8, <1>9, TypeWas DEF Typed

LEMMA TypedSliceRefused == ASSUME Typed, SliceRefused PROVE Typed'
<1>1. Scalars /\ Planet /\ TypeOK
    BY TypeIs DEF Typed
<1>2. Scalars'
    BY <1>1 DEF SliceRefused, CommandOver, Scalars, workerVars
<1>3. /\ Caches(Host, NoWorld, 0) /\ UNCHANGED <<pg, pgRev>>
      /\ UNCHANGED <<mode, pulsing, pulse, worker, attempt, believes>>
      /\ cmd' = "idle" /\ clone' = NoWorld /\ tip' = Any /\ pgRev \in Nat
    BY <1>1, Shapes DEF SliceRefused, CommandOver, pgVars, workerVars
<1>4. /\ ram' \in [Processes -> World \cup {NoWorld}] /\ rev' \in [Processes -> 0..pgRev']
      /\ ram'[Host] = NoWorld
      /\ \A q \in Processes \ {Host} : ram'[q] = ram[q] /\ rev'[q] = rev[q]
    BY <1>1, <1>3, CachesTyped, TwoProcesses
<1>5. Planet'
    BY <1>1, <1>3, <1>4 DEF Planet, Any
<1>6. Filled'
    BY <1>3, <1>4, TwoProcesses DEF Typed, Filled, Any
<1> QED
    BY <1>2, <1>5, <1>6, TypeWas DEF Typed

LEMMA TypedTickHost == ASSUME Typed, TickHost PROVE Typed'
<1>1. Scalars /\ Planet /\ TypeOK
    BY TypeIs DEF Typed
<1>2. lease' \in {Host, Worker, Nobody} /\ believes' \in BOOLEAN
    BY <1>1 DEF TickHost, AsWriter, Scalars
<1>3. Scalars'
    BY <1>1, <1>2 DEF TickHost, Scalars, workerVars, command
<1>4. PICK w \in World : w = Ticked(Loaded(Host))
    BY <1>1, LoadedWorld, Planets, TwoProcesses
<1>5. /\ Caches(Host, w, pgRev) /\ pulse' = w /\ pgRev' = pgRev /\ pgRev \in Nat
      /\ UNCHANGED <<pg, tip, cmd, clone, attempt, worker, mode, pulsing>>
      /\ mode # "down"
    BY <1>1, <1>4, Shapes DEF TickHost, pgVars, workerVars, command, Typed, Filled
<1>6. /\ ram' \in [Processes -> World \cup {NoWorld}] /\ rev' \in [Processes -> 0..pgRev']
      /\ ram'[Host] = w /\ rev'[Host] = pgRev
      /\ \A q \in Processes \ {Host} : ram'[q] = ram[q] /\ rev'[q] = rev[q]
    BY <1>1, <1>5, CachesTyped, TwoProcesses
<1>7. Planet'
    BY <1>1, <1>5, <1>6 DEF Planet
<1>8. Filled'
    BY <1>5, <1>6, TwoProcesses DEF Typed, Filled, Any
<1> QED
    BY <1>3, <1>7, <1>8, TypeWas DEF Typed

LEMMA TypedSavePulse == ASSUME Typed, SavePulse PROVE Typed'
<1>1. Scalars /\ Planet /\ TypeOK
    BY TypeIs DEF Typed
<1>2. Scalars'
    BY <1>1 DEF SavePulse, Scalars, workerVars, command
<1>3. PICK w \in World : w = With(Snapshot, Host)
    BY <1>1, SnapshotWorld, Planets, TwoProcesses DEF SavePulse
<1>4. /\ Caches(Host, IF ram[Host] = NoWorld THEN NoWorld ELSE w, pgRev + 1)
      /\ pg' = w /\ pgRev' = pgRev + 1 /\ pulse' = NoWorld /\ pgRev \in Nat
      /\ UNCHANGED <<tip, cmd, clone, attempt, worker, mode, pulsing, believes>>
    BY <1>1, <1>3, Shapes DEF SavePulse, Snapshot, Commits, workerVars, command
<1>5. PICK x \in World \cup {NoWorld} : x = IF ram[Host] = NoWorld THEN NoWorld ELSE w
    OBVIOUS
<1>6. /\ ram' \in [Processes -> World \cup {NoWorld}] /\ rev' \in [Processes -> 0..pgRev']
      /\ ram'[Host] = x /\ rev'[Host] = pgRev + 1
      /\ \A q \in Processes \ {Host} : ram'[q] = ram[q] /\ rev'[q] = rev[q]
    BY <1>1, <1>4, <1>5, CachesTyped, TwoProcesses
<1>7. Planet'
    BY <1>1, <1>4, <1>6 DEF Planet
<1>8. Filled'
    BY <1>4, <1>6, TwoProcesses DEF Typed, Filled, Any
<1> QED
    BY <1>2, <1>7, <1>8, TypeWas DEF Typed

\* A step of the worker that leaves Postgres alone: it keeps a planet w.
LEMMA TypedWorker ==
    ASSUME Typed, NEW w \in World \cup {NoWorld}, NEW r \in Nat, r <= pgRev,
           w # NoWorld => r # Any, Caches(Worker, w, r),
           worker' \in {"down", "idle", "load", "save", "defer"},
           worker' = "save" => w # NoWorld, attempt' \in 0..Attempts,
           lease' \in {Host, Worker, Nobody}, dropped' = dropped,
           UNCHANGED <<hostVars, pgVars, commands>>, faults' \in 0..MaxFaults
    PROVE  Typed'
<1>1. Scalars /\ Planet /\ TypeOK
    BY TypeIs DEF Typed
<1>2. Scalars'
    BY <1>1 DEF hostVars, command, Scalars
<1>3. pgRev' = pgRev /\ pgRev \in Nat
    BY <1>1, Shapes DEF pgVars
<1>4. /\ ram' \in [Processes -> World \cup {NoWorld}] /\ rev' \in [Processes -> 0..pgRev']
      /\ ram'[Worker] = w /\ rev'[Worker] = r
      /\ \A q \in Processes \ {Worker} : ram'[q] = ram[q] /\ rev'[q] = rev[q]
    BY <1>1, <1>3, CachesTyped, TwoProcesses
<1>5. Planet'
    BY <1>1, <1>4 DEF Planet, pgVars, hostVars, command
<1>6. Filled'
    BY <1>4, TwoProcesses DEF Typed, Filled, pgVars, hostVars, command
<1> QED
    BY <1>2, <1>5, <1>6, TypeWas DEF Typed

LEMMA TypedStartWorker ==
    ASSUME Typed, StartWorker \/ WorkerPulse PROVE Typed'
<1>1. Scalars /\ Planet /\ TypeOK
    BY TypeIs DEF Typed
<1>2. lease' \in {Host, Worker, Nobody}
    BY <1>1 DEF StartWorker, WorkerPulse, Scalars
<1>3. worker' = "load" /\ UNCHANGED <<mode, believes, pulsing, cmd, dropped, commands, faults>>
    BY DEF StartWorker, WorkerPulse, Goes, HostUnchanged, hostVars, command
<1>4. Scalars'
    BY <1>1, <1>2, <1>3 DEF Scalars
<1>5. attempt' \in 0..Attempts
    BY Bounds DEF StartWorker, WorkerPulse
<1>6. UNCHANGED <<ram, rev, pg, pgRev, tip, clone, pulse>>
    BY DEF StartWorker, WorkerPulse, ramVars, pgVars, HostUnchanged, hostVars, command
<1>7. Planet'
    BY <1>1, <1>5, <1>6 DEF Planet
<1>8. Filled'
    BY <1>3, <1>6 DEF Typed, Filled
<1> QED
    BY <1>4, <1>7, <1>8, TypeWas DEF Typed

LEMMA TypedWorkerTicks == ASSUME Typed, WorkerTicks PROVE Typed'
<1>1. Scalars /\ Planet /\ TypeOK /\ pgRev \in Nat /\ pgRev # 0
    BY TypeIs, Shapes DEF Typed, Filled
<1>2. PICK w \in World : w = Loaded(Worker)
    BY <1>1, LoadedWorld, TwoProcesses
<1>3. PICK t \in World : t = Ticked(Loaded(Worker))
    BY <1>1, <1>2, Planets, TwoProcesses
<1>4. (Caches(Worker, w, pgRev) \/ Caches(Worker, t, pgRev)) /\ worker' \in {"save", "idle"}
    BY <1>2, <1>3 DEF WorkerTicks, Goes
<1>5. UNCHANGED <<hostVars, pgVars, commands, faults, lease, dropped, attempt>>
    BY DEF WorkerTicks, HostUnchanged
<1>6. lease' \in {Host, Worker, Nobody} /\ attempt' \in 0..Attempts
      /\ faults' \in 0..MaxFaults
    BY <1>1, <1>5 DEF Scalars, Planet
<1>7. w # NoWorld /\ t # NoWorld
    BY WorldIsNot
<1> QED
    BY <1>1, <1>4, <1>5, <1>6, <1>7, TypedWorker DEF Any

LEMMA TypedWorkerSaves == ASSUME Typed, WorkerSaves PROVE Typed'
<1>1. Scalars /\ Planet /\ TypeOK
    BY TypeIs DEF Typed
<1>2. Scalars'
    BY <1>1 DEF WorkerSaves, HostUnchanged, Goes, hostVars, command, Scalars
<1>3. PICK w \in World : w = With(ram[Worker], Worker)
    BY <1>1, Planets, TwoProcesses DEF Typed, Filled, WorkerSaves
<1>4. /\ Caches(Worker, w, pgRev + 1) /\ pg' = w /\ pgRev' = pgRev + 1 /\ pgRev \in Nat
      /\ UNCHANGED <<tip, cmd, clone, attempt, mode, pulsing, pulse, believes>>
      /\ worker' = "idle"
    BY <1>1, <1>3, Shapes DEF WorkerSaves, Commits, Goes, HostUnchanged, hostVars, command
<1>5. /\ ram' \in [Processes -> World \cup {NoWorld}] /\ rev' \in [Processes -> 0..pgRev']
      /\ ram'[Worker] = w /\ rev'[Worker] = pgRev + 1
      /\ \A q \in Processes \ {Worker} : ram'[q] = ram[q] /\ rev'[q] = rev[q]
    BY <1>1, <1>4, CachesTyped, TwoProcesses
<1>6. Planet'
    BY <1>1, <1>4, <1>5 DEF Planet
<1>7. Filled'
    BY <1>4, <1>5, TwoProcesses DEF Typed, Filled, Any
<1> QED
    BY <1>2, <1>6, <1>7, TypeWas DEF Typed

LEMMA TypedWorkerRefused == ASSUME Typed, WorkerRefused PROVE Typed'
<1>1. Scalars /\ Planet /\ TypeOK /\ pgRev \in Nat
    BY TypeIs, Shapes DEF Typed
<1>2. Caches(Worker, NoWorld, 0) /\ worker' \in {"load", "defer"}
    BY DEF WorkerRefused, Goes
<1>3. UNCHANGED <<hostVars, pgVars, commands, faults, lease, dropped>>
    BY DEF WorkerRefused, HostUnchanged
<1>4. attempt' \in 0..Attempts
    BY <1>1, Bounds DEF WorkerRefused, Planet
<1>5. lease' \in {Host, Worker, Nobody} /\ faults' \in 0..MaxFaults
    BY <1>1, <1>3 DEF Scalars
<1> QED
    BY <1>1, <1>2, <1>3, <1>4, <1>5, TypedWorker

LEMMA TypedWorkerDefers == ASSUME Typed, WorkerDefers PROVE Typed'
<1>1. Scalars /\ Planet /\ TypeOK /\ pgRev \in Nat /\ pgRev # 0
    BY TypeIs, Shapes DEF Typed, Filled
<1>2. PICK w \in World : w = Loaded(Worker)
    BY <1>1, LoadedWorld, TwoProcesses
<1>3. Caches(Worker, w, pgRev) /\ worker' = "idle"
    BY <1>2 DEF WorkerDefers, Goes
<1>4. UNCHANGED <<hostVars, pgVars, commands, faults, lease, dropped, attempt>>
    BY DEF WorkerDefers, HostUnchanged
<1>5. lease' \in {Host, Worker, Nobody} /\ attempt' \in 0..Attempts
      /\ faults' \in 0..MaxFaults
    BY <1>1, <1>4 DEF Scalars, Planet
<1> QED
    BY <1>1, <1>3, <1>4, <1>5, TypedWorker DEF Any

\* The worker stops, dies, or learns that it lost the lease.
LEMMA TypedWorkerEnds ==
    ASSUME Typed, StopWorker \/ CrashWorker \/ WorkerNotices PROVE Typed'
<1>1. Scalars /\ Planet /\ TypeOK /\ pgRev \in Nat
    BY TypeIs, Shapes DEF Typed
<1>2. Caches(Worker, NoWorld, 0) /\ worker' = "down" /\ attempt' = 0
      /\ lease' \in {lease, Nobody}
    BY DEF StopWorker, CrashWorker, WorkerNotices, Gone, Goes
<1>3. UNCHANGED <<hostVars, pgVars, commands, dropped>>
    BY DEF StopWorker, CrashWorker, WorkerNotices, HostUnchanged
<1>4. faults' \in 0..MaxFaults
    BY <1>1, Bounds
       DEF StopWorker, CrashWorker, WorkerNotices, HostUnchanged, MayFault, Scalars
<1>5. lease' \in {Host, Worker, Nobody} /\ attempt' \in 0..Attempts
    BY <1>1, <1>2, Bounds DEF Scalars
<1> QED
    BY <1>1, <1>2, <1>3, <1>4, <1>5, TypedWorker

LEMMA TypedCrashHost == ASSUME Typed, CrashHost PROVE Typed'
<1>1. Scalars /\ Planet /\ TypeOK
    BY TypeIs DEF Typed
<1>2. lease' \in {Host, Worker, Nobody} /\ faults' \in 0..MaxFaults
    BY <1>1, Bounds DEF CrashHost, Gone, MayFault, Scalars
<1>3. Scalars'
    BY <1>1, <1>2 DEF CrashHost, CommandOver, Scalars, workerVars
<1>4. /\ Caches(Host, NoWorld, 0) /\ UNCHANGED <<pg, pgRev, worker, attempt>>
      /\ mode' = "down" /\ ~pulsing' /\ pulse' = NoWorld /\ ~believes'
      /\ cmd' = "idle" /\ clone' = NoWorld /\ tip' = Any /\ pgRev \in Nat
    BY <1>1, Shapes DEF CrashHost, Gone, CommandOver, pgVars, workerVars
<1>5. /\ ram' \in [Processes -> World \cup {NoWorld}] /\ rev' \in [Processes -> 0..pgRev']
      /\ ram'[Host] = NoWorld
      /\ \A q \in Processes \ {Host} : ram'[q] = ram[q] /\ rev'[q] = rev[q]
    BY <1>1, <1>4, CachesTyped, TwoProcesses
<1>6. Planet'
    BY <1>1, <1>4, <1>5 DEF Planet, Any
<1>7. Filled'
    BY <1>4, <1>5, TwoProcesses DEF Typed, Filled, Any
<1> QED
    BY <1>3, <1>6, <1>7, TypeWas DEF Typed

LEMMA TypedLease == ASSUME Typed, DropLease \/ HostNotices \/ UNCHANGED vars PROVE Typed'
<1>1. Scalars /\ Planet /\ TypeOK
    BY TypeIs DEF Typed
<1>2. UNCHANGED <<mode, pulsing, cmd, clone, tip, pulse, ram, rev, pg, pgRev, worker,
                  attempt, commands>>
    BY DEF DropLease, HostNotices, vars, hostVars, command, ramVars, pgVars, workerVars
<1>3. /\ lease' \in {lease, Nobody} /\ faults' \in 0..MaxFaults
      /\ believes' = FALSE \/ believes' = believes
      /\ dropped' = TRUE \/ dropped' = dropped
    BY <1>1, Bounds DEF DropLease, HostNotices, vars, hostVars, MayFault, Scalars
<1>4. Scalars'
    BY <1>1, <1>2, <1>3, ZenonT(30) DEF Scalars
<1>5. Planet' /\ Filled'
    BY <1>1, <1>2, <1>3 DEF Planet, Filled, Typed
<1> QED
    BY <1>4, <1>5, TypeWas DEF Typed

LEMMA TypedNext == Typed /\ [Next]_vars => Typed'
<1> SUFFICES ASSUME Typed, [Next]_vars PROVE Typed'
    OBVIOUS
<1> USE DEF Next, HostStep, WorkerStep
<1> QED
    BY TypedStartHost, TypedCommand, TypedSendSlice, TypedCommitSlice, TypedSliceRefused,
       TypedTickHost, TypedSavePulse, TypedStartWorker, TypedWorkerTicks, TypedWorkerSaves,
       TypedWorkerRefused, TypedWorkerDefers, TypedWorkerEnds, TypedCrashHost, TypedLease

\* No planet in RAM is newer than Postgres, and a worker's pulse is tried a
\* bounded number of times, whatever crashes, is dropped or conflicts.
\* (loadEconomy, ackEconomySlice, runPulse)
THEOREM LeaseTypeCorrect == Spec => []TypeOK
<1>1. Typed /\ [Next]_vars => Typed'
    BY TypedNext
<1> QED
    BY <1>1, TypedInit, PTL DEF Spec, Typed

-----------------------------------------------------------------------------
(* As long as no session that has the lease is dropped: who believes to be  *)
(* the writer is, and whoever may commit has everything that is committed.  *)

Leased ==
    /\ believes <=> lease = Host
    /\ worker # "down" => lease = Worker
    /\ pulsing => believes
    /\ pulse # NoWorld => pulsing /\ ram[Host] # NoWorld
    /\ mode = "down" => ram[Host] = NoWorld

\* A planet of the current revision has every commit.
Current(p) == ram[p] # NoWorld /\ rev[p] = pgRev => pg.has \subseteq ram[p].has

\* A host that has the lease reads nobody's commits but its own; one that has
\* not expects the revision its clone was read at.
Cloned ==
    cmd # "idle" =>
        /\ ram[Host] # NoWorld
        /\ believes => \A c \in pg.has \cup ram[Host].has :
                           c[1] = Host \/ c \in clone.has
        /\ ~believes /\ rev[Host] = pgRev => pg.has \subseteq clone.has

Expects == cmd = "sent" => tip = IF believes THEN Any ELSE rev[Host]

Calm ==
    /\ Leased /\ Current(Host) /\ Current(Worker)
    /\ believes /\ ram[Host] # NoWorld => rev[Host] = pgRev
    /\ Cloned /\ Expects

Quiet == ~dropped => Calm

LEMMA LoadedCurrent ==
    ASSUME TypeOK, NEW p \in Processes, Current(p)
    PROVE  /\ Loaded(p) \in World /\ pg.has \subseteq Loaded(p).has
BY LoadedWorld DEF Current

LEMMA KeepsPlanet ==
    ASSUME TypeOK, NEW p \in Processes, NEW w, NEW r, Caches(p, w, r)
    PROVE  /\ ram'[p] = w /\ rev'[p] = r
           /\ \A q \in Processes \ {p} : ram'[q] = ram[q] /\ rev'[q] = rev[q]
BY Shapes DEF Caches

LEMMA CalmCommand == ASSUME Typed, Calm, Command PROVE Calm'
<1>1. TypeOK /\ Filled
    BY DEF Typed
<1>2. PICK w \in World : w = Loaded(Host) /\ pg.has \subseteq w.has /\ w # NoWorld
    BY <1>1, LoadedCurrent, TwoProcesses, WorldIsNot DEF Calm
<1>3. /\ Caches(Host, w, pgRev) /\ clone' = w /\ cmd' = "run" /\ mode' = mode
      /\ mode # "down" /\ UNCHANGED <<pulsing, pulse, pg, pgRev, worker, tip>>
    BY <1>2 DEF Command, pgVars, workerVars
<1>4. /\ ram'[Host] = w /\ rev'[Host] = pgRev
      /\ ram'[Worker] = ram[Worker] /\ rev'[Worker] = rev[Worker]
    BY <1>1, <1>3, KeepsPlanet, TwoProcesses
<1>5. /\ believes' <=> lease' = Host
      /\ worker # "down" => lease' = Worker
      /\ believes => believes'
    BY TwoProcesses DEF Command, AsWriter, Calm, Leased
<1>6. Leased'
    BY <1>2, <1>3, <1>4, <1>5 DEF Calm, Leased
<1>7. Current(Host)' /\ Current(Worker)' /\ Cloned' /\ Expects'
    BY <1>2, <1>3, <1>4 DEF Calm, Current, Cloned, Expects
<1> QED
    BY <1>3, <1>4, <1>6, <1>7 DEF Calm

\* The commit of a slice.
LEMMA SliceHas ==
    ASSUME Typed, Calm, CommitSlice
    PROVE  /\ ram[Host] # NoWorld /\ pg.has \subseteq ram[Host].has
           /\ \A c \in pg.has : c[1] = Host \/ c \in clone.has
<1>1. ram[Host] # NoWorld /\ rev[Host] # Any
    BY TwoProcesses DEF CommitSlice, Calm, Cloned, Typed, Filled
<1>2. CASE believes
    BY <1>1, <1>2 DEF CommitSlice, Calm, Current, Cloned
<1>3. CASE ~believes
  <2>1. rev[Host] = pgRev
      BY <1>1, <1>3 DEF CommitSlice, Calm, Expects, Refused
  <2> QED
      BY <1>1, <1>3, <2>1 DEF CommitSlice, Calm, Current, Cloned
<1> QED
    BY <1>2, <1>3

LEMMA CalmCommitSlice ==
    ASSUME Typed, Calm, CommitSlice
    PROVE  Calm' /\ pg.has \subseteq pg'.has
<1>1. TypeOK /\ Filled /\ clone \in World /\ pgRev \in Nat /\ rev[Worker] <= pgRev
      /\ rev[Worker] \in Nat
    BY Shapes, TwoProcesses DEF Typed, Filled, CommitSlice
<1>2. PICK new : new = <<Host, pgRev + 1>>
    OBVIOUS
<1>3. PICK w \in World : w = With(Acked, Host) /\ w.has = ram[Host].has \cup {new}
    BY <1>1, <1>2, SliceHas, SliceWorlds, Planets, TwoProcesses
<1>4. PICK v \in World : v = With(Merged, Host) /\ v.has = pg.has \cup {new}
  <2>1. Merged \in World /\ Merged.has = {c \in pg.has : c[1] = Host \/ c \in clone.has}
      BY <1>1, SliceWorlds
  <2>2. Merged.has = pg.has
      BY <2>1, SliceHas
  <2> QED
      BY <1>1, <1>2, <2>1, <2>2, Planets, TwoProcesses
<1>5. /\ Caches(Host, w, pgRev + 1) /\ pg' = v /\ pgRev' = pgRev + 1
      /\ UNCHANGED <<lease, mode, pulsing, pulse, worker, believes>> /\ cmd' = "idle"
      /\ w # NoWorld
    BY <1>3, <1>4, WorldIsNot
       DEF CommitSlice, Commits, CommandOver, Merged, Acked, workerVars
<1>6. /\ ram'[Host] = w /\ rev'[Host] = pgRev + 1
      /\ ram'[Worker] = ram[Worker] /\ rev'[Worker] = rev[Worker]
    BY <1>1, <1>5, KeepsPlanet, TwoProcesses
<1>7. mode # "down"
    BY <1>1 DEF CommitSlice, Filled
<1>8. Leased'
    BY <1>5, <1>6, <1>7 DEF Calm, Leased
<1>9. Current(Host)' /\ Current(Worker)'
    BY <1>1, <1>3, <1>4, <1>5, <1>6, SliceHas DEF Current
<1>10. Cloned' /\ Expects'
    BY <1>5 DEF Cloned, Expects
<1> QED
    BY <1>4, <1>5, <1>6, <1>8, <1>9, <1>10 DEF Calm

LEMMA CalmSliceRefused == ASSUME Typed, Calm, SliceRefused PROVE Calm'
<1>1. TypeOK /\ Filled
    BY DEF Typed
<1>2. ~believes /\ ~pulsing /\ pulse = NoWorld
    BY DEF SliceRefused, Refused, Calm, Expects, Leased
<1>3. /\ Caches(Host, NoWorld, 0) /\ cmd' = "idle"
      /\ UNCHANGED <<lease, believes, mode, pulsing, pulse, worker, pg, pgRev>>
    BY DEF SliceRefused, CommandOver, pgVars, workerVars
<1>4. /\ ram'[Host] = NoWorld
      /\ ram'[Worker] = ram[Worker] /\ rev'[Worker] = rev[Worker]
    BY <1>1, <1>3, KeepsPlanet, TwoProcesses
<1>5. Leased'
    BY <1>2, <1>3, <1>4 DEF Calm, Leased
<1>6. Current(Host)' /\ Current(Worker)' /\ Cloned' /\ Expects'
    BY <1>3, <1>4 DEF Calm, Current, Cloned, Expects
<1> QED
    BY <1>3, <1>4, <1>5, <1>6 DEF Calm

LEMMA CalmTickHost == ASSUME Typed, Calm, TickHost PROVE Calm'
<1>1. TypeOK /\ Filled /\ mode # "down"
    BY DEF Typed, Filled, TickHost
<1>2. believes
    BY DEF TickHost, Calm, Leased
<1>3. UNCHANGED <<lease, believes>>
    BY <1>2 DEF TickHost, AsWriter
<1>4. PICK l \in World : l = Loaded(Host) /\ pg.has \subseteq l.has
    BY <1>1, LoadedCurrent, TwoProcesses DEF Calm
<1>5. PICK w \in World : w = Ticked(Loaded(Host)) /\ w.has = l.has /\ w # NoWorld
    BY <1>1, <1>4, Planets, TwoProcesses, WorldIsNot
<1>6. ram[Host] # NoWorld => l = ram[Host]
    BY <1>2, <1>4 DEF Loaded, Calm
<1>7. /\ Caches(Host, w, pgRev) /\ pulse' = w /\ pulsing
      /\ UNCHANGED <<mode, pulsing, pg, pgRev, worker, cmd, clone, tip>>
    BY <1>5 DEF TickHost, pgVars, workerVars, command
<1>8. /\ ram'[Host] = w /\ rev'[Host] = pgRev
      /\ ram'[Worker] = ram[Worker] /\ rev'[Worker] = rev[Worker]
    BY <1>1, <1>7, KeepsPlanet, TwoProcesses
<1>9. Leased'
    BY <1>1, <1>2, <1>3, <1>5, <1>7, <1>8 DEF Calm, Leased
<1>10. Current(Host)' /\ Current(Worker)'
    BY <1>4, <1>5, <1>7, <1>8 DEF Calm, Current
<1>11. Cloned'
    BY <1>2, <1>3, <1>5, <1>6, <1>7, <1>8 DEF Calm, Cloned
<1>12. Expects'
    BY <1>2, <1>3, <1>7 DEF Calm, Expects
<1> QED
    BY <1>7, <1>8, <1>9, <1>10, <1>11, <1>12 DEF Calm

LEMMA CalmSavePulse ==
    ASSUME Typed, Calm, SavePulse
    PROVE  Calm' /\ pg.has \subseteq pg'.has
<1>1. /\ TypeOK /\ Filled /\ mode # "down" /\ pgRev \in Nat /\ rev[Worker] <= pgRev
      /\ rev[Worker] \in Nat
    BY Shapes, TwoProcesses DEF Typed, Filled, SavePulse
<1>2. believes /\ ram[Host] # NoWorld /\ pg.has \subseteq ram[Host].has
    BY DEF SavePulse, Calm, Leased, Current
<1>3. PICK new : new = <<Host, pgRev + 1>>
    OBVIOUS
<1>a. new[1] = Host
    BY <1>3
<1>4. PICK w \in World : w = With(Snapshot, Host) /\ w.has = ram[Host].has \cup {new}
                         /\ w # NoWorld
    BY <1>1, <1>2, <1>3, SnapshotWorld, Planets, TwoProcesses, WorldIsNot DEF SavePulse
<1>5. /\ Caches(Host, w, pgRev + 1) /\ pg' = w /\ pgRev' = pgRev + 1 /\ pulse' = NoWorld
      /\ UNCHANGED <<lease, believes, mode, pulsing, worker, cmd, clone, tip>>
    BY <1>2, <1>4 DEF SavePulse, Snapshot, Commits, workerVars, command
<1>6. /\ ram'[Host] = w /\ rev'[Host] = pgRev + 1
      /\ ram'[Worker] = ram[Worker] /\ rev'[Worker] = rev[Worker]
    BY <1>1, <1>5, KeepsPlanet, TwoProcesses
<1>7. Leased'
    BY <1>1, <1>5, <1>6 DEF Calm, Leased
<1>8. Current(Host)' /\ Current(Worker)'
    BY <1>1, <1>5, <1>6 DEF Current
<1>9. Cloned'
    BY <1>2, <1>a, <1>4, <1>5, <1>6 DEF Calm, Cloned
<1>10. Expects'
    BY <1>2, <1>5 DEF Calm, Expects
<1> QED
    BY <1>2, <1>4, <1>5, <1>6, <1>7, <1>8, <1>9, <1>10 DEF Calm

LEMMA CalmSendSlice == ASSUME Typed, Calm, SendSlice PROVE Calm'
<1>1. /\ cmd = "run" /\ cmd' = "sent" /\ tip' = IF believes THEN Any ELSE rev[Host]
      /\ UNCHANGED <<lease, believes, mode, pulsing, clone, ram, rev, pg, pgRev, pulse,
                     worker>>
    BY DEF SendSlice, ramVars, pgVars, workerVars
<1> QED
    BY <1>1 DEF Calm, Leased, Current, Cloned, Expects

LEMMA CalmStartHost == ASSUME Typed, Calm, NEW m \in Modes, StartHost(m) PROVE Calm'
<1>1. /\ mode = "down" /\ mode' \in {"world", "full", "external"} /\ ~believes
      /\ cmd = "idle" /\ pulse = NoWorld /\ ram[Host] = NoWorld
    BY Bounds DEF StartHost, Typed, Filled, Calm, Leased
<1>2. UNCHANGED <<ram, rev, pg, pgRev, cmd, clone, tip, pulse, worker>>
    BY DEF StartHost, ramVars, pgVars, command, workerVars
<1>3. /\ believes' <=> lease' = Host
      /\ worker # "down" => lease' = Worker
      /\ pulsing' => believes'
    BY <1>1, TwoProcesses DEF StartHost, Calm, Leased
<1>4. Leased'
    BY <1>1, <1>2, <1>3 DEF Leased
<1> QED
    BY <1>1, <1>2, <1>4 DEF Calm, Current, Cloned, Expects

\* A step of the worker that leaves Postgres alone.
LEMMA CalmWorker ==
    ASSUME Typed, Calm, NEW w, NEW r, Caches(Worker, w, r),
           w # NoWorld /\ r = pgRev => pg.has \subseteq w.has,
           UNCHANGED <<hostVars, pgVars>>,
           lease' = Host <=> lease = Host, worker' # "down" => lease' = Worker
    PROVE  Calm'
<1>1. /\ ram'[Worker] = w /\ rev'[Worker] = r
      /\ ram'[Host] = ram[Host] /\ rev'[Host] = rev[Host]
    BY KeepsPlanet, TwoProcesses DEF Typed
<1>2. UNCHANGED <<believes, mode, pulsing, cmd, clone, tip, pulse, pg, pgRev>>
    BY DEF hostVars, command, pgVars
<1>3. Leased'
    BY <1>1, <1>2 DEF Calm, Leased
<1> QED
    BY <1>1, <1>2, <1>3 DEF Calm, Current, Cloned, Expects

LEMMA CalmWorkerLoads ==
    ASSUME Typed, Calm, WorkerTicks \/ WorkerDefers PROVE Calm'
<1>1. PICK l \in World : l = Loaded(Worker) /\ pg.has \subseteq l.has
    BY LoadedCurrent, TwoProcesses DEF Calm, Typed
<1>2. PICK t \in World : t = Ticked(Loaded(Worker)) /\ t.has = l.has
    BY <1>1, Planets, TwoProcesses DEF Typed
<1>3. Caches(Worker, l, pgRev) \/ Caches(Worker, t, pgRev)
    BY <1>1, <1>2 DEF WorkerTicks, WorkerDefers
<1>4. UNCHANGED <<hostVars, pgVars>> /\ lease' = lease /\ worker # "down"
    BY DEF WorkerTicks, WorkerDefers, HostUnchanged
<1>5. lease = Worker
    BY <1>4 DEF Calm, Leased
<1> QED
    BY <1>1, <1>2, <1>3, <1>4, <1>5, CalmWorker

LEMMA CalmWorkerSaves ==
    ASSUME Typed, Calm, WorkerSaves
    PROVE  Calm' /\ pg.has \subseteq pg'.has
<1>1. /\ TypeOK /\ ram[Worker] \in World /\ ram[Worker] # NoWorld /\ rev[Worker] # Any
      /\ pgRev \in Nat /\ rev[Host] <= pgRev /\ rev[Host] \in Nat
    BY Shapes, TwoProcesses, WorldIsNot DEF Typed, Filled, WorkerSaves
<1>2. lease = Worker /\ ~believes /\ ~pulsing /\ pulse = NoWorld
    BY TwoProcesses DEF WorkerSaves, Calm, Leased
<1>3. rev[Worker] = pgRev /\ pg.has \subseteq ram[Worker].has
    BY <1>1 DEF WorkerSaves, Refused, Calm, Current
<1>a. PICK x \in World : x = ram[Worker]
    BY <1>1
<1>b. With(x, Worker) \in World
      /\ With(x, Worker).has = x.has \cup {<<Worker, pgRev + 1>>}
    BY <1>1, Planets, TwoProcesses
<1>4. PICK w \in World : /\ w = With(ram[Worker], Worker) /\ w # NoWorld
                         /\ w.has = ram[Worker].has \cup {<<Worker, pgRev + 1>>}
    BY <1>a, <1>b, WorldIsNot
<1>5. /\ Caches(Worker, w, pgRev + 1) /\ pg' = w /\ pgRev' = pgRev + 1
      /\ worker' = "idle"
      /\ UNCHANGED <<lease, believes, mode, pulsing, pulse, cmd, clone, tip>>
    BY <1>4 DEF WorkerSaves, Commits, Goes, HostUnchanged, hostVars, command
<1>6. /\ ram'[Worker] = w /\ rev'[Worker] = pgRev + 1
      /\ ram'[Host] = ram[Host] /\ rev'[Host] = rev[Host]
    BY <1>1, <1>5, KeepsPlanet, TwoProcesses
<1>7. Leased'
    BY <1>2, <1>5, <1>6 DEF Calm, Leased
<1>8. Current(Host)' /\ Current(Worker)'
    BY <1>1, <1>5, <1>6 DEF Current
<1>9. Cloned' /\ Expects'
    BY <1>1, <1>2, <1>5, <1>6 DEF Calm, Cloned, Expects
<1> QED
    BY <1>2, <1>3, <1>4, <1>5, <1>7, <1>8, <1>9 DEF Calm

LEMMA CalmWorkerRefused == ASSUME Typed, Calm, WorkerRefused PROVE Calm'
<1>1. /\ Caches(Worker, NoWorld, 0) /\ UNCHANGED <<hostVars, pgVars>> /\ lease' = lease
      /\ worker # "down"
    BY DEF WorkerRefused, HostUnchanged
<1>2. lease = Worker
    BY <1>1 DEF Calm, Leased
<1> QED
    BY <1>1, <1>2, CalmWorker

LEMMA CalmWorkerStarts == ASSUME Typed, Calm, StartWorker \/ WorkerPulse PROVE Calm'
<1>1. UNCHANGED <<ram, rev, pg, pgRev, believes, mode, pulsing, cmd, clone, tip, pulse>>
    BY DEF StartWorker, WorkerPulse, ramVars, pgVars, HostUnchanged, hostVars, command
<1>2. lease' = Worker /\ ~believes
    BY TwoProcesses DEF StartWorker, WorkerPulse, Calm, Leased
<1>3. Leased'
    BY <1>1, <1>2, TwoProcesses DEF Calm, Leased
<1> QED
    BY <1>1, <1>3 DEF Calm, Current, Cloned, Expects

LEMMA CalmWorkerEnds ==
    ASSUME Typed, Calm, StopWorker \/ CrashWorker \/ WorkerNotices PROVE Calm'
<1>1. /\ Caches(Worker, NoWorld, 0) /\ worker' = "down"
      /\ lease' = IF lease = Worker THEN Nobody ELSE lease
      /\ UNCHANGED <<hostVars, pgVars>>
    BY DEF StopWorker, CrashWorker, WorkerNotices, Gone, Goes, HostUnchanged
<1>2. lease' = Host <=> lease = Host
    BY <1>1, TwoProcesses
<1> QED
    BY <1>1, <1>2, CalmWorker

LEMMA CalmCrashHost == ASSUME Typed, Calm, CrashHost PROVE Calm'
<1>1. /\ Caches(Host, NoWorld, 0) /\ UNCHANGED <<pg, pgRev, worker>>
      /\ mode' = "down" /\ ~pulsing' /\ ~believes' /\ pulse' = NoWorld /\ cmd' = "idle"
      /\ lease' = IF lease = Host THEN Nobody ELSE lease
    BY DEF CrashHost, Gone, CommandOver, pgVars, workerVars
<1>2. /\ ram'[Host] = NoWorld
      /\ ram'[Worker] = ram[Worker] /\ rev'[Worker] = rev[Worker]
    BY <1>1, KeepsPlanet, TwoProcesses DEF Typed
<1>3. Leased'
    BY <1>1, <1>2, TwoProcesses DEF Calm, Leased
<1> QED
    BY <1>1, <1>2, <1>3 DEF Calm, Current, Cloned, Expects

\* Every step keeps what is known while no lease was dropped, and no commit is
\* undone by it.
LEMMA QuietNext ==
    ASSUME Typed, Quiet, [Next]_vars
    PROVE  Quiet' /\ (~dropped => pg.has \subseteq pg'.has)
<1> DEFINE Kept == Calm' /\ pg.has \subseteq pg'.has
<1>0. CASE dropped
  <2>1. dropped'
      BY <1>0 DEF Next, HostStep, WorkerStep, vars, StartHost, Command, TickHost,
                  SendSlice, CommitSlice, SliceRefused, SavePulse, HostNotices,
                  StartWorker, StopWorker, WorkerTicks, WorkerSaves, WorkerRefused,
                  WorkerDefers, WorkerPulse, WorkerNotices, CrashHost, CrashWorker,
                  DropLease
  <2> QED
      BY <1>0, <2>1 DEF Quiet
<1>1. ASSUME Calm, CommitSlice \/ SavePulse \/ WorkerSaves PROVE Kept
    BY <1>1, CalmCommitSlice, CalmSavePulse, CalmWorkerSaves
<1>2. ASSUME Calm, ~dropped,
             \/ \E m \in Modes : StartHost(m)
             \/ Command \/ TickHost \/ SendSlice \/ SliceRefused
             \/ StartWorker \/ StopWorker \/ WorkerTicks \/ WorkerRefused
             \/ WorkerDefers \/ WorkerPulse \/ WorkerNotices
             \/ CrashHost \/ CrashWorker \/ HostNotices \/ UNCHANGED vars
      PROVE  Kept
  <2>1. pg' = pg
      BY <1>2 DEF StartHost, Command, TickHost, SendSlice, SliceRefused, StartWorker,
                  StopWorker, WorkerTicks, WorkerRefused, WorkerDefers, WorkerPulse,
                  WorkerNotices, CrashHost, CrashWorker, HostNotices, vars, pgVars
  <2>2. ~HostNotices
      BY <1>2 DEF HostNotices, Calm, Leased
  <2>3. CASE UNCHANGED vars
    <3>1. UNCHANGED <<lease, believes, mode, pulsing, cmd, clone, tip, pulse, ram, rev, pg,
                      pgRev, worker>>
        BY <2>3 DEF vars, hostVars, command, ramVars, pgVars, workerVars
    <3> QED
        BY <1>2, <3>1 DEF Calm, Leased, Current, Cloned, Expects
  <2> QED
      BY <1>2, <2>1, <2>2, <2>3, CalmStartHost, CalmCommand, CalmTickHost, CalmSendSlice,
         CalmSliceRefused, CalmWorkerStarts, CalmWorkerEnds, CalmWorkerLoads,
         CalmWorkerRefused, CalmCrashHost
<1>3. CASE DropLease
    BY <1>3 DEF DropLease, Quiet, pgVars
<1> QED
    BY <1>0, <1>1, <1>2, <1>3 DEF Next, HostStep, WorkerStep, Quiet

LEMMA QuietInit == Init => Quiet
BY TwoProcesses DEF Init, Quiet, Calm, Leased, Current, Cloned, Expects

LEMMA QuietAlways == Spec => [](Typed /\ Quiet)
<1>1. Typed /\ Quiet /\ [Next]_vars => Typed' /\ Quiet'
    BY TypedNext, QuietNext
<1> QED
    BY <1>1, TypedInit, QuietInit, PTL DEF Spec

\* The worker and the pulse of the host never tick the world at once, unless
\* Postgres dropped the session of one of them.
\* (acquireWorldWriterLease, tryAcquirePulseLock)
THEOREM LeaseOneTicker == Spec => []OneTicker
<1>1. Quiet => OneTicker
    BY TwoProcesses DEF Quiet, Calm, Leased, OneTicker
<1> QED
    BY <1>1, QuietAlways, PTL

\* Nothing one process commits is written over by the other from a planet that
\* did not have it, unless Postgres dropped a session that had the lease.
\* (persistRevisioned, lockEconomyRevision)
THEOREM LeaseNothingUndone == Spec => NothingUndone
<1>1. Typed /\ Quiet /\ [Next]_vars => [~dropped => pg.has \subseteq pg'.has]_vars
    BY QuietNext
<1> QED
    BY <1>1, QuietAlways, PTL DEF Spec, NothingUndone

=============================================================================
