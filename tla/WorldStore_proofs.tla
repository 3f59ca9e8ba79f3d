-------------------------- MODULE WorldStore_proofs --------------------------
(***************************************************************************)
(* Proofs about WorldStore, for any companies, lots and requests, with     *)
(* every fault and whatever the bounds.                                    *)
(***************************************************************************)
EXTENDS WorldStore, TLAPS

-----------------------------------------------------------------------------
(* The invariant: what a request and the pulse carry from one await to the *)
(* next.                                                                   *)

Planet == [lots : Board, tick : 0 .. MaxTick]
Revisions == Nat \ {0}
Commands == {"accept", "cancel"}

Loading == [pc : {"load"}, kind : Commands, company : Companies, lot : Lots,
            seen : Revisions]
Installing == [pc : {"install"}, kind : Commands, company : Companies,
               lot : Lots, world : Planet, seen : Revisions]
Serving == [pc : {"run"}, kind : Commands, company : Companies, lot : Lots,
            world : Planet]
Hydrated == [pc : {"run"}, kind : Commands, company : Companies, lot : Lots,
             world : Planet, seen : Revisions]
Published == [pc : {"missions"}, company : Companies, lot : Lots,
              world : Planet, open : SUBSET Lots]
Slicing == [pc : {"slice"}, lot : Lots, world : Planet]
Sliced == [pc : {"ack"}, lot : Lots, world : Planet, rev : Revisions]

Request == {Idle} \cup Loading \cup Installing \cup Serving \cup Hydrated
           \cup Published \cup Slicing \cup Sliced

ChunkLoading == [pc : {"load"}, seen : Revisions, dirty : BOOLEAN]
ChunkInstalling == [pc : {"install"}, dirty : BOOLEAN, world : Planet,
                    seen : Revisions]
ChunkTicking == [pc : {"tick", "between"}, dirty : BOOLEAN]
Saving == [pc : {"save"}, snap : Planet, upserts : SUBSET Lots]
Overlaid == [pc : {"commit"}, snap : Planet, upserts : SUBSET Lots,
             rows : Board]
Saved == [pc : {"ack"}, snap : Planet, rev : Revisions]
Flushing == [pc : {"flush"}, lots : SUBSET Lots, rows : Board]
Flushed == [pc : {"flushed"}, rev : Revisions]

Pulses == {Idle} \cup ChunkLoading \cup ChunkInstalling \cup ChunkTicking
          \cup Saving \cup Overlaid \cup Saved \cup [pc : {"dirty"}]
          \cup Flushing \cup Flushed

StoreInv ==
    /\ TypeOK
    /\ req \in [Reqs -> Request]
    /\ pulse \in Pulses
    /\ LocksHeld

-----------------------------------------------------------------------------
(* What each place carries.                                                *)

\* A request's place says what it holds.
LEMMA RequestAt ==
    ASSUME NEW q \in Request
    PROVE  /\ q.pc = "load" => q \in Loading
           /\ q.pc = "install" => q \in Installing
           /\ q.pc = "run" => q \in Serving \/ q \in Hydrated
           /\ q.pc = "missions" => q \in Published
           /\ q.pc = "slice" => q \in Slicing
           /\ q.pc = "ack" => q \in Sliced
BY DEF Request, Idle, Loading, Installing, Serving, Hydrated, Published,
       Slicing, Sliced

\* And so does the pulse's.
LEMMA PulseAt ==
    ASSUME NEW p \in Pulses
    PROVE  /\ p.pc = "load" => p \in ChunkLoading
           /\ p.pc = "install" => p \in ChunkInstalling
           /\ p.pc \in {"tick", "between"} => p \in ChunkTicking
           /\ p.pc = "save" => p \in Saving
           /\ p.pc = "commit" => p \in Overlaid
           /\ p.pc = "ack" => p \in Saved
           /\ p.pc = "flush" => p \in Flushing
           /\ p.pc = "flushed" => p \in Flushed
BY DEF Pulses, Idle, ChunkLoading, ChunkInstalling, ChunkTicking, Saving,
       Overlaid, Saved, Flushing, Flushed

\* The planet of a new world is one.
LEMMA UnclaimedPlanet == Unclaimed \in Planet
BY StoreAssumption DEF Unclaimed, Planet, Board

\* A slice leaves a planet in RAM.
LEMMA SliceApplied ==
    ASSUME ram \in Planet \cup {NoWorld}, dirtyLots \subseteq Lots,
           NEW world \in Planet, NEW lot \in Lots, ApplySlice(world, lot)
    PROVE  ram' \in Planet \cup {NoWorld} /\ dirtyLots' \subseteq Lots
BY DEF ApplySlice, Planet, Board

\* And so does a clock that is not past the one the wall owes.
LEMMA ClockAcked ==
    ASSUME ram \in Planet \cup {NoWorld}, NEW tick \in 0 .. MaxTick,
           AckClock(tick)
    PROVE  ram' \in Planet \cup {NoWorld}
BY DEF AckClock, Planet

\* Rows saved over a planet's lots give a board.
LEMMA UpsertedBoard ==
    ASSUME pg \in Planet, NEW rows \in Board, NEW lots
    PROVE  Upserted(lots, rows) \in Board
BY DEF Upserted, Planet, Board

\* The planet a handler clones, and the one it leaves.
LEMMA HeldPlanet ==
    ASSUME StoreInv, NEW r \in Reqs, req[r].pc = "run"
    PROVE  /\ Held(r) \in Planet
           /\ req[r].lot \in Lots /\ req[r].company \in Companies
           /\ OwnerAfter(r) \in Companies \cup {Free}
           /\ MissionsAfter(r) \subseteq Lots
           /\ [Held(r) EXCEPT !.lots[req[r].lot] = OwnerAfter(r)] \in Planet
<1>1. /\ req[r].world \in Planet
      /\ req[r].lot \in Lots
      /\ req[r].company \in Companies
    BY RequestAt DEF StoreInv, Serving, Hydrated
<1>2. Held(r) \in Planet
    BY <1>1 DEF StoreInv, TypeOK, Held, Planet
<1>3. OwnerAfter(r) \in Companies \cup {Free}
    BY <1>1, <1>2 DEF OwnerAfter, Planet, Board
<1>4. MissionsAfter(r) \subseteq Lots
    BY <1>1 DEF MissionsAfter, StoreInv, TypeOK
<1>5. [Held(r) EXCEPT !.lots[req[r].lot] = OwnerAfter(r)] \in Planet
    BY <1>1, <1>2, <1>3 DEF Planet, Board
<1> QED
    BY <1>1, <1>2, <1>3, <1>4, <1>5

\* One request moves to another place, the pulse and the row lock stay, and
\* the career locks go where the request's new place says.
LEMMA RequestMoves ==
    ASSUME StoreInv, NEW r \in Reqs, NEW q \in Request,
           req' = [req EXCEPT ![r] = q],
           UNCHANGED <<pulse, rowLock>>,
           \/ /\ UNCHANGED lock
              /\ req[r].pc \in {"load", "install", "run", "missions"}
                 <=> q.pc \in {"load", "install", "run", "missions"}
           \/ /\ lock = Nobody /\ lock' = r
              /\ q.pc \in {"load", "install", "run", "missions"}
           \/ /\ lock = r /\ lock' = Nobody
              /\ q.pc \notin {"load", "install", "run", "missions"}
    PROVE  /\ req' \in [Reqs -> Request] /\ pulse' \in Pulses /\ LocksHeld'
           /\ lock' \in Reqs \cup {Pulse, Nobody}
           /\ rowLock' \in {Save, Nobody}
<1>1. /\ req' \in [Reqs -> Request]
      /\ req'[r] = q
      /\ \A s \in Reqs : s # r => req'[s] = req[s]
    BY DEF StoreInv
<1>2. lock' \in Reqs \cup {Pulse, Nobody}
    BY DEF StoreInv, TypeOK
<1>3. \A s \in Reqs :
          lock' = s <=> req'[s].pc \in {"load", "install", "run", "missions"}
    BY <1>1, StoreAssumption DEF StoreInv, LocksHeld
<1>4. lock' = Pulse <=> pulse'.pc \in {"load", "install", "tick"}
    BY <1>1, StoreAssumption DEF StoreInv, LocksHeld
<1> QED
    BY <1>1, <1>2, <1>3, <1>4 DEF StoreInv, TypeOK, LocksHeld

\* The same of the pulse.
LEMMA PulseMoves ==
    ASSUME StoreInv, pulse' \in Pulses, UNCHANGED req,
           \/ /\ UNCHANGED lock
              /\ pulse.pc \in {"load", "install", "tick"}
                 <=> pulse'.pc \in {"load", "install", "tick"}
           \/ /\ lock = Nobody /\ lock' = Pulse
              /\ pulse'.pc \in {"load", "install", "tick"}
           \/ /\ lock = Pulse /\ lock' = Nobody
              /\ pulse'.pc \notin {"load", "install", "tick"},
           \/ UNCHANGED rowLock /\ (pulse.pc = "commit" <=> pulse'.pc = "commit")
           \/ rowLock' = Save /\ pulse'.pc = "commit"
           \/ rowLock' = Nobody /\ pulse'.pc # "commit"
    PROVE  /\ req' \in [Reqs -> Request] /\ LocksHeld'
           /\ lock' \in Reqs \cup {Pulse, Nobody}
           /\ rowLock' \in {Save, Nobody}
<1>1. lock' \in Reqs \cup {Pulse, Nobody} /\ rowLock' \in {Save, Nobody}
    BY DEF StoreInv, TypeOK
<1>2. \A s \in Reqs :
          lock' = s <=> req'[s].pc \in {"load", "install", "run", "missions"}
    BY StoreAssumption DEF StoreInv, LocksHeld
<1>3. lock' = Pulse <=> pulse'.pc \in {"load", "install", "tick"}
    BY StoreAssumption DEF StoreInv, LocksHeld
<1>4. rowLock' = Save <=> pulse'.pc = "commit"
    BY StoreAssumption DEF StoreInv, LocksHeld
<1> QED
    BY <1>1, <1>2, <1>3, <1>4 DEF StoreInv, LocksHeld

-----------------------------------------------------------------------------
(* A command keeps the invariant.                                          *)

\* Taking the locks.
LEMMA StartKeeps ==
    ASSUME StoreInv, NEW r \in Reqs, NEW kind \in Kinds, NEW c \in Companies,
           NEW lot \in Lots, StartCommand(r, kind, c, lot)
    PROVE  StoreInv'
<1> DEFINE q == [pc |-> "load", kind |-> kind, company |-> c, lot |-> lot,
                 seen |-> pgRev]
<1>1. q \in Request
    BY StoreAssumption DEF StoreInv, TypeOK, Request, Loading, Commands, Revisions
<1>2. req' = [req EXCEPT ![r] = q] /\ lock = Nobody /\ lock' = r
    BY DEF StartCommand
<1>3. q.pc = "load" /\ UNCHANGED <<pulse, rowLock>>
    BY DEF StartCommand, pgVars
<1> HIDE DEF q
<1>4. /\ req' \in [Reqs -> Request] /\ pulse' \in Pulses /\ LocksHeld'
      /\ lock' \in Reqs \cup {Pulse, Nobody}
      /\ rowLock' \in {Save, Nobody}
    BY <1>1, <1>2, <1>3, RequestMoves
<1>5. commands' \in 0 .. MaxCommands
    BY StoreAssumption DEF StartCommand, StoreInv, TypeOK
<1> QED
    BY <1>4, <1>5 DEF StartCommand, StoreInv, TypeOK, ramVars, pgVars

\* Serving the planet in RAM.
LEMMA ServeRamKeeps ==
    ASSUME StoreInv, NEW r \in Reqs, ServeRam(r)
    PROVE  StoreInv'
<1> DEFINE q == [kind |-> req[r].kind, company |-> req[r].company,
                 lot |-> req[r].lot, pc |-> "run", world |-> ram]
<1>1. req[r] \in Request /\ req[r].pc = "load"
    BY DEF StoreInv, ServeRam
<1>2. q \in Request /\ q.pc = "run"
    BY <1>1, RequestAt DEF StoreInv, TypeOK, Request, Loading, Serving, ServeRam, Fresh, Planet
<1>3. req' = [req EXCEPT ![r] = q] /\ UNCHANGED lock
    BY <1>1, RequestAt DEF ServeRam, StoreInv, LocksHeld, Installing
<1>4. UNCHANGED <<pulse, rowLock>>
    BY DEF ServeRam, pgVars
<1> HIDE DEF q
<1>5. /\ req' \in [Reqs -> Request] /\ pulse' \in Pulses /\ LocksHeld'
      /\ lock' \in Reqs \cup {Pulse, Nobody}
      /\ rowLock' \in {Save, Nobody}
    BY <1>1, <1>2, <1>3, <1>4, RequestMoves
<1> QED
    BY <1>5 DEF ServeRam, StoreInv, TypeOK, ramVars, pgVars

\* Reading it from Postgres.
LEMMA ReadPgKeeps ==
    ASSUME StoreInv, NEW r \in Reqs, ReadPg(r)
    PROVE  StoreInv'
<1> DEFINE q == [kind |-> req[r].kind, company |-> req[r].company,
                 lot |-> req[r].lot, pc |-> "install", world |-> pg,
                 seen |-> pgRev]
<1>1. req[r] \in Request /\ req[r].pc = "load"
    BY DEF StoreInv, ReadPg
<1>2. q \in Request /\ q.pc = "install"
    BY <1>1, RequestAt DEF StoreInv, TypeOK, Request, Loading, Installing, Planet, Revisions
<1>3. req' = [req EXCEPT ![r] = q] /\ UNCHANGED lock
    BY <1>1, RequestAt DEF ReadPg, StoreInv, LocksHeld, Installing
<1>4. UNCHANGED <<pulse, rowLock>>
    BY DEF ReadPg, pgVars
<1> HIDE DEF q
<1>5. /\ req' \in [Reqs -> Request] /\ pulse' \in Pulses /\ LocksHeld'
      /\ lock' \in Reqs \cup {Pulse, Nobody}
      /\ rowLock' \in {Save, Nobody}
    BY <1>1, <1>2, <1>3, <1>4, RequestMoves
<1> QED
    BY <1>5 DEF ReadPg, StoreInv, TypeOK, ramVars, pgVars

\* Installing what was read.
LEMMA HydrateKeeps ==
    ASSUME StoreInv, NEW r \in Reqs, Hydrate(r)
    PROVE  StoreInv'
<1> DEFINE q == [req[r] EXCEPT !.pc = "run"]
<1>1. req[r] \in Request /\ req[r].pc = "install"
    BY DEF StoreInv, Hydrate
<1>2. q \in Request /\ q.pc = "run"
    BY <1>1, RequestAt DEF StoreInv, TypeOK, Request, Installing, Hydrated
<1>3. req' = [req EXCEPT ![r] = q] /\ UNCHANGED lock
    BY <1>1, RequestAt DEF Hydrate, StoreInv, LocksHeld, Installing
<1>4. UNCHANGED <<pulse, rowLock>>
    BY DEF Hydrate, pgVars
<1> HIDE DEF q
<1>5. /\ req' \in [Reqs -> Request] /\ pulse' \in Pulses /\ LocksHeld'
      /\ lock' \in Reqs \cup {Pulse, Nobody}
      /\ rowLock' \in {Save, Nobody}
    BY <1>1, <1>2, <1>3, <1>4, RequestMoves
<1>6. ram' \in Planet \cup {NoWorld} /\ ramRev' \in Nat
    BY <1>1, RequestAt DEF Hydrate, Installing, Revisions
<1> QED
    BY <1>5, <1>6 DEF Hydrate, StoreInv, TypeOK, ramVars, pgVars, Planet

\* Running the handler.
LEMMA RunKeeps ==
    ASSUME StoreInv, NEW r \in Reqs, RunCommand(r)
    PROVE  StoreInv'
<1> DEFINE q == [pc |-> "missions", company |-> req[r].company,
                 lot |-> req[r].lot,
                 world |-> [Held(r) EXCEPT !.lots[req[r].lot] = OwnerAfter(r)],
                 open |-> MissionsAfter(r)]
<1>1. req[r] \in Request /\ req[r].pc = "run"
    BY DEF StoreInv, RunCommand
<1>2. q \in Request /\ q.pc = "missions"
    BY <1>1, RequestAt, HeldPlanet DEF StoreInv, TypeOK, Request, Published
<1>3. req' = [req EXCEPT ![r] = q] /\ UNCHANGED lock
    BY <1>1, RequestAt DEF RunCommand, StoreInv, LocksHeld, Installing
<1>4. UNCHANGED <<pulse, rowLock>>
    BY DEF RunCommand, pgVars
<1> HIDE DEF q
<1>5. /\ req' \in [Reqs -> Request] /\ pulse' \in Pulses /\ LocksHeld'
      /\ lock' \in Reqs \cup {Pulse, Nobody}
      /\ rowLock' \in {Save, Nobody}
    BY <1>1, <1>2, <1>3, <1>4, RequestMoves
<1>6. ram' \in Planet \cup {NoWorld} /\ dirtyLots' \subseteq Lots
    <2>1. ram \in Planet \cup {NoWorld} /\ dirtyLots \subseteq Lots
        BY DEF StoreInv, TypeOK, Planet
    <2> QED
        BY <1>1, <2>1, HeldPlanet, SliceApplied DEF RunCommand
<1> QED
    BY <1>5, <1>6 DEF RunCommand, StoreInv, TypeOK, ramVars, pgVars, Planet

\* Refusing it.
LEMMA RejectKeeps ==
    ASSUME StoreInv, NEW r \in Reqs, RejectCommand(r)
    PROVE  StoreInv'
<1> DEFINE q == Idle
<1>1. req[r] \in Request /\ req[r].pc = "run"
    BY DEF StoreInv, RejectCommand
<1>2. q \in Request /\ q.pc = "idle"
    BY <1>1, RequestAt DEF StoreInv, TypeOK, Request, Idle
<1>3. req' = [req EXCEPT ![r] = q] /\ lock = r /\ lock' = Nobody
    BY <1>1, RequestAt DEF RejectCommand, StoreInv, LocksHeld, Installing
<1>4. UNCHANGED <<pulse, rowLock>>
    BY DEF RejectCommand, pgVars
<1> HIDE DEF q
<1>5. /\ req' \in [Reqs -> Request] /\ pulse' \in Pulses /\ LocksHeld'
      /\ lock' \in Reqs \cup {Pulse, Nobody}
      /\ rowLock' \in {Save, Nobody}
    BY <1>1, <1>2, <1>3, <1>4, RequestMoves
<1> QED
    BY <1>5 DEF RejectCommand, StoreInv, TypeOK, ramVars, pgVars

\* Saving the missions and releasing the locks.
LEMMA SaveMissionsKeeps ==
    ASSUME StoreInv, NEW r \in Reqs, SaveMissions(r)
    PROVE  StoreInv'
<1> DEFINE q == [pc |-> "slice", lot |-> req[r].lot, world |-> req[r].world]
<1>1. req[r] \in Request /\ req[r].pc = "missions"
    BY DEF StoreInv, SaveMissions
<1>2. q \in Request /\ q.pc = "slice"
    BY <1>1, RequestAt DEF StoreInv, TypeOK, Request, Published, Slicing
<1>3. req' = [req EXCEPT ![r] = q] /\ lock = r /\ lock' = Nobody
    BY <1>1, RequestAt DEF SaveMissions, StoreInv, LocksHeld, Installing
<1>4. UNCHANGED <<pulse, rowLock>>
    BY DEF SaveMissions, pgVars
<1> HIDE DEF q
<1>5. /\ req' \in [Reqs -> Request] /\ pulse' \in Pulses /\ LocksHeld'
      /\ lock' \in Reqs \cup {Pulse, Nobody}
      /\ rowLock' \in {Save, Nobody}
    BY <1>1, <1>2, <1>3, <1>4, RequestMoves
<1>6. missions' \in [Companies -> SUBSET Lots]
    BY <1>1, RequestAt DEF SaveMissions, StoreInv, TypeOK, Published
<1> QED
    BY <1>5, <1>6 DEF SaveMissions, StoreInv, TypeOK, ramVars, pgVars

\* Committing the slice.
LEMMA CommitSliceKeeps ==
    ASSUME StoreInv, NEW r \in Reqs, CommitSlice(r)
    PROVE  StoreInv'
<1> DEFINE q == [pc |-> "ack", lot |-> req[r].lot, world |-> req[r].world,
                 rev |-> pgRev + 1]
<1>1. req[r] \in Request /\ req[r].pc = "slice"
    BY DEF StoreInv, CommitSlice
<1>2. q \in Request /\ q.pc = "ack"
    BY <1>1, RequestAt DEF StoreInv, TypeOK, Request, Slicing, Sliced, Revisions
<1>3. req' = [req EXCEPT ![r] = q] /\ UNCHANGED lock
    BY <1>1, RequestAt DEF CommitSlice, StoreInv, LocksHeld, Installing
<1>4. UNCHANGED <<pulse, rowLock>>
    BY DEF CommitSlice, pgVars
<1> HIDE DEF q
<1>5. /\ req' \in [Reqs -> Request] /\ pulse' \in Pulses /\ LocksHeld'
      /\ lock' \in Reqs \cup {Pulse, Nobody}
      /\ rowLock' \in {Save, Nobody}
    BY <1>1, <1>2, <1>3, <1>4, RequestMoves
<1>6. pg' \in Planet /\ pgRev' \in Revisions
    BY <1>1, RequestAt DEF CommitSlice, StoreInv, TypeOK, Slicing, Planet, Board,
       Revisions
<1> QED
    BY <1>5, <1>6 DEF CommitSlice, StoreInv, TypeOK, ramVars, pgVars, Planet, Revisions

\* Acknowledging it.
LEMMA AckSliceKeeps ==
    ASSUME StoreInv, NEW r \in Reqs, AckSlice(r)
    PROVE  StoreInv'
<1> DEFINE q == Idle
<1>1. req[r] \in Request /\ req[r].pc = "ack"
    BY DEF StoreInv, AckSlice
<1>2. q \in Request /\ q.pc = "idle"
    BY <1>1, RequestAt DEF StoreInv, TypeOK, Request, Idle
<1>3. req' = [req EXCEPT ![r] = q] /\ UNCHANGED lock
    BY <1>1, RequestAt DEF AckSlice, StoreInv, LocksHeld, Installing
<1>4. UNCHANGED <<pulse, rowLock>>
    BY DEF AckSlice, pgVars
<1> HIDE DEF q
<1>5. /\ req' \in [Reqs -> Request] /\ pulse' \in Pulses /\ LocksHeld'
      /\ lock' \in Reqs \cup {Pulse, Nobody}
      /\ rowLock' \in {Save, Nobody}
    BY <1>1, <1>2, <1>3, <1>4, RequestMoves
<1>6. ram' \in Planet \cup {NoWorld} /\ dirtyLots' \subseteq Lots
    <2>1. ram \in Planet \cup {NoWorld} /\ dirtyLots \subseteq Lots
        BY DEF StoreInv, TypeOK, Planet
    <2>2. req[r].world \in Planet /\ req[r].lot \in Lots
        BY <1>1, RequestAt DEF Sliced
    <2> QED
        BY <2>1, <2>2, SliceApplied DEF AckSlice
<1>7. ramRev' \in Nat
    BY <1>1, RequestAt DEF AckSlice, Sliced, Revisions
<1> QED
    BY <1>5, <1>6, <1>7 DEF AckSlice, StoreInv, TypeOK, ramVars, pgVars, Planet

\* Failing to save the missions.
LEMMA MissionsFailKeeps ==
    ASSUME StoreInv, NEW r \in Reqs, MissionsFail(r)
    PROVE  StoreInv'
<1> DEFINE q == Idle
<1>1. req[r] \in Request /\ req[r].pc = "missions"
    BY DEF StoreInv, MissionsFail
<1>2. q \in Request /\ q.pc = "idle"
    BY <1>1, RequestAt DEF StoreInv, TypeOK, Request, Idle
<1>3. req' = [req EXCEPT ![r] = q] /\ lock = r /\ lock' = Nobody
    BY <1>1, RequestAt DEF MissionsFail, StoreInv, LocksHeld, Installing
<1>4. UNCHANGED <<pulse, rowLock>>
    BY DEF MissionsFail, pgVars
<1> HIDE DEF q
<1>5. /\ req' \in [Reqs -> Request] /\ pulse' \in Pulses /\ LocksHeld'
      /\ lock' \in Reqs \cup {Pulse, Nobody}
      /\ rowLock' \in {Save, Nobody}
    BY <1>1, <1>2, <1>3, <1>4, RequestMoves
<1>6. faults' \in 0 .. MaxFaults
    BY StoreAssumption DEF MissionsFail, MayFault, StoreInv, TypeOK
<1> QED
    BY <1>5, <1>6 DEF MissionsFail, StoreInv, TypeOK, ramVars, pgVars

\* Failing to commit the slice.
LEMMA SliceFailsKeeps ==
    ASSUME StoreInv, NEW r \in Reqs, SliceFails(r)
    PROVE  StoreInv'
<1> DEFINE q == Idle
<1>1. req[r] \in Request /\ req[r].pc = "slice"
    BY DEF StoreInv, SliceFails
<1>2. q \in Request /\ q.pc = "idle"
    BY <1>1, RequestAt DEF StoreInv, TypeOK, Request, Idle
<1>3. req' = [req EXCEPT ![r] = q] /\ UNCHANGED lock
    BY <1>1, RequestAt DEF SliceFails, StoreInv, LocksHeld, Installing
<1>4. UNCHANGED <<pulse, rowLock>>
    BY DEF SliceFails, pgVars
<1> HIDE DEF q
<1>5. /\ req' \in [Reqs -> Request] /\ pulse' \in Pulses /\ LocksHeld'
      /\ lock' \in Reqs \cup {Pulse, Nobody}
      /\ rowLock' \in {Save, Nobody}
    BY <1>1, <1>2, <1>3, <1>4, RequestMoves
<1>6. faults' \in 0 .. MaxFaults
    BY StoreAssumption DEF SliceFails, MayFault, StoreInv, TypeOK
<1>7. ram' = NoWorld /\ ramRev' \in Nat
    BY DEF SliceFails, DropRam
<1> QED
    BY <1>5, <1>6, <1>7 DEF SliceFails, StoreInv, TypeOK, ramVars, pgVars

-----------------------------------------------------------------------------
(* The pulse keeps it.                                                     *)

\* A chunk starts.
LEMMA StartChunkKeeps ==
    ASSUME StoreInv, StartChunk
    PROVE  StoreInv'
<1>1. pulse \in Pulses
    BY DEF StoreInv
<1>2. pulse' \in Pulses
    BY <1>1, PulseAt DEF StartChunk, StoreInv, TypeOK, Pulses, ChunkLoading, ChunkTicking, Revisions
<1>3. UNCHANGED req
    BY DEF StartChunk
<1>4. /\ req' \in [Reqs -> Request] /\ LocksHeld'
      /\ lock' \in Reqs \cup {Pulse, Nobody}
      /\ rowLock' \in {Save, Nobody}
    BY <1>2, <1>3, PulseMoves DEF StartChunk, StoreInv, LocksHeld, Idle, pgVars
<1> QED
    BY <1>2, <1>3, <1>4 DEF StartChunk, StoreInv, TypeOK, ramVars, pgVars

\* It serves RAM.
LEMMA PulseServeRamKeeps ==
    ASSUME StoreInv, PulseServeRam
    PROVE  StoreInv'
<1>1. pulse \in Pulses
    BY DEF StoreInv
<1>2. pulse' \in Pulses
    BY <1>1, PulseAt DEF PulseServeRam, StoreInv, TypeOK, Pulses, ChunkLoading, ChunkTicking
<1>3. UNCHANGED req
    BY DEF PulseServeRam
<1>4. /\ req' \in [Reqs -> Request] /\ LocksHeld'
      /\ lock' \in Reqs \cup {Pulse, Nobody}
      /\ rowLock' \in {Save, Nobody}
    BY <1>2, <1>3, PulseMoves DEF PulseServeRam, StoreInv, LocksHeld, Idle, pgVars
<1> QED
    BY <1>2, <1>3, <1>4 DEF PulseServeRam, StoreInv, TypeOK, ramVars, pgVars

\* It reads Postgres.
LEMMA PulseReadPgKeeps ==
    ASSUME StoreInv, PulseReadPg
    PROVE  StoreInv'
<1>1. pulse \in Pulses
    BY DEF StoreInv
<1>2. pulse' \in Pulses
    BY <1>1, PulseAt DEF PulseReadPg, StoreInv, TypeOK, Pulses, ChunkLoading, ChunkInstalling, Planet, Revisions
<1>3. UNCHANGED req
    BY DEF PulseReadPg
<1>4. /\ req' \in [Reqs -> Request] /\ LocksHeld'
      /\ lock' \in Reqs \cup {Pulse, Nobody}
      /\ rowLock' \in {Save, Nobody}
    BY <1>2, <1>3, PulseMoves DEF PulseReadPg, StoreInv, LocksHeld, Idle, pgVars
<1> QED
    BY <1>2, <1>3, <1>4 DEF PulseReadPg, StoreInv, TypeOK, ramVars, pgVars

\* It installs what it read.
LEMMA PulseHydrateKeeps ==
    ASSUME StoreInv, PulseHydrate
    PROVE  StoreInv'
<1>1. pulse \in Pulses
    BY DEF StoreInv
<1>2. pulse' \in Pulses
    BY <1>1, PulseAt DEF PulseHydrate, StoreInv, TypeOK, Pulses, ChunkInstalling, ChunkTicking
<1>3. UNCHANGED req
    BY DEF PulseHydrate
<1>4. /\ req' \in [Reqs -> Request] /\ LocksHeld'
      /\ lock' \in Reqs \cup {Pulse, Nobody}
      /\ rowLock' \in {Save, Nobody}
    BY <1>2, <1>3, PulseMoves DEF PulseHydrate, StoreInv, LocksHeld, Idle, pgVars
<1>5. ram' \in Planet /\ ramRev' \in Nat
    BY <1>1, PulseAt DEF PulseHydrate, ChunkInstalling, Revisions
<1> QED
    BY <1>2, <1>3, <1>4, <1>5 DEF PulseHydrate, StoreInv, TypeOK, ramVars, pgVars, Planet

\* It ticks.
LEMMA TickKeeps ==
    ASSUME StoreInv, NEW n \in {0, 1}, TickPulse(n)
    PROVE  StoreInv'
<1>1. pulse \in Pulses
    BY DEF StoreInv
<1>2. pulse' \in Pulses
    BY <1>1, PulseAt DEF TickPulse, StoreInv, TypeOK, Pulses, ChunkTicking
<1>3. UNCHANGED req
    BY DEF TickPulse
<1>4. /\ req' \in [Reqs -> Request] /\ LocksHeld'
      /\ lock' \in Reqs \cup {Pulse, Nobody}
      /\ rowLock' \in {Save, Nobody}
    BY <1>2, <1>3, PulseMoves DEF TickPulse, StoreInv, LocksHeld, Idle, pgVars
<1>5. ram' \in Planet \cup {NoWorld}
    <2>1. ram \in Planet \cup {NoWorld} /\ MaxTick \in Nat
        BY StoreAssumption DEF StoreInv, TypeOK, Planet
    <2>2. LiveTick + n \in 0 .. MaxTick
        BY <2>1 DEF TickPulse, LiveTick, Planet
    <2> QED
        BY <2>1, <2>2, ClockAcked DEF TickPulse
<1> QED
    BY <1>2, <1>3, <1>4, <1>5 DEF TickPulse, StoreInv, TypeOK, ramVars, pgVars, Planet

\* The pulse ends unsaved.
LEMMA EndPulseKeeps ==
    ASSUME StoreInv, EndPulse
    PROVE  StoreInv'
<1>1. pulse \in Pulses
    BY DEF StoreInv
<1>2. pulse' \in Pulses
    BY <1>1, PulseAt DEF EndPulse, StoreInv, TypeOK, Pulses, Idle
<1>3. UNCHANGED req
    BY DEF EndPulse
<1>4. /\ req' \in [Reqs -> Request] /\ LocksHeld'
      /\ lock' \in Reqs \cup {Pulse, Nobody}
      /\ rowLock' \in {Save, Nobody}
    BY <1>2, <1>3, PulseMoves DEF EndPulse, StoreInv, LocksHeld, Idle, pgVars
<1> QED
    BY <1>2, <1>3, <1>4 DEF EndPulse, StoreInv, TypeOK, ramVars, pgVars

\* It takes its snapshot.
LEMMA SnapshotKeeps ==
    ASSUME StoreInv, NEW full \in BOOLEAN, SnapshotPulse(full)
    PROVE  StoreInv'
<1>1. pulse \in Pulses
    BY DEF StoreInv
<1>2. pulse' \in Pulses
    BY <1>1, PulseAt DEF SnapshotPulse, StoreInv, TypeOK, Pulses, Saving, Planet
<1>3. UNCHANGED req
    BY DEF SnapshotPulse
<1>4. /\ req' \in [Reqs -> Request] /\ LocksHeld'
      /\ lock' \in Reqs \cup {Pulse, Nobody}
      /\ rowLock' \in {Save, Nobody}
    BY <1>2, <1>3, PulseMoves DEF SnapshotPulse, StoreInv, LocksHeld, Idle, pgVars
<1> QED
    BY <1>2, <1>3, <1>4 DEF SnapshotPulse, StoreInv, TypeOK, ramVars, pgVars

\* It lays the live rows over the snapshot's.
LEMMA OverlayKeeps ==
    ASSUME StoreInv, OverlayPulse
    PROVE  StoreInv'
<1>1. pulse \in Pulses
    BY DEF StoreInv
<1>2. pulse' \in Pulses
    BY <1>1, PulseAt DEF OverlayPulse, StoreInv, TypeOK, Pulses, Saving, Overlaid, Planet
<1>3. UNCHANGED req
    BY DEF OverlayPulse
<1>4. /\ req' \in [Reqs -> Request] /\ LocksHeld'
      /\ lock' \in Reqs \cup {Pulse, Nobody}
      /\ rowLock' \in {Save, Nobody}
    BY <1>2, <1>3, PulseMoves DEF OverlayPulse, StoreInv, LocksHeld, Idle, pgVars
<1> QED
    BY <1>2, <1>3, <1>4 DEF OverlayPulse, StoreInv, TypeOK, ramVars, pgVars

\* It commits.
LEMMA CommitPulseKeeps ==
    ASSUME StoreInv, CommitPulse
    PROVE  StoreInv'
<1>1. pulse \in Pulses
    BY DEF StoreInv
<1>2. pulse' \in Pulses
    BY <1>1, PulseAt DEF CommitPulse, StoreInv, TypeOK, Pulses, Overlaid, Saved, Revisions
<1>3. UNCHANGED req
    BY DEF CommitPulse
<1>4. /\ req' \in [Reqs -> Request] /\ LocksHeld'
      /\ lock' \in Reqs \cup {Pulse, Nobody}
      /\ rowLock' \in {Save, Nobody}
    BY <1>2, <1>3, PulseMoves DEF CommitPulse, StoreInv, LocksHeld, Idle, pgVars
<1>5. pg' \in Planet /\ pgRev' \in Revisions
    <2>1. /\ pg \in Planet /\ pgRev \in Revisions
          /\ pulse.rows \in Board /\ pulse.snap \in Planet
        BY <1>1, PulseAt DEF CommitPulse, StoreInv, TypeOK, Planet, Overlaid, Revisions
    <2>2. Upserted(pulse.upserts, pulse.rows) \in Board
        BY <2>1, UpsertedBoard
    <2> QED
        BY <2>1, <2>2 DEF CommitPulse, Planet, Revisions
<1> QED
    BY <1>2, <1>3, <1>4, <1>5 DEF CommitPulse, StoreInv, TypeOK, ramVars, pgVars, Planet, Revisions

\* It acknowledges its clock.
LEMMA AckPulseKeeps ==
    ASSUME StoreInv, AckPulse
    PROVE  StoreInv'
<1>1. pulse \in Pulses
    BY DEF StoreInv
<1>2. pulse' \in Pulses
    BY <1>1, PulseAt DEF AckPulse, StoreInv, TypeOK, Pulses, Saved
<1>3. UNCHANGED req
    BY DEF AckPulse
<1>4. /\ req' \in [Reqs -> Request] /\ LocksHeld'
      /\ lock' \in Reqs \cup {Pulse, Nobody}
      /\ rowLock' \in {Save, Nobody}
    BY <1>2, <1>3, PulseMoves DEF AckPulse, StoreInv, LocksHeld, Idle, pgVars
<1>5. /\ ram' \in Planet \cup {NoWorld} /\ ramRev' \in Nat
      /\ baseline' \in Board
    <2>1. /\ ram \in Planet \cup {NoWorld}
          /\ pulse.snap.tick \in 0 .. MaxTick /\ pulse.snap.lots \in Board
          /\ pulse.rev \in Nat
        BY <1>1, PulseAt DEF AckPulse, StoreInv, TypeOK, Planet, Saved, Revisions
    <2> QED
        BY <2>1, ClockAcked DEF AckPulse
<1> QED
    BY <1>2, <1>3, <1>4, <1>5 DEF AckPulse, StoreInv, TypeOK, ramVars, pgVars, Planet

\* It starts its flush.
LEMMA StartFlushKeeps ==
    ASSUME StoreInv, StartFlush
    PROVE  StoreInv'
<1>1. pulse \in Pulses
    BY DEF StoreInv
<1>2. pulse' \in Pulses
    BY <1>1, PulseAt DEF StartFlush, StoreInv, TypeOK, Pulses, Flushing, Idle, Planet
<1>3. UNCHANGED req
    BY DEF StartFlush
<1>4. /\ req' \in [Reqs -> Request] /\ LocksHeld'
      /\ lock' \in Reqs \cup {Pulse, Nobody}
      /\ rowLock' \in {Save, Nobody}
    BY <1>2, <1>3, PulseMoves DEF StartFlush, StoreInv, LocksHeld, Idle, pgVars
<1>5. dirtyLots' \subseteq Lots
    BY DEF StartFlush, StoreInv, TypeOK
<1> QED
    BY <1>2, <1>3, <1>4, <1>5 DEF StartFlush, StoreInv, TypeOK, ramVars, pgVars

\* It commits it.
LEMMA CommitFlushKeeps ==
    ASSUME StoreInv, CommitFlush
    PROVE  StoreInv'
<1>1. pulse \in Pulses
    BY DEF StoreInv
<1>2. pulse' \in Pulses
    BY <1>1, PulseAt DEF CommitFlush, StoreInv, TypeOK, Pulses, Flushing, Flushed, Revisions
<1>3. UNCHANGED req
    BY DEF CommitFlush
<1>4. /\ req' \in [Reqs -> Request] /\ LocksHeld'
      /\ lock' \in Reqs \cup {Pulse, Nobody}
      /\ rowLock' \in {Save, Nobody}
    BY <1>2, <1>3, PulseMoves DEF CommitFlush, StoreInv, LocksHeld, Idle, pgVars
<1>5. pg' \in Planet /\ pgRev' \in Revisions
    <2>1. /\ pg \in Planet /\ pgRev \in Revisions
          /\ pulse.rows \in Board
        BY <1>1, PulseAt DEF CommitFlush, StoreInv, TypeOK, Planet, Flushing, Revisions
    <2>2. Upserted(pulse.lots, pulse.rows) \in Board
        BY <2>1, UpsertedBoard
    <2> QED
        BY <2>1, <2>2 DEF CommitFlush, Planet, Revisions
<1> QED
    BY <1>2, <1>3, <1>4, <1>5 DEF CommitFlush, StoreInv, TypeOK, ramVars, pgVars, Planet, Revisions

\* It acknowledges it.
LEMMA AckFlushKeeps ==
    ASSUME StoreInv, AckFlush
    PROVE  StoreInv'
<1>1. pulse \in Pulses
    BY DEF StoreInv
<1>2. pulse' \in Pulses
    BY <1>1, PulseAt DEF AckFlush, StoreInv, TypeOK, Pulses, Flushed
<1>3. UNCHANGED req
    BY DEF AckFlush
<1>4. /\ req' \in [Reqs -> Request] /\ LocksHeld'
      /\ lock' \in Reqs \cup {Pulse, Nobody}
      /\ rowLock' \in {Save, Nobody}
    BY <1>2, <1>3, PulseMoves DEF AckFlush, StoreInv, LocksHeld, Idle, pgVars
<1>5. ramRev' \in Nat
    BY <1>1, PulseAt DEF AckFlush, Flushed, Revisions
<1> QED
    BY <1>2, <1>3, <1>4, <1>5 DEF AckFlush, StoreInv, TypeOK, ramVars, pgVars

\* Its save, or its flush, fails.
LEMMA SaveFailsKeeps ==
    ASSUME StoreInv, SaveFails
    PROVE  StoreInv'
<1>1. pulse \in Pulses
    BY DEF StoreInv
<1>2. pulse' \in Pulses
    BY <1>1, PulseAt DEF SaveFails, StoreInv, TypeOK, Pulses, Idle
<1>3. UNCHANGED req
    BY DEF SaveFails
<1>4. /\ req' \in [Reqs -> Request] /\ LocksHeld'
      /\ lock' \in Reqs \cup {Pulse, Nobody}
      /\ rowLock' \in {Save, Nobody}
    BY <1>2, <1>3, PulseMoves DEF SaveFails, StoreInv, LocksHeld, Idle, pgVars
<1>5. faults' \in 0 .. MaxFaults /\ ram' = NoWorld /\ ramRev' = 0
    BY StoreAssumption DEF SaveFails, MayFault, DropRam, StoreInv, TypeOK
<1> QED
    BY <1>2, <1>3, <1>4, <1>5 DEF SaveFails, StoreInv, TypeOK, ramVars, pgVars

\* A restart.
LEMMA CrashKeeps ==
    ASSUME StoreInv, Crash
    PROVE  StoreInv'
<1>1. /\ faults' \in 0 .. MaxFaults /\ ram' = NoWorld /\ ramRev' = 0
      /\ dirtyLots' = {} /\ baseline' = NoWorld
    BY StoreAssumption DEF Crash, MayFault, DropRam, StoreInv, TypeOK
<1>2. /\ lock' = Nobody /\ rowLock' = Nobody /\ pulse' = Idle
      /\ req' = [r \in Reqs |-> Idle]
    BY DEF Crash
<1>3. req' \in [Reqs -> Request] /\ pulse' \in Pulses
    BY <1>2 DEF Request, Pulses
<1>4. LocksHeld'
    BY <1>2, StoreAssumption DEF LocksHeld, Idle, Pulse, Save
<1> QED
    BY <1>1, <1>2, <1>3, <1>4 DEF Crash, StoreInv, TypeOK

-----------------------------------------------------------------------------
(* The theorems.                                                           *)

\* A new world satisfies the invariant.
LEMMA InitStore == Init => StoreInv
<1> SUFFICES ASSUME Init PROVE StoreInv
    OBVIOUS
<1>1. Unclaimed \in [lots : Board, tick : 0 .. MaxTick]
    BY UnclaimedPlanet DEF Planet
<1>2. TypeOK
    BY <1>1, StoreAssumption DEF Init, TypeOK
<1>3. req \in [Reqs -> Request] /\ pulse \in Pulses
    BY DEF Init, Request, Pulses
<1>4. LocksHeld
    BY StoreAssumption DEF Init, LocksHeld, Idle, Pulse, Save
<1> QED
    BY <1>2, <1>3, <1>4 DEF StoreInv

\* Every step keeps it.
LEMMA NextStore == StoreInv /\ [Next]_vars => StoreInv'
<1> SUFFICES ASSUME StoreInv, [Next]_vars PROVE StoreInv'
    OBVIOUS
<1>1. CASE UNCHANGED vars
    BY <1>1 DEF StoreInv, TypeOK, LocksHeld, vars, ramVars, pgVars
<1>2. ASSUME NEW r \in Reqs, Send(r)
      PROVE  StoreInv'
    BY <1>2, StartKeeps DEF Send
<1>3. ASSUME NEW r \in Reqs, Serve(r)
      PROVE  StoreInv'
    BY <1>3, ServeRamKeeps, ReadPgKeeps, HydrateKeeps, RunKeeps, RejectKeeps,
       SaveMissionsKeeps, CommitSliceKeeps, AckSliceKeeps DEF Serve
<1>4. CASE PulseStep
    BY <1>4, StartChunkKeeps, PulseServeRamKeeps, PulseReadPgKeeps,
       PulseHydrateKeeps, TickKeeps, EndPulseKeeps, SnapshotKeeps, OverlayKeeps,
       CommitPulseKeeps, AckPulseKeeps, StartFlushKeeps, CommitFlushKeeps,
       AckFlushKeeps DEF PulseStep
<1>5. CASE Fault
    BY <1>5, MissionsFailKeeps, SliceFailsKeeps, SaveFailsKeeps, CrashKeeps
       DEF Fault
<1> QED
    BY <1>1, <1>2, <1>3, <1>4, <1>5 DEF Next

\* Every behaviour has the invariant.
THEOREM StoreInvariant == Spec => []StoreInv
<1> QED
    BY InitStore, NextStore, PTL DEF Spec

\* Every variable holds a value of its kind, whatever fails or restarts, and
\* no clock, in RAM or in Postgres, passes the tick the wall clock owes.
THEOREM StoreTypeCorrect == Spec => []TypeOK
<1>1. StoreInv => TypeOK
    BY DEF StoreInv
<1> QED
    BY <1>1, StoreInvariant, PTL

\* The career locks are held exactly by the request or the chunk between its
\* load and its release, so by one of them at most, and the row lock exactly
\* by a save between its overlay and its commit: no failure and no restart
\* leaves one behind.
THEOREM StoreLocksHeld == Spec => []LocksHeld
<1>1. StoreInv => LocksHeld
    BY DEF StoreInv
<1> QED
    BY <1>1, StoreInvariant, PTL

=============================================================================
