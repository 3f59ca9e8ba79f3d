-------------------------- MODULE SimBridge_proofs --------------------------
(***************************************************************************)
(* Proofs about SimBridge, for any readers, any number of client objects,  *)
(* calls and dropped pipes.                                                *)
(***************************************************************************)
EXTENDS SimBridge, SequenceTheorems, TLAPS

-----------------------------------------------------------------------------
(* The invariant.                                                          *)

Waiting == {"queued", "resetting"}
Inside == {"opening", "reading", "reopening", "renewing"}

InLine(a) == \E i \in 1..Len(gate) : gate[i] = a

Distinct(s) == \A i, j \in 1..Len(s) : s[i] = s[j] => i = j

\* Where each actor may be.
ShortPcs == {"idle", "asked", "queued", "opening", "reading"}
StartPcs == {"idle", "stopping", "loading", "queued", "opening", "settling"}
TickPcs == {"idle", "pinging", "queued", "resetting", "reopening", "renewing",
            "sampling", "failed"}

Places ==
    /\ \A r \in Readers : pc[r] \in ShortPcs
    /\ pc[Inject] \in ShortPcs \cup {"stopping"}
    /\ pc[Start] \in StartPcs
    /\ pc[Tick] \in TickPcs
    /\ pc[Stop] \in {"idle", "stopping"}

\* Whoever is in line says so, and whoever was let in is its head.
Line ==
    \A a \in Gated :
        /\ InLine(a) <=> pc[a] \in Waiting \cup Inside
        /\ pc[a] \in Inside => Holds(a)

\* A short client has a socket only while it holds the gate.
Sockets == \A a \in Short : pipe[a] # "closed" => pc[a] \in Inside

\* Start and tick have a client object whenever they call one.
Handles ==
    /\ pc[Start] = "opening" => held[Start] \in Bridges
    /\ pc[Tick] \in {"reopening", "renewing", "sampling"} => held[Tick] \in Bridges

\* A start that no stop outdated is still wanted.
Heeded == pc[Start] # "idle" /\ ~stale => wanted

\* Watch does not run before its start has opened.
Halted ==
    pc[Start] \in {"stopping", "loading", "queued", "opening"} => ~running

-----------------------------------------------------------------------------
(* The line at the gate.                                                   *)

LineInv ==
    /\ gate \in Seq(Gated)
    /\ Distinct(gate)
    /\ pc \in [Actors -> Pcs]
    /\ Line

\* Short clients, Start and Tick are actors, and none of them is Stop.
LEMMA GatedFacts ==
    /\ Gated \subseteq Actors /\ Stop \in Actors /\ Stop \notin Gated
    /\ Short \subseteq Gated /\ Start \in Gated /\ Tick \in Gated /\ Inject \in Short
    /\ Start \notin Short /\ Tick \notin Short /\ Start # Tick
    /\ Readers \subseteq Short /\ Inject \notin Readers
BY BridgeAssumption DEF Gated, Actors, Short

\* The head of a line that is not empty is in it, at its first place.
LEMMA HeadInLine ==
    ASSUME gate \in Seq(Gated), NEW a, Holds(a)
    PROVE  Len(gate) > 0 /\ gate[1] = a /\ InLine(a)
BY DEF Holds, InLine

\* An actor that was not in line joins it at the end.
LEMMA JoinsLine ==
    ASSUME gate \in Seq(Gated), Distinct(gate),
           NEW a \in Gated, ~InLine(a), Enqueued(a)
    PROVE  /\ gate' \in Seq(Gated) /\ Distinct(gate')
           /\ \A b : InLine(b)' <=> InLine(b) \/ b = a
           /\ \A b : Holds(b) => Holds(b)'
<1>1. /\ gate' \in Seq(Gated)
      /\ Len(gate') = Len(gate) + 1
      /\ \A i \in 1..Len(gate) : gate'[i] = gate[i]
      /\ gate'[Len(gate) + 1] = a
    BY DEF Enqueued
<1>2. \A i \in 1..Len(gate) : gate[i] # a
    BY DEF InLine
<1>3. Distinct(gate')
    BY <1>1, <1>2 DEF Distinct
<1>4. ASSUME NEW b PROVE InLine(b)' <=> InLine(b) \/ b = a
    <2>1. ASSUME InLine(b) PROVE InLine(b)'
        BY <1>1, <2>1 DEF InLine
    <2>2. ASSUME b = a PROVE InLine(b)'
        <3>1. Len(gate) + 1 \in 1..Len(gate')
            BY <1>1
        <3> QED
            BY <1>1, <2>2, <3>1 DEF InLine
    <2>3. ASSUME InLine(b)' PROVE InLine(b) \/ b = a
        BY <1>1, <2>3 DEF InLine
    <2> QED
        BY <2>1, <2>2, <2>3
<1>5. ASSUME NEW b, Holds(b) PROVE Holds(b)'
    BY <1>1, <1>5 DEF Holds
<1> QED
    BY <1>1, <1>3, <1>4, <1>5

\* The head of the line leaves it, and only the head.
LEMMA LeavesLine ==
    ASSUME gate \in Seq(Gated), Distinct(gate),
           NEW a \in Gated, Holds(a), Released
    PROVE  /\ gate' \in Seq(Gated) /\ Distinct(gate')
           /\ \A b : InLine(b)' <=> InLine(b) /\ b # a
<1>1. /\ gate # <<>> /\ gate[1] = a /\ Len(gate) \in Nat \ {0}
      /\ gate' = Tail(gate)
    BY DEF Holds, Released
<1>2. /\ gate' \in Seq(Gated)
      /\ Len(gate') = Len(gate) - 1
      /\ \A i \in 1..Len(gate') : gate'[i] = gate[i + 1]
    BY <1>1
<1>3. Distinct(gate')
    BY <1>1, <1>2 DEF Distinct
<1>4. ASSUME NEW b PROVE InLine(b)' <=> InLine(b) /\ b # a
    <2>1. ASSUME InLine(b), b # a PROVE InLine(b)'
        <3>1. PICK i \in 1..Len(gate) : gate[i] = b
            BY <2>1 DEF InLine
        <3>2. i - 1 \in 1..Len(gate') /\ gate'[i - 1] = b
            BY <1>1, <1>2, <2>1, <3>1
        <3> QED
            BY <3>2 DEF InLine
    <2>2. ASSUME InLine(b)' PROVE InLine(b) /\ b # a
        <3>1. PICK i \in 1..Len(gate') : gate'[i] = b
            BY <2>2 DEF InLine
        <3>2. i + 1 \in 1..Len(gate) /\ gate[i + 1] = b /\ 1 \in 1..Len(gate)
            BY <1>1, <1>2, <3>1
        <3>3. b # a
            BY <1>1, <3>1, <3>2 DEF Distinct
        <3> QED
            BY <3>2, <3>3 DEF InLine
    <2> QED
        BY <2>1, <2>2
<1> QED
    BY <1>2, <1>3, <1>4

\* An actor that goes nowhere near the gate asks for it.
LEMMA LineJoined ==
    ASSUME LineInv, NEW a \in Gated, NEW to \in Waiting,
           pc[a] \notin Waiting \cup Inside, Enqueued(a), Goes(a, to)
    PROVE  LineInv'
<1>1. ~InLine(a)
    BY DEF LineInv, Line
<1>2. /\ gate' \in Seq(Gated) /\ Distinct(gate')
      /\ \A b : InLine(b)' <=> InLine(b) \/ b = a
      /\ \A b : Holds(b) => Holds(b)'
    BY <1>1, JoinsLine DEF LineInv
<1>3. /\ pc' \in [Actors -> Pcs]
      /\ pc'[a] = to /\ \A b \in Gated \ {a} : pc'[b] = pc[b]
    BY GatedFacts DEF LineInv, Goes, Waiting, Pcs
<1>4. to \notin Inside
    BY DEF Waiting, Inside
<1>5. ASSUME NEW b \in Gated
      PROVE  /\ InLine(b)' <=> pc'[b] \in Waiting \cup Inside
             /\ pc'[b] \in Inside => Holds(b)'
    <2>1. CASE b = a
        BY <1>2, <1>3, <1>4, <2>1
    <2>2. CASE b # a
        BY <1>2, <1>3, <2>2 DEF LineInv, Line
    <2> QED
        BY <2>1, <2>2
<1> QED
    BY <1>2, <1>3, <1>5 DEF LineInv, Line

\* Whoever holds the gate releases it.
LEMMA LineLeft ==
    ASSUME LineInv, NEW a \in Gated, NEW to \in Pcs \ (Waiting \cup Inside),
           Holds(a), Released, Goes(a, to)
    PROVE  LineInv'
<1>1. /\ gate' \in Seq(Gated) /\ Distinct(gate')
      /\ \A b : InLine(b)' <=> InLine(b) /\ b # a
    BY LeavesLine DEF LineInv
<1>2. /\ pc' \in [Actors -> Pcs]
      /\ pc'[a] = to /\ \A b \in Gated \ {a} : pc'[b] = pc[b]
    BY GatedFacts DEF LineInv, Goes
<1>3. ASSUME NEW b \in Gated
      PROVE  /\ InLine(b)' <=> pc'[b] \in Waiting \cup Inside
             /\ pc'[b] \in Inside => Holds(b)'
    <2>1. CASE b = a
        BY <1>1, <1>2, <2>1
    <2>2. CASE b # a
        <3>1. ~Holds(b)
            BY <2>2 DEF Holds
        <3> QED
            BY <1>1, <1>2, <2>2, <3>1 DEF LineInv, Line
    <2> QED
        BY <2>1, <2>2
<1> QED
    BY <1>1, <1>2, <1>3 DEF LineInv, Line

\* An actor moves on with the gate as it was: outside it, or let in as its head.
LEMMA LineKept ==
    ASSUME LineInv, NEW a \in Actors, NEW to \in Pcs, UNCHANGED gate, Goes(a, to),
           a \in Gated => \/ /\ pc[a] \notin Waiting \cup Inside
                             /\ to \notin Waiting \cup Inside
                          \/ Holds(a) /\ to \in Inside
    PROVE  LineInv'
<1>1. /\ pc' \in [Actors -> Pcs]
      /\ pc'[a] = to /\ \A b \in Actors \ {a} : pc'[b] = pc[b]
    BY DEF LineInv, Goes
<1>2. \A b : (InLine(b)' <=> InLine(b)) /\ (Holds(b)' <=> Holds(b))
    BY DEF InLine, Holds
<1>3. ASSUME NEW b \in Gated
      PROVE  /\ InLine(b)' <=> pc'[b] \in Waiting \cup Inside
             /\ pc'[b] \in Inside => Holds(b)'
    <2>1. CASE b # a
        BY <1>1, <1>2, <2>1, GatedFacts DEF LineInv, Line
    <2>2. CASE b = a /\ Holds(a) /\ to \in Inside
        BY <1>1, <1>2, <2>2, HeadInLine DEF LineInv
    <2>3. CASE b = a /\ pc[a] \notin Waiting \cup Inside /\ to \notin Waiting \cup Inside
        BY <1>1, <1>2, <2>3 DEF LineInv, Line, Waiting, Inside
    <2> QED
        BY <2>1, <2>2, <2>3
<1>4. gate' \in Seq(Gated) /\ Distinct(gate')
    BY DEF LineInv
<1> QED
    BY <1>1, <1>3, <1>4 DEF LineInv, Line

\* Nobody moves.
LEMMA LineUnchanged ==
    ASSUME LineInv, UNCHANGED <<gate, pc>>
    PROVE  LineInv'
BY DEF LineInv, Line, InLine, Holds, Distinct

-----------------------------------------------------------------------------
(* The invariant is inductive.                                             *)

BridgeInv == TypeOK /\ Places /\ Line /\ Sockets /\ Handles /\ Heeded

\* What the invariant says of the line.
LEMMA BridgeLine ==
    ASSUME BridgeInv
    PROVE  LineInv
BY DEF BridgeInv, TypeOK, LineInv, Distinct

\* Whoever was let in holds the gate.
LEMMA InsideHolds ==
    ASSUME BridgeInv, NEW a \in Gated, pc[a] \in Inside
    PROVE  Holds(a)
BY DEF BridgeInv, Line

\* Every step keeps the line in order.
LEMMA LineNext ==
    ASSUME BridgeInv, [Next]_vars
    PROVE  LineInv'
<1>0. LineInv
    BY BridgeLine
<1> USE <1>0, GatedFacts
<1>1. ASSUME NEW c \in Clients, Connect(c) \/ Drop(c) PROVE LineInv'
    BY <1>1, LineUnchanged DEF Connect, ConnectEnds, Drop
<1>2. ASSUME NEW r \in Readers, Ask(r) PROVE LineInv'
    BY <1>2, LineKept DEF Ask, Waiting, Inside, Pcs
<1>3. ASSUME NEW a \in Short, Enqueue(a) PROVE LineInv'
    BY <1>3, LineJoined DEF Enqueue, Waiting, Inside
<1>4. ASSUME NEW a \in Short, Open(a) PROVE LineInv'
    BY <1>4, LineKept DEF Open, Inside, Pcs
<1>5. ASSUME NEW a \in Short, Opened(a) PROVE LineInv'
    BY <1>5, LineKept, InsideHolds DEF Opened, Inside, Pcs
<1>6. ASSUME NEW a \in Short, Finish(a) PROVE LineInv'
    BY <1>6, LineLeft, InsideHolds DEF Finish, Inside, Waiting, Pcs
<1>7. ASSUME NEW a \in Short, Read(a) PROVE LineInv'
    BY <1>7, LineUnchanged DEF Read
<1>8. ASSUME NEW r \in Readers, Budget(r) PROVE LineInv'
    BY <1>8, LineUnchanged DEF Budget
<1>9. CASE BeginStop
    <2>1. CASE UNCHANGED pc
        BY <1>9, <2>1, LineUnchanged DEF BeginStop
    <2>2. CASE Goes(Stop, "stopping")
        BY <1>9, <2>2, LineKept DEF BeginStop, Pcs
    <2> QED
        BY <1>9, <2>1, <2>2 DEF BeginStop
<1>10. CASE BeginInject
    BY <1>10, LineKept DEF BeginInject, Waiting, Inside, Pcs
<1>11. CASE InjectStopsWatch \/ InjectGivesUp
    BY <1>11, LineKept DEF InjectStopsWatch, InjectGivesUp, Waiting, Inside, Pcs
<1>12. CASE BeginStart \/ ClearForStart
    BY <1>12, LineKept DEF BeginStart, ClearForStart, Waiting, Inside, Pcs
<1>13. CASE LoadMission
    BY <1>13, LineJoined DEF LoadMission, Waiting, Inside
<1>14. ASSUME NEW b \in Bridges, OpenBridge(b) PROVE LineInv'
    BY <1>14, LineKept DEF OpenBridge, Inside, Pcs
<1>15. CASE StartOpened
    BY <1>15, LineLeft, InsideHolds DEF StartOpened, Inside, Waiting, Pcs
<1>16. CASE StartFails
    BY <1>16, LineLeft, InsideHolds DEF StartFails, Inside, Waiting, Pcs
<1>17. CASE StartSettled
    BY <1>17, LineKept DEF StartSettled, Waiting, Inside, Pcs
<1>18. CASE BeginTick
    <2>1. CASE UNCHANGED <<gate, pc>>
        BY <2>1, LineUnchanged
    <2>2. CASE Goes(Tick, "pinging") /\ UNCHANGED gate
        BY <1>18, <2>2, LineKept DEF BeginTick, Waiting, Inside, Pcs
    <2>3. CASE Goes(Tick, "queued") /\ Enqueued(Tick)
        BY <1>18, <2>3, LineJoined DEF BeginTick, Waiting, Inside
    <2> QED
        BY <1>18, <2>1, <2>2, <2>3 DEF BeginTick
<1>19. CASE PingResets
    BY <1>19, LineJoined DEF PingResets, Waiting, Inside
<1>20. CASE Pinged
    BY <1>20, LineKept DEF Pinged, Samples, Waiting, Inside, Pcs
<1>21. CASE Reopen
    <2>1. CASE bridge = NoBridge
        BY <1>21, <2>1, LineLeft DEF Reopen, Inside, Waiting, Pcs
    <2>2. CASE bridge # NoBridge
        BY <1>21, <2>2, LineKept DEF Reopen, Inside, Pcs
    <2> QED
        BY <2>1, <2>2
<1>22. CASE Reopened
    BY <1>22, LineLeft, InsideHolds DEF Reopened, Samples, Inside, Waiting, Pcs
<1>23. CASE EndTick \/ TickStops
    BY <1>23, LineKept DEF EndTick, TickStops, TickOver, Waiting, Inside, Pcs
<1>24. CASE Sample
    BY <1>24, LineUnchanged DEF Sample
<1>25. CASE EndStop
    BY <1>25, LineKept DEF EndStop, Pcs
<1>26. CASE ForgetMission
    BY <1>26, LineUnchanged DEF ForgetMission
<1>27. CASE LoadFails
    BY <1>27, LineKept DEF LoadFails, Waiting, Inside, Pcs
<1>28. CASE UNCHANGED vars
    BY <1>28, LineUnchanged DEF vars
<1> QED
    BY <1>1, <1>2, <1>3, <1>4, <1>5, <1>6, <1>7, <1>8, <1>9, <1>10, <1>11,
       <1>12, <1>13, <1>14, <1>15, <1>16, <1>17, <1>18, <1>19, <1>20, <1>21,
       <1>22, <1>23, <1>24, <1>25, <1>26, <1>27, <1>28
       DEF Next, ShortStep, StartStep, TickStep

\* Every step leaves every actor at a place of its own code.
LEMMA PlacesNext ==
    ASSUME BridgeInv, [Next]_vars
    PROVE  Places'
<1> USE BridgeAssumption, GatedFacts DEF BridgeInv
<1>1. ASSUME NEW c \in Clients, Connect(c) PROVE Places'
    BY <1>1 DEF Connect, ConnectEnds, Places, Actors, TypeOK
<1>2. ASSUME NEW c \in Clients, Drop(c) PROVE Places'
    BY <1>2 DEF Drop, Places, Actors, TypeOK
<1>3. ASSUME NEW r \in Readers, Ask(r) PROVE Places'
    BY <1>3 DEF Ask, Places, Goes, ShortPcs, Actors, TypeOK
<1>4. ASSUME NEW r \in Readers, Budget(r) PROVE Places'
    BY <1>4 DEF Budget, Places, ShortPcs, Actors, TypeOK
<1>5. ASSUME NEW a \in Short, Enqueue(a) PROVE Places'
    BY <1>5 DEF Enqueue, Places, Goes, ShortPcs, Actors, TypeOK
<1>6. ASSUME NEW a \in Short, Open(a) PROVE Places'
    BY <1>6 DEF Open, Places, Goes, ShortPcs, Actors, TypeOK
<1>7. ASSUME NEW a \in Short, Opened(a) PROVE Places'
    BY <1>7 DEF Opened, Places, Goes, ShortPcs, Actors, TypeOK
<1>8. ASSUME NEW a \in Short, Finish(a) PROVE Places'
    BY <1>8 DEF Finish, Places, Goes, ShortPcs, Actors, TypeOK
<1>9. ASSUME NEW a \in Short, Read(a) PROVE Places'
    BY <1>9 DEF Read, Places, ShortPcs, Actors, TypeOK
<1>10. CASE BeginStop
    BY <1>10 DEF BeginStop, Places, Goes, Actors, TypeOK, Stopped, Dismissed
<1>11. CASE EndStop
    BY <1>11 DEF EndStop, Places, Goes, Actors, TypeOK
<1>12. CASE BeginInject
    BY <1>12 DEF BeginInject, Places, Goes, ShortPcs, Actors, TypeOK
<1>13. CASE InjectStopsWatch
    BY <1>13 DEF InjectStopsWatch, Places, Goes, ShortPcs, Actors, TypeOK
<1>14. CASE InjectGivesUp
    BY <1>14 DEF InjectGivesUp, Places, Goes, ShortPcs, Actors, TypeOK
<1>15. CASE BeginStart
    BY <1>15 DEF BeginStart, Places, Goes, StartPcs, Actors, TypeOK
<1>16. CASE ClearForStart
    BY <1>16 DEF ClearForStart, Places, Goes, StartPcs, Actors, TypeOK
<1>17. CASE LoadMission
    BY <1>17 DEF LoadMission, Places, Goes, StartPcs, Actors, TypeOK
<1>18. ASSUME NEW b \in Bridges, OpenBridge(b) PROVE Places'
    BY <1>18 DEF OpenBridge, Places, Goes, StartPcs, Actors, TypeOK
<1>19. CASE StartOpened
    BY <1>19 DEF StartOpened, Places, Goes, StartPcs, Actors, TypeOK
<1>20. CASE StartFails
    BY <1>20 DEF StartFails, Places, Goes, StartPcs, Actors, TypeOK
<1>21. CASE StartSettled
    BY <1>21 DEF StartSettled, Places, Goes, StartPcs, Actors, TypeOK
<1>22. CASE BeginTick
    BY <1>22 DEF BeginTick, Places, Goes, TickPcs, Actors, TypeOK
<1>23. CASE PingResets
    BY <1>23 DEF PingResets, Places, Goes, TickPcs, Actors, TypeOK
<1>24. CASE Pinged
    BY <1>24 DEF Pinged, Samples, Places, Goes, TickPcs, Actors, TypeOK
<1>25. CASE Reopen
    BY <1>25 DEF Reopen, Places, Goes, TickPcs, Actors, TypeOK
<1>26. CASE Reopened
    BY <1>26 DEF Reopened, Samples, Places, Goes, TickPcs, Actors, TypeOK
<1>27. CASE EndTick
    BY <1>27 DEF EndTick, TickOver, Places, Goes, TickPcs, Actors, TypeOK
<1>28. CASE TickStops
    BY <1>28 DEF TickStops, TickOver, Places, Goes, TickPcs, Actors, TypeOK
<1>29. CASE Sample
    BY <1>29 DEF Sample, Places, TickPcs, Actors, TypeOK
<1>30. CASE UNCHANGED vars
    BY <1>30 DEF vars, Places, Goes, ShortPcs, StartPcs, TickPcs, Actors, TypeOK
<1>31. CASE ForgetMission
    BY <1>31 DEF ForgetMission, Places, Goes, StartPcs, Actors, TypeOK
<1>32. CASE LoadFails
    BY <1>32 DEF LoadFails, Places, Goes, StartPcs, Actors, TypeOK
<1> QED
    BY <1>1, <1>2, <1>3, <1>4, <1>5, <1>6, <1>7, <1>8, <1>9, <1>10,
       <1>11, <1>12, <1>13, <1>14, <1>15, <1>16, <1>17, <1>18, <1>19, <1>20,
       <1>21, <1>22, <1>23, <1>24, <1>25, <1>26, <1>27, <1>28, <1>29, <1>30,
       <1>31, <1>32
       DEF Next, ShortStep, StartStep, TickStep

\* The types of everything but the line and the places.
Sorts ==
    /\ pipe \in [Clients -> {"closed", "connecting", "open"}]
    /\ left \in [Actors -> 0..MaxReads]
    /\ held \in [{Start, Tick} -> Bridges \cup {NoBridge}]
    /\ bridge \in Bridges \cup {NoBridge}
    /\ {running, timer, bound, stale, injecting, wanted} \subseteq BOOLEAN
    /\ drops \in 0..MaxDrops

\* A socket that is closed, and one that is called, is a socket.
LEMMA SocketTyped ==
    ASSUME pipe \in [Clients -> {"closed", "connecting", "open"}], NEW c
    PROVE  /\ Closed(c) \in [Clients -> {"closed", "connecting", "open"}]
           /\ Calling(c) \in [Clients -> {"closed", "connecting", "open"}]
BY DEF Closed, Calling

\* A counter of calls that is reset, filled or decremented is one.
LEMMA CountTyped ==
    ASSUME left \in [Actors -> 0..MaxReads], NEW a \in Actors
    PROVE  /\ [left EXCEPT ![a] = 0] \in [Actors -> 0..MaxReads]
           /\ [left EXCEPT ![a] = MaxReads] \in [Actors -> 0..MaxReads]
           /\ left[a] > 0 => [left EXCEPT ![a] = @ - 1] \in [Actors -> 0..MaxReads]
<1>1. MaxReads \in Nat
    BY BridgeAssumption
<1>2. left[a] \in 0..MaxReads
    OBVIOUS
<1>3. left[a] > 0 => left[a] - 1 \in 0..MaxReads
    BY <1>1, <1>2
<1> QED
    BY <1>1, <1>3

\* Every step keeps the types of what the steps assign.
LEMMA SortsNext ==
    ASSUME Sorts, [Next]_vars
    PROVE  Sorts'
<1> USE SocketTyped, CountTyped, GatedFacts, BridgeAssumption
<1>1. ASSUME NEW c \in Clients, Connect(c) PROVE Sorts'
    BY <1>1 DEF Connect, ConnectEnds, Sorts, watch
<1>2. ASSUME NEW c \in Clients, Drop(c) PROVE Sorts'
    BY <1>2 DEF Drop, Sorts, watch
<1>3. ASSUME NEW r \in Readers, Ask(r) PROVE Sorts'
    BY <1>3 DEF Ask, Sorts, watch
<1>4. ASSUME NEW r \in Readers, Budget(r) PROVE Sorts'
    BY <1>4 DEF Budget, Sorts, watch
<1>5. ASSUME NEW a \in Short, Enqueue(a) PROVE Sorts'
    BY <1>5 DEF Enqueue, Sorts, watch
<1>6. ASSUME NEW a \in Short, Open(a) PROVE Sorts'
    BY <1>6 DEF Open, Sorts, watch
<1>7. ASSUME NEW a \in Short, Opened(a) PROVE Sorts'
    BY <1>7 DEF Opened, Sorts, watch
<1>8. ASSUME NEW a \in Short, Finish(a) PROVE Sorts'
    BY <1>8 DEF Finish, Sorts, watch
<1>9. ASSUME NEW a \in Short, Read(a) PROVE Sorts'
    BY <1>9 DEF Read, Sorts, watch
<1>10. CASE BeginStop
    <2>1. UNCHANGED <<left, held, bound, injecting, drops>> /\ Stopped
        BY <1>10 DEF BeginStop
    <2>2. \/ UNCHANGED <<pipe, bridge>>
          \/ bridge' = NoBridge /\ pipe' \in {pipe, Closed(bridge)}
        BY <1>10 DEF BeginStop, Dismissed
    <2>3. /\ pipe' \in [Clients -> {"closed", "connecting", "open"}]
          /\ bridge' \in Bridges \cup {NoBridge}
        BY <2>2 DEF Sorts
    <2>4. {running, timer, bound, stale, injecting, wanted}' \subseteq BOOLEAN
        BY <2>1 DEF Stopped, Sorts
    <2> QED
        BY <2>1, <2>3, <2>4 DEF Sorts
<1>11. CASE EndStop
    BY <1>11 DEF EndStop, Sorts, Dismissed
<1>12. CASE BeginInject
    BY <1>12 DEF BeginInject, Sorts, Stopped
<1>13. CASE InjectStopsWatch
    BY <1>13 DEF InjectStopsWatch, Sorts, Dismissed
<1>14. CASE InjectGivesUp
    BY <1>14 DEF InjectGivesUp, Sorts, watch
<1>15. CASE BeginStart
    BY <1>15 DEF BeginStart, Sorts
<1>16. CASE ClearForStart
    BY <1>16 DEF ClearForStart, Sorts, Dismissed
<1>17. CASE LoadMission
    BY <1>17 DEF LoadMission, Sorts, watch
<1>18. ASSUME NEW b \in Bridges, OpenBridge(b) PROVE Sorts'
    BY <1>18 DEF OpenBridge, Sorts, watch
<1>19. CASE StartOpened
    <2>1. CASE stale
        <3>1. /\ UNCHANGED <<left, running, bridge, timer, stale, wanted, injecting,
                             drops>>
              /\ pipe' = Closed(held[Start]) /\ bound' = FALSE
              /\ held' = [held EXCEPT ![Start] = NoBridge]
            BY <1>19, <2>1 DEF StartOpened
        <3>2. {running, timer, bound, stale, injecting, wanted}' \subseteq BOOLEAN
            BY <3>1 DEF Sorts
        <3> QED
            BY <3>1, <3>2 DEF Sorts
    <2>2. CASE ~stale
        BY <1>19, <2>2 DEF StartOpened, Sorts
    <2> QED
        BY <2>1, <2>2
<1>20. CASE StartFails
    BY <1>20 DEF StartFails, Sorts, watch
<1>21. CASE StartSettled
    <2>1. CASE stale
        <3>1. /\ Stopped /\ Dismissed /\ bound' = FALSE
              /\ UNCHANGED <<left, held, injecting, drops>>
            BY <1>21, <2>1 DEF StartSettled
        <3>2. /\ pipe' \in [Clients -> {"closed", "connecting", "open"}]
              /\ bridge' \in Bridges \cup {NoBridge}
            BY <3>1 DEF Dismissed, Sorts
        <3>3. {running, timer, bound, stale, injecting, wanted}' \subseteq BOOLEAN
            BY <3>1 DEF Stopped, Sorts
        <3> QED
            BY <3>1, <3>2, <3>3 DEF Sorts
    <2>2. CASE ~stale
        BY <1>21, <2>2 DEF StartSettled, Sorts
    <2> QED
        BY <2>1, <2>2
<1>22. CASE BeginTick
    BY <1>22 DEF BeginTick, Sorts
<1>23. CASE PingResets
    BY <1>23 DEF PingResets, Sorts, watch
<1>24. CASE Pinged
    BY <1>24 DEF Pinged, Samples, Sorts, watch
<1>25. CASE Reopen
    BY <1>25 DEF Reopen, Sorts, watch
<1>26. CASE Reopened
    BY <1>26 DEF Reopened, Samples, Sorts, watch
<1>27. CASE EndTick
    BY <1>27 DEF EndTick, TickOver, Sorts
<1>28. CASE TickStops
    BY <1>28 DEF TickStops, TickOver, Sorts, Stopped, Dismissed
<1>29. CASE Sample
    BY <1>29 DEF Sample, Sorts, watch
<1>30. CASE UNCHANGED vars
    BY <1>30 DEF vars, Sorts, watch, Stopped, Dismissed
<1>31. CASE ForgetMission
    BY <1>31 DEF ForgetMission, Sorts
<1>32. CASE LoadFails
    BY <1>32 DEF LoadFails, Sorts
<1> QED
    BY <1>1, <1>2, <1>3, <1>4, <1>5, <1>6, <1>7, <1>8, <1>9, <1>10,
       <1>11, <1>12, <1>13, <1>14, <1>15, <1>16, <1>17, <1>18, <1>19, <1>20,
       <1>21, <1>22, <1>23, <1>24, <1>25, <1>26, <1>27, <1>28, <1>29, <1>30,
       <1>31, <1>32
       DEF Next, ShortStep, StartStep, TickStep

\* Every step keeps the types.
LEMMA TypesNext ==
    ASSUME BridgeInv, [Next]_vars
    PROVE  TypeOK'
<1>1. Sorts /\ LineInv'
    BY LineNext DEF BridgeInv, TypeOK, Sorts
<1>2. Sorts'
    BY <1>1, SortsNext
<1> QED
    BY <1>1, <1>2 DEF TypeOK, Sorts, LineInv, Distinct

\* Closing a socket opens none, and Watch's calls open none of a short client.
LEMMA SocketKept ==
    ASSUME TypeOK, NEW a \in Short
    PROVE  /\ \A c : Closed(c)[a] # "closed" => pipe[a] # "closed"
           /\ \A c \in Bridges : Calling(c)[a] = pipe[a]
           /\ pipe[a] # "connecting" => Closed(a)[a] = "closed"
           /\ \A b \in Short \ {a} : Closed(b)[a] = pipe[a] /\ Calling(b)[a] = pipe[a]
BY BridgeAssumption DEF TypeOK, Closed, Calling, Clients, Short

\* Every step leaves the sockets of the short clients to whoever was let in.
LEMMA SocketsNext ==
    ASSUME BridgeInv, [Next]_vars
    PROVE  Sockets'
<1> USE SocketKept, BridgeAssumption, GatedFacts DEF BridgeInv, TypeOK
<1>1. ASSUME NEW c \in Clients, Connect(c) PROVE Sockets'
    BY <1>1 DEF Connect, ConnectEnds, Sockets, Handles, Inside, Clients
<1>2. ASSUME NEW c \in Clients, Drop(c) PROVE Sockets'
    BY <1>2 DEF Drop, Sockets, Handles, Inside, Clients
<1>3. ASSUME NEW r \in Readers, Ask(r) PROVE Sockets'
    BY <1>3 DEF Ask, Sockets, Handles, Goes, Inside
<1>4. ASSUME NEW r \in Readers, Budget(r) PROVE Sockets'
    BY <1>4 DEF Budget, Sockets, Handles, Inside
<1>5. ASSUME NEW a \in Short, Enqueue(a) PROVE Sockets'
    BY <1>5 DEF Enqueue, Sockets, Handles, Goes, Inside
<1>6. ASSUME NEW a \in Short, Open(a) PROVE Sockets'
    BY <1>6 DEF Open, Sockets, Handles, Goes, Inside
<1>7. ASSUME NEW a \in Short, Opened(a) PROVE Sockets'
    BY <1>7 DEF Opened, Sockets, Handles, Goes, Inside
<1>8. ASSUME NEW a \in Short, Finish(a) PROVE Sockets'
    BY <1>8 DEF Finish, Sockets, Handles, Goes, Inside
<1>9. ASSUME NEW a \in Short, Read(a) PROVE Sockets'
    BY <1>9 DEF Read, Sockets, Handles, Inside
<1>10. CASE BeginStop
    BY <1>10 DEF BeginStop, Sockets, Handles, Goes, Inside, Stopped, Dismissed
<1>11. CASE EndStop
    BY <1>11 DEF EndStop, Sockets, Handles, Goes, Inside, Dismissed
<1>12. CASE BeginInject
    BY <1>12 DEF BeginInject, Sockets, Handles, Goes, Inside
<1>13. CASE InjectStopsWatch
    BY <1>13 DEF InjectStopsWatch, Sockets, Handles, Goes, Inside, Dismissed
<1>14. CASE InjectGivesUp
    BY <1>14 DEF InjectGivesUp, Sockets, Handles, Goes, Inside
<1>15. CASE BeginStart
    BY <1>15 DEF BeginStart, Sockets, Handles, Goes, Inside
<1>16. CASE ClearForStart
    BY <1>16 DEF ClearForStart, Sockets, Handles, Goes, Inside, Dismissed
<1>17. CASE LoadMission
    BY <1>17 DEF LoadMission, Sockets, Handles, Goes, Inside
<1>18. ASSUME NEW b \in Bridges, OpenBridge(b) PROVE Sockets'
    BY <1>18 DEF OpenBridge, Sockets, Handles, Goes, Inside, Short
<1>19. CASE StartOpened
    <2>1. \A a \in Short : pipe'[a] # "closed" => pipe[a] # "closed"
        <3>1. CASE stale
            BY <1>19, <3>1 DEF StartOpened
        <3>2. CASE ~stale
            BY <1>19, <3>2 DEF StartOpened
        <3> QED
            BY <3>1, <3>2
    <2>2. \A a \in Short : pc'[a] = pc[a]
        BY <1>19 DEF StartOpened, Goes
    <2> QED
        BY <2>1, <2>2 DEF Sockets
<1>20. CASE StartFails
    BY <1>20 DEF StartFails, Sockets, Handles, Goes, Inside
<1>21. CASE StartSettled
    BY <1>21 DEF StartSettled, Sockets, Handles, Goes, Inside, Dismissed
<1>22. CASE BeginTick
    BY <1>22 DEF BeginTick, Sockets, Handles, Goes, Inside
<1>23. CASE PingResets
    BY <1>23 DEF PingResets, Sockets, Handles, Goes, Inside
<1>24. CASE Pinged
    BY <1>24 DEF Pinged, Samples, Sockets, Handles, Goes, Inside
<1>25. CASE Reopen
    <2>1. pipe' = pipe \/ (bridge \in Bridges /\ pipe' = Calling(bridge))
        BY <1>25 DEF Reopen
    <2>2. \A a \in Short : pipe'[a] = pipe[a]
        BY <2>1
    <2>3. \A a \in Short : pc'[a] = pc[a]
        BY <1>25 DEF Reopen, Goes
    <2> QED
        BY <2>2, <2>3 DEF Sockets
<1>26. CASE Reopened
    <2>1. pipe' = pipe \/ (bridge \in Bridges /\ pipe' = Calling(bridge))
        BY <1>26 DEF Reopened, Samples
    <2>2. \A a \in Short : pipe'[a] = pipe[a]
        BY <2>1
    <2>3. \A a \in Short : pc'[a] = pc[a]
        BY <1>26 DEF Reopened, Samples, Goes
    <2> QED
        BY <2>2, <2>3 DEF Sockets
<1>27. CASE EndTick
    BY <1>27 DEF EndTick, TickOver, Sockets, Handles, Goes, Inside
<1>28. CASE TickStops
    BY <1>28 DEF TickStops, TickOver, Sockets, Handles, Goes, Inside, Dismissed
<1>29. CASE Sample
    BY <1>29 DEF Sample, Sockets, Handles, Inside
<1>30. CASE UNCHANGED vars
    BY <1>30 DEF vars, Sockets
<1>31. CASE ForgetMission
    BY <1>31 DEF ForgetMission, Sockets, Handles, Goes, Inside
<1>32. CASE LoadFails
    BY <1>32 DEF LoadFails, Sockets, Handles, Goes, Inside
<1> QED
    BY <1>1, <1>2, <1>3, <1>4, <1>5, <1>6, <1>7, <1>8, <1>9, <1>10,
       <1>11, <1>12, <1>13, <1>14, <1>15, <1>16, <1>17, <1>18, <1>19, <1>20,
       <1>21, <1>22, <1>23, <1>24, <1>25, <1>26, <1>27, <1>28, <1>29, <1>30,
       <1>31, <1>32
       DEF Next, ShortStep, StartStep, TickStep

\* Every step leaves Start and Tick with a client object to call.
LEMMA HandlesNext ==
    ASSUME BridgeInv, [Next]_vars
    PROVE  Handles'
<1> USE BridgeAssumption, GatedFacts DEF BridgeInv, TypeOK, watch
<1>1. ASSUME NEW c \in Clients, Connect(c) PROVE Handles'
    BY <1>1 DEF Connect, ConnectEnds, Handles, Places
<1>2. ASSUME NEW c \in Clients, Drop(c) PROVE Handles'
    BY <1>2 DEF Drop, Handles, Places
<1>3. ASSUME NEW r \in Readers, Ask(r) PROVE Handles'
    BY <1>3 DEF Ask, Handles, Goes, Places
<1>4. ASSUME NEW r \in Readers, Budget(r) PROVE Handles'
    BY <1>4 DEF Budget, Handles, Places
<1>5. ASSUME NEW a \in Short, Enqueue(a) PROVE Handles'
    BY <1>5 DEF Enqueue, Handles, Goes, Places
<1>6. ASSUME NEW a \in Short, Open(a) PROVE Handles'
    BY <1>6 DEF Open, Handles, Goes, Places
<1>7. ASSUME NEW a \in Short, Opened(a) PROVE Handles'
    BY <1>7 DEF Opened, Handles, Goes, Places
<1>8. ASSUME NEW a \in Short, Finish(a) PROVE Handles'
    BY <1>8 DEF Finish, Handles, Goes, Places
<1>9. ASSUME NEW a \in Short, Read(a) PROVE Handles'
    BY <1>9 DEF Read, Handles, Places
<1>10. CASE BeginStop
    BY <1>10 DEF BeginStop, Handles, Goes, Places, Stopped, Dismissed
<1>11. CASE EndStop
    BY <1>11 DEF EndStop, Handles, Goes, Places
<1>12. CASE BeginInject
    BY <1>12 DEF BeginInject, Handles, Goes, Places
<1>13. CASE InjectStopsWatch
    BY <1>13 DEF InjectStopsWatch, Handles, Goes, Places
<1>14. CASE InjectGivesUp
    BY <1>14 DEF InjectGivesUp, Handles, Goes, Places
<1>15. CASE BeginStart
    BY <1>15 DEF BeginStart, Handles, Goes, Places
<1>16. CASE ClearForStart
    BY <1>16 DEF ClearForStart, Handles, Goes, Places
<1>17. CASE LoadMission
    BY <1>17 DEF LoadMission, Handles, Goes, Places
<1>18. ASSUME NEW b \in Bridges, OpenBridge(b) PROVE Handles'
    BY <1>18 DEF OpenBridge, Handles, Goes, Places
<1>19. CASE StartOpened
    BY <1>19 DEF StartOpened, Handles, Goes, Places
<1>20. CASE StartFails
    BY <1>20 DEF StartFails, Handles, Goes, Places
<1>21. CASE StartSettled
    BY <1>21 DEF StartSettled, Handles, Goes, Places
<1>22. CASE BeginTick
    BY <1>22 DEF BeginTick, Handles, Goes, Places, TickPcs
<1>23. CASE PingResets
    BY <1>23 DEF PingResets, Handles, Goes, Places, TickPcs
<1>24. CASE Pinged
    BY <1>24 DEF Pinged, Samples, Handles, Goes, Places, TickPcs
<1>25. CASE Reopen
    BY <1>25 DEF Reopen, Handles, Goes, Places, TickPcs
<1>26. CASE Reopened
    BY <1>26 DEF Reopened, Samples, Handles, Goes, Places, TickPcs
<1>27. CASE EndTick
    BY <1>27 DEF EndTick, TickOver, Handles, Goes, Places, TickPcs
<1>28. CASE TickStops
    BY <1>28 DEF TickStops, TickOver, Handles, Goes, Places, TickPcs
<1>29. CASE Sample
    BY <1>29 DEF Sample, Handles, Places, TickPcs
<1>30. CASE UNCHANGED vars
    BY <1>30 DEF vars, Handles
<1>31. CASE ForgetMission
    BY <1>31 DEF ForgetMission, Handles, Goes, Places
<1>32. CASE LoadFails
    BY <1>32 DEF LoadFails, Handles, Goes, Places
<1> QED
    BY <1>1, <1>2, <1>3, <1>4, <1>5, <1>6, <1>7, <1>8, <1>9, <1>10,
       <1>11, <1>12, <1>13, <1>14, <1>15, <1>16, <1>17, <1>18, <1>19, <1>20,
       <1>21, <1>22, <1>23, <1>24, <1>25, <1>26, <1>27, <1>28, <1>29, <1>30,
       <1>31, <1>32
       DEF Next, ShortStep, StartStep, TickStep

\* Every step keeps a start wanted that no stop has outdated.
LEMMA HeededNext ==
    ASSUME BridgeInv, [Next]_vars
    PROVE  Heeded'
<1> USE BridgeAssumption, GatedFacts DEF BridgeInv, TypeOK, watch
<1>1. ASSUME NEW c \in Clients, Connect(c) PROVE Heeded'
    BY <1>1 DEF Connect, ConnectEnds, Heeded
<1>2. ASSUME NEW c \in Clients, Drop(c) PROVE Heeded'
    BY <1>2 DEF Drop, Heeded
<1>3. ASSUME NEW r \in Readers, Ask(r) PROVE Heeded'
    BY <1>3 DEF Ask, Heeded, Goes
<1>4. ASSUME NEW r \in Readers, Budget(r) PROVE Heeded'
    BY <1>4 DEF Budget, Heeded
<1>5. ASSUME NEW a \in Short, Enqueue(a) PROVE Heeded'
    BY <1>5 DEF Enqueue, Heeded, Goes
<1>6. ASSUME NEW a \in Short, Open(a) PROVE Heeded'
    BY <1>6 DEF Open, Heeded, Goes
<1>7. ASSUME NEW a \in Short, Opened(a) PROVE Heeded'
    BY <1>7 DEF Opened, Heeded, Goes
<1>8. ASSUME NEW a \in Short, Finish(a) PROVE Heeded'
    BY <1>8 DEF Finish, Heeded, Goes
<1>9. ASSUME NEW a \in Short, Read(a) PROVE Heeded'
    BY <1>9 DEF Read, Heeded
<1>10. CASE BeginStop
    BY <1>10 DEF BeginStop, Heeded, Goes, Stopped, Dismissed
<1>11. CASE EndStop
    BY <1>11 DEF EndStop, Heeded, Goes
<1>12. CASE BeginInject
    BY <1>12 DEF BeginInject, Heeded, Goes, Stopped
<1>13. CASE InjectStopsWatch
    BY <1>13 DEF InjectStopsWatch, Heeded, Goes
<1>14. CASE InjectGivesUp
    BY <1>14 DEF InjectGivesUp, Heeded, Goes
<1>15. CASE BeginStart
    BY <1>15 DEF BeginStart, Heeded, Goes
<1>16. CASE ClearForStart
    BY <1>16 DEF ClearForStart, Heeded, Goes
<1>17. CASE LoadMission
    BY <1>17 DEF LoadMission, Heeded, Goes
<1>18. ASSUME NEW b \in Bridges, OpenBridge(b) PROVE Heeded'
    BY <1>18 DEF OpenBridge, Heeded, Goes
<1>19. CASE StartOpened
    BY <1>19 DEF StartOpened, Heeded, Goes
<1>20. CASE StartFails
    BY <1>20 DEF StartFails, Heeded, Goes
<1>21. CASE StartSettled
    BY <1>21 DEF StartSettled, Heeded, Goes, Stopped
<1>22. CASE BeginTick
    BY <1>22 DEF BeginTick, Heeded, Goes
<1>23. CASE PingResets
    BY <1>23 DEF PingResets, Heeded, Goes
<1>24. CASE Pinged
    BY <1>24 DEF Pinged, Samples, Heeded, Goes
<1>25. CASE Reopen
    BY <1>25 DEF Reopen, Heeded, Goes
<1>26. CASE Reopened
    BY <1>26 DEF Reopened, Samples, Heeded, Goes
<1>27. CASE EndTick
    BY <1>27 DEF EndTick, TickOver, Heeded, Goes
<1>28. CASE TickStops
    BY <1>28 DEF TickStops, TickOver, Heeded, Goes, Stopped
<1>29. CASE Sample
    BY <1>29 DEF Sample, Heeded
<1>30. CASE UNCHANGED vars
    BY <1>30 DEF vars, Heeded
<1>31. CASE ForgetMission
    BY <1>31 DEF ForgetMission, Heeded, Goes
<1>32. CASE LoadFails
    BY <1>32 DEF LoadFails, Heeded, Goes
<1> QED
    BY <1>1, <1>2, <1>3, <1>4, <1>5, <1>6, <1>7, <1>8, <1>9, <1>10,
       <1>11, <1>12, <1>13, <1>14, <1>15, <1>16, <1>17, <1>18, <1>19, <1>20,
       <1>21, <1>22, <1>23, <1>24, <1>25, <1>26, <1>27, <1>28, <1>29, <1>30,
       <1>31, <1>32
       DEF Next, ShortStep, StartStep, TickStep

-----------------------------------------------------------------------------
(* Watch ticks while it runs.                                              *)

\* Every step keeps Watch stopped for as long as a start has not opened.
LEMMA HaltedNext ==
    ASSUME BridgeInv, Halted, [Next]_vars
    PROVE  Halted'
<1> USE BridgeAssumption, GatedFacts DEF BridgeInv, TypeOK, watch
<1>1. ASSUME NEW c \in Clients, Connect(c) PROVE Halted'
    BY <1>1 DEF Connect, ConnectEnds, Halted
<1>2. ASSUME NEW c \in Clients, Drop(c) PROVE Halted'
    BY <1>2 DEF Drop, Halted
<1>3. ASSUME NEW r \in Readers, Ask(r) PROVE Halted'
    BY <1>3 DEF Ask, Halted, Goes
<1>4. ASSUME NEW r \in Readers, Budget(r) PROVE Halted'
    BY <1>4 DEF Budget, Halted
<1>5. ASSUME NEW a \in Short, Enqueue(a) PROVE Halted'
    BY <1>5 DEF Enqueue, Halted, Goes
<1>6. ASSUME NEW a \in Short, Open(a) PROVE Halted'
    BY <1>6 DEF Open, Halted, Goes
<1>7. ASSUME NEW a \in Short, Opened(a) PROVE Halted'
    BY <1>7 DEF Opened, Halted, Goes
<1>8. ASSUME NEW a \in Short, Finish(a) PROVE Halted'
    BY <1>8 DEF Finish, Halted, Goes
<1>9. ASSUME NEW a \in Short, Read(a) PROVE Halted'
    BY <1>9 DEF Read, Halted
<1>10. CASE BeginStop
    BY <1>10 DEF BeginStop, Halted, Goes, Stopped, Dismissed
<1>11. CASE EndStop
    BY <1>11 DEF EndStop, Halted, Goes
<1>12. CASE BeginInject
    BY <1>12 DEF BeginInject, Halted, Goes, Stopped
<1>13. CASE InjectStopsWatch
    BY <1>13 DEF InjectStopsWatch, Halted, Goes
<1>14. CASE InjectGivesUp
    BY <1>14 DEF InjectGivesUp, Halted, Goes
<1>15. CASE BeginStart
    BY <1>15 DEF BeginStart, Halted, Goes
<1>16. CASE ClearForStart
    BY <1>16 DEF ClearForStart, Halted, Goes
<1>17. CASE LoadMission
    BY <1>17 DEF LoadMission, Halted, Goes
<1>18. ASSUME NEW b \in Bridges, OpenBridge(b) PROVE Halted'
    BY <1>18 DEF OpenBridge, Halted, Goes
<1>19. CASE StartOpened
    BY <1>19 DEF StartOpened, Halted, Goes
<1>20. CASE StartFails
    BY <1>20 DEF StartFails, Halted, Goes
<1>21. CASE StartSettled
    BY <1>21 DEF StartSettled, Halted, Goes, Stopped
<1>22. CASE BeginTick
    BY <1>22 DEF BeginTick, Halted, Goes
<1>23. CASE PingResets
    BY <1>23 DEF PingResets, Halted, Goes
<1>24. CASE Pinged
    BY <1>24 DEF Pinged, Samples, Halted, Goes
<1>25. CASE Reopen
    BY <1>25 DEF Reopen, Halted, Goes
<1>26. CASE Reopened
    BY <1>26 DEF Reopened, Samples, Halted, Goes
<1>27. CASE EndTick
    BY <1>27 DEF EndTick, TickOver, Halted, Goes
<1>28. CASE TickStops
    BY <1>28 DEF TickStops, TickOver, Halted, Goes, Stopped
<1>29. CASE Sample
    BY <1>29 DEF Sample, Halted
<1>30. CASE UNCHANGED vars
    BY <1>30 DEF vars, Halted
<1>31. CASE ForgetMission
    BY <1>31 DEF ForgetMission, Halted, Goes
<1>32. CASE LoadFails
    BY <1>32 DEF LoadFails, Halted, Goes
<1> QED
    BY <1>1, <1>2, <1>3, <1>4, <1>5, <1>6, <1>7, <1>8, <1>9, <1>10,
       <1>11, <1>12, <1>13, <1>14, <1>15, <1>16, <1>17, <1>18, <1>19, <1>20,
       <1>21, <1>22, <1>23, <1>24, <1>25, <1>26, <1>27, <1>28, <1>29, <1>30,
       <1>31, <1>32
       DEF Next, ShortStep, StartStep, TickStep

\* Every step leaves a Watch that runs with a mission and a client object a tick
\* to come.
LEMMA TicksNext ==
    ASSUME BridgeInv, Halted, RunningTicks, [Next]_vars
    PROVE  RunningTicks'
<1> USE BridgeAssumption, GatedFacts DEF BridgeInv, TypeOK, watch
<1>1. ASSUME NEW c \in Clients, Connect(c) PROVE RunningTicks'
    BY <1>1 DEF Connect, ConnectEnds, RunningTicks, Ticking, Halted
<1>2. ASSUME NEW c \in Clients, Drop(c) PROVE RunningTicks'
    BY <1>2 DEF Drop, RunningTicks, Ticking, Halted
<1>3. ASSUME NEW r \in Readers, Ask(r) PROVE RunningTicks'
    BY <1>3 DEF Ask, RunningTicks, Ticking, Halted, Goes
<1>4. ASSUME NEW r \in Readers, Budget(r) PROVE RunningTicks'
    BY <1>4 DEF Budget, RunningTicks, Ticking, Halted
<1>5. ASSUME NEW a \in Short, Enqueue(a) PROVE RunningTicks'
    BY <1>5 DEF Enqueue, RunningTicks, Ticking, Halted, Goes
<1>6. ASSUME NEW a \in Short, Open(a) PROVE RunningTicks'
    BY <1>6 DEF Open, RunningTicks, Ticking, Halted, Goes
<1>7. ASSUME NEW a \in Short, Opened(a) PROVE RunningTicks'
    BY <1>7 DEF Opened, RunningTicks, Ticking, Halted, Goes
<1>8. ASSUME NEW a \in Short, Finish(a) PROVE RunningTicks'
    BY <1>8 DEF Finish, RunningTicks, Ticking, Halted, Goes
<1>9. ASSUME NEW a \in Short, Read(a) PROVE RunningTicks'
    BY <1>9 DEF Read, RunningTicks, Ticking, Halted
<1>10. CASE BeginStop
    BY <1>10 DEF BeginStop, RunningTicks, Ticking, Halted, Goes, Stopped, Dismissed
<1>11. CASE EndStop
    BY <1>11 DEF EndStop, RunningTicks, Ticking, Halted, Goes, Dismissed
<1>12. CASE BeginInject
    BY <1>12 DEF BeginInject, RunningTicks, Ticking, Halted, Goes, Stopped
<1>13. CASE InjectStopsWatch
    BY <1>13 DEF InjectStopsWatch, RunningTicks, Ticking, Halted, Goes, Dismissed
<1>14. CASE InjectGivesUp
    BY <1>14 DEF InjectGivesUp, RunningTicks, Ticking, Halted, Goes
<1>15. CASE BeginStart
    BY <1>15 DEF BeginStart, RunningTicks, Ticking, Halted, Goes
<1>16. CASE ClearForStart
    BY <1>16 DEF ClearForStart, RunningTicks, Ticking, Halted, Goes, Dismissed
<1>17. CASE LoadMission
    BY <1>17 DEF LoadMission, RunningTicks, Ticking, Halted, Goes
<1>18. ASSUME NEW b \in Bridges, OpenBridge(b) PROVE RunningTicks'
    BY <1>18 DEF OpenBridge, RunningTicks, Ticking, Halted, Goes
<1>19. CASE StartOpened
    BY <1>19 DEF StartOpened, RunningTicks, Ticking, Halted, Handles, Goes
<1>20. CASE StartFails
    BY <1>20 DEF StartFails, RunningTicks, Ticking, Halted, Goes
<1>21. CASE StartSettled
    BY <1>21 DEF StartSettled, RunningTicks, Ticking, Halted, Goes, Stopped, Dismissed
<1>22. CASE BeginTick
    BY <1>22 DEF BeginTick, RunningTicks, Ticking, Halted, Goes
<1>23. CASE PingResets
    BY <1>23 DEF PingResets, RunningTicks, Ticking, Halted, Goes
<1>24. CASE Pinged
    BY <1>24 DEF Pinged, Samples, RunningTicks, Ticking, Halted, Goes
<1>25. CASE Reopen
    BY <1>25 DEF Reopen, RunningTicks, Ticking, Halted, Goes
<1>26. CASE Reopened
    BY <1>26 DEF Reopened, Samples, RunningTicks, Ticking, Goes
<1>27. CASE EndTick
    BY <1>27 DEF EndTick, TickOver, RunningTicks, Ticking, Goes
<1>28. CASE TickStops
    BY <1>28 DEF TickStops, TickOver, RunningTicks, Ticking, Halted, Goes, Stopped,
              Dismissed
<1>29. CASE Sample
    BY <1>29 DEF Sample, RunningTicks, Ticking, Halted
<1>30. CASE UNCHANGED vars
    BY <1>30 DEF vars, RunningTicks, Ticking
<1>31. CASE ForgetMission
    BY <1>31 DEF ForgetMission, RunningTicks, Halted, Goes, Ticking
<1>32. CASE LoadFails
    BY <1>32 DEF LoadFails, RunningTicks, Halted, Goes, Ticking
<1> QED
    BY <1>1, <1>2, <1>3, <1>4, <1>5, <1>6, <1>7, <1>8, <1>9, <1>10,
       <1>11, <1>12, <1>13, <1>14, <1>15, <1>16, <1>17, <1>18, <1>19, <1>20,
       <1>21, <1>22, <1>23, <1>24, <1>25, <1>26, <1>27, <1>28, <1>29, <1>30,
       <1>31, <1>32
       DEF Next, ShortStep, StartStep, TickStep

\* Every step leaves Watch stopped unless the last request was a start.
LEMMA StoppedNext ==
    ASSUME BridgeInv, StoppedStaysStopped, [Next]_vars
    PROVE  StoppedStaysStopped'
<1> USE BridgeAssumption, GatedFacts DEF BridgeInv, TypeOK, watch
<1>1. ASSUME NEW c \in Clients, Connect(c) PROVE StoppedStaysStopped'
    BY <1>1 DEF Connect, ConnectEnds, StoppedStaysStopped
<1>2. ASSUME NEW c \in Clients, Drop(c) PROVE StoppedStaysStopped'
    BY <1>2 DEF Drop, StoppedStaysStopped
<1>3. ASSUME NEW r \in Readers, Ask(r) PROVE StoppedStaysStopped'
    BY <1>3 DEF Ask, StoppedStaysStopped, Goes
<1>4. ASSUME NEW r \in Readers, Budget(r) PROVE StoppedStaysStopped'
    BY <1>4 DEF Budget, StoppedStaysStopped
<1>5. ASSUME NEW a \in Short, Enqueue(a) PROVE StoppedStaysStopped'
    BY <1>5 DEF Enqueue, StoppedStaysStopped, Goes
<1>6. ASSUME NEW a \in Short, Open(a) PROVE StoppedStaysStopped'
    BY <1>6 DEF Open, StoppedStaysStopped, Goes
<1>7. ASSUME NEW a \in Short, Opened(a) PROVE StoppedStaysStopped'
    BY <1>7 DEF Opened, StoppedStaysStopped, Goes
<1>8. ASSUME NEW a \in Short, Finish(a) PROVE StoppedStaysStopped'
    BY <1>8 DEF Finish, StoppedStaysStopped, Goes
<1>9. ASSUME NEW a \in Short, Read(a) PROVE StoppedStaysStopped'
    BY <1>9 DEF Read, StoppedStaysStopped
<1>10. CASE BeginStop
    BY <1>10 DEF BeginStop, StoppedStaysStopped, Goes, Stopped, Dismissed
<1>11. CASE EndStop
    BY <1>11 DEF EndStop, StoppedStaysStopped, Goes
<1>12. CASE BeginInject
    BY <1>12 DEF BeginInject, StoppedStaysStopped, Goes, Stopped
<1>13. CASE InjectStopsWatch
    BY <1>13 DEF InjectStopsWatch, StoppedStaysStopped, Goes
<1>14. CASE InjectGivesUp
    BY <1>14 DEF InjectGivesUp, StoppedStaysStopped, Goes
<1>15. CASE BeginStart
    BY <1>15 DEF BeginStart, StoppedStaysStopped, Goes
<1>16. CASE ClearForStart
    BY <1>16 DEF ClearForStart, StoppedStaysStopped, Goes
<1>17. CASE LoadMission
    BY <1>17 DEF LoadMission, StoppedStaysStopped, Goes
<1>18. ASSUME NEW b \in Bridges, OpenBridge(b) PROVE StoppedStaysStopped'
    BY <1>18 DEF OpenBridge, StoppedStaysStopped, Goes
<1>19. CASE StartOpened
    BY <1>19 DEF StartOpened, StoppedStaysStopped, Heeded
<1>20. CASE StartFails
    BY <1>20 DEF StartFails, StoppedStaysStopped, Goes
<1>21. CASE StartSettled
    BY <1>21 DEF StartSettled, StoppedStaysStopped, Goes, Stopped
<1>22. CASE BeginTick
    BY <1>22 DEF BeginTick, StoppedStaysStopped, Goes
<1>23. CASE PingResets
    BY <1>23 DEF PingResets, StoppedStaysStopped, Goes
<1>24. CASE Pinged
    BY <1>24 DEF Pinged, Samples, StoppedStaysStopped, Goes
<1>25. CASE Reopen
    BY <1>25 DEF Reopen, StoppedStaysStopped, Goes
<1>26. CASE Reopened
    BY <1>26 DEF Reopened, Samples, StoppedStaysStopped, Goes
<1>27. CASE EndTick
    BY <1>27 DEF EndTick, TickOver, StoppedStaysStopped, Goes
<1>28. CASE TickStops
    BY <1>28 DEF TickStops, TickOver, StoppedStaysStopped, Goes, Stopped
<1>29. CASE Sample
    BY <1>29 DEF Sample, StoppedStaysStopped
<1>30. CASE UNCHANGED vars
    BY <1>30 DEF vars, StoppedStaysStopped
<1>31. CASE ForgetMission
    BY <1>31 DEF ForgetMission, StoppedStaysStopped, Goes
<1>32. CASE LoadFails
    BY <1>32 DEF LoadFails, StoppedStaysStopped, Goes
<1> QED
    BY <1>1, <1>2, <1>3, <1>4, <1>5, <1>6, <1>7, <1>8, <1>9, <1>10,
       <1>11, <1>12, <1>13, <1>14, <1>15, <1>16, <1>17, <1>18, <1>19, <1>20,
       <1>21, <1>22, <1>23, <1>24, <1>25, <1>26, <1>27, <1>28, <1>29, <1>30,
       <1>31, <1>32
       DEF Next, ShortStep, StartStep, TickStep

-----------------------------------------------------------------------------
(* The theorems.                                                           *)

\* Everyone is at rest before the first request.
LEMMA BridgeInit == Init => BridgeInv /\ Halted /\ RunningTicks /\ StoppedStaysStopped
<1> SUFFICES ASSUME Init
             PROVE  BridgeInv /\ Halted /\ RunningTicks /\ StoppedStaysStopped
    OBVIOUS
<1>1. TypeOK
    <2>1. MaxReads \in Nat /\ MaxDrops \in Nat
        BY BridgeAssumption
    <2>2. gate \in Seq(Gated) /\ Len(gate) = 0
        BY DEF Init
    <2>3. pc \in [Actors -> Pcs]
        BY DEF Init, Pcs
    <2>4. left \in [Actors -> 0..MaxReads] /\ drops \in 0..MaxDrops
        BY <2>1 DEF Init
    <2>5. {running, timer, bound, stale, injecting, wanted} \subseteq BOOLEAN
        BY DEF Init
    <2>6. /\ pipe \in [Clients -> {"closed", "connecting", "open"}]
          /\ held \in [{Start, Tick} -> Bridges \cup {NoBridge}]
          /\ bridge \in Bridges \cup {NoBridge}
        BY DEF Init
    <2>7. \A i, j \in 1..Len(gate) : gate[i] = gate[j] => i = j
        BY <2>2
    <2> QED
        BY <2>2, <2>3, <2>4, <2>5, <2>6, <2>7 DEF TypeOK
<1>2. Places
    BY GatedFacts DEF Init, Places, ShortPcs, StartPcs, TickPcs, Actors, Short
<1>3. Line
    BY GatedFacts DEF Init, Line, InLine, Waiting, Inside
<1>4. Sockets
    BY DEF Init, Sockets, Clients
<1>5. Handles /\ Heeded /\ Halted
    BY GatedFacts DEF Init, Handles, Heeded, Halted
<1>6. RunningTicks /\ StoppedStaysStopped
    BY DEF Init, RunningTicks, StoppedStaysStopped
<1> QED
    BY <1>1, <1>2, <1>3, <1>4, <1>5, <1>6 DEF BridgeInv

\* Every step keeps the invariant.
LEMMA BridgeNext == BridgeInv /\ [Next]_vars => BridgeInv'
<1> SUFFICES ASSUME BridgeInv, [Next]_vars PROVE BridgeInv'
    OBVIOUS
<1>1. TypeOK' /\ Places' /\ Sockets' /\ Handles' /\ Heeded'
    BY TypesNext, PlacesNext, SocketsNext, HandlesNext, HeededNext
<1>2. Line'
    BY LineNext DEF LineInv
<1> QED
    BY <1>1, <1>2 DEF BridgeInv

\* The gate is a line of distinct waiters and every actor is at a place of its
\* own code, however many readers ask and however often pipes drop.
THEOREM BridgeTypeCorrect == Spec => []TypeOK
<1>1. BridgeInv => TypeOK
    BY DEF BridgeInv
<1> QED
    BY <1>1, BridgeInit, BridgeNext, PTL DEF Spec

\* What is let in is the head of the line, and a line has one.
LEMMA OneInside ==
    ASSUME BridgeInv, NEW a \in Gated, NEW b \in Gated,
           pc[a] \in Inside, pc[b] \in Inside
    PROVE  a = b
BY InsideHolds DEF Holds

\* Two clients that take the gate for one session never have a pipe at once:
\* not while one reconnects inside a call, nor after a budget cut it off.
\* (withSimBridgeExclusive)
THEOREM BridgeShortClientsAlone == Spec => []ShortClientsAlone
<1>1. ASSUME BridgeInv PROVE ShortClientsAlone
    BY <1>1, OneInside, GatedFacts DEF BridgeInv, Sockets, ShortClientsAlone
<1> QED
    BY <1>1, BridgeInit, BridgeNext, PTL DEF Spec

\* A start that a stop overtook, at any of its awaits, does not bring Watch
\* back.  (startEpoch)
THEOREM BridgeStoppedStaysStopped == Spec => []StoppedStaysStopped
<1>1. BridgeInv /\ StoppedStaysStopped /\ [Next]_vars
          => BridgeInv' /\ StoppedStaysStopped'
    BY BridgeNext, StoppedNext
<1> QED
    BY <1>1, BridgeInit, PTL DEF Spec

\* As long as nobody has taken its mission or its client object, a running
\* Watch has a tick in flight or due, whichever way the tick before ended and
\* whatever stops, starts and injects overtake one another.
\* (start, tick, stop)
THEOREM BridgeRunningTicks == Spec => []RunningTicks
<1>1. BridgeInv /\ Halted /\ RunningTicks /\ [Next]_vars
          => BridgeInv' /\ Halted' /\ RunningTicks'
    <2> SUFFICES ASSUME BridgeInv, Halted, RunningTicks, [Next]_vars
                 PROVE  BridgeInv' /\ Halted' /\ RunningTicks'
        OBVIOUS
    <2>1. BridgeInv'
        BY BridgeNext
    <2>2. Halted'
        BY HaltedNext
    <2>3. RunningTicks'
        BY TicksNext
    <2> QED
        BY <2>1, <2>2, <2>3
<1> QED
    BY <1>1, BridgeInit, PTL DEF Spec
=============================================================================
