------------------------------ MODULE CargoTrip ------------------------------
(***************************************************************************)
(* Cargo trips of one company: one flight carries its own contract and the *)
(* contracts of up to MaxStops later stops, each a mission of its own.     *)
(*                                                                         *)
(* The tie between a flight (the host) and a later stop (the rider) is     *)
(* written twice, as throughLoads of the host and throughHostId of the     *)
(* rider; the tie between a mission and its tail is written twice as well, *)
(* as aircraftId and assignedMissionId.  Every command that opens, lands,  *)
(* cancels, loses or sweeps a mission has to keep both.                    *)
(*                                                                         *)
(* Which stop is next is left open (the code takes the lowest stopIndex),  *)
(* and so is the weight of the cargo.                                      *)
(***************************************************************************)
EXTENDS Naturals, FiniteSets

CONSTANTS
    MaxMissions,   \* bound: missions accepted in a behaviour
    Tails,
    Airports,
    NoTail,        \* aircraftId is not set
    NoPlace,       \* no fuel uplift is recorded
    MaxStops,      \* CARGO_TRIP_MAX_STOPS
    SweepFamilies, \* a flight and its later stops may be overdue together
    RiderWatched,  \* Watch may be bound to a later stop
    Inspections    \* a tail may be due for inspection when it lands

ASSUME TripAssumption ==
    /\ MaxMissions \in Nat
    /\ MaxStops \in Nat
    /\ NoTail \notin Tails
    /\ NoPlace \notin Airports
    /\ SweepFamilies \in BOOLEAN
    /\ RiderWatched \in BOOLEAN
    /\ Inspections \in BOOLEAN

Missions == 1..MaxMissions     \* in the order of state.missions
NoMission == 0

Waiting == {"accepted", "dispatched"}
OpenStatuses == Waiting \cup {"in_flight"}
ClosedStatuses == {"settled", "cancelled", "failed"}

Mission == [status : {"none"} \cup OpenStatuses \cup ClosedStatuses,
            host : Missions \cup {NoMission},    \* throughHostId
            loads : SUBSET Missions,             \* throughLoads
            tail : Tails \cup {NoTail},          \* aircraftId
            from : Airports \cup {NoPlace}, to : Airports \cup {NoPlace},
            uplift : Airports \cup {NoPlace}]    \* fuelUplift.originIcao
Tail == [status : {"parked", "assigned", "maintenance"},
         on : Missions \cup {NoMission},         \* assignedMissionId
         at : Airports]                          \* locationIcao

\* An id of state.missions that is not taken yet.
Blank == [status |-> "none", host |-> NoMission, loads |-> {}, tail |-> NoTail,
          from |-> NoPlace, to |-> NoPlace, uplift |-> NoPlace]

VARIABLES
    mission,
    tail,
    paid,          \* history: settlements paid, per mission
    returned,      \* history: times its cargo was given back
    lost,          \* history: times its cargo was lost
    fuelled        \* history: uplifts bought since the mission last left a hub

vars == <<mission, tail, paid, returned, lost, fuelled>>
history == <<paid, returned, lost, fuelled>>

NoCount == [m \in Missions |-> 0]

Init ==
    /\ mission = [m \in Missions |-> Blank]
    /\ tail \in [Tails -> {x \in Tail : x.status = "parked" /\ x.on = NoMission}]
    /\ paid = NoCount
    /\ returned = NoCount
    /\ lost = NoCount
    /\ fuelled = NoCount
-----------------------------------------------------------------------------
IsOpen(m) == mission[m].status \in OpenStatuses

Counted(count, S) == [m \in Missions |-> IF m \in S THEN count[m] + 1 ELSE count[m]]

\* The tails mission m flies or holds: by its aircraftId or, when it has none,
\* by their assignedMissionId.
TailsOf(m) ==
    IF mission[m].tail # NoTail THEN {mission[m].tail}
    ELSE {t \in Tails : tail[t].on = m}

\* Every save drops assignments whose mission is closed or has another tail.
Holds(t, tt, mm) ==
    IF tt[t].on # NoMission
    THEN /\ mm[tt[t].on].status \in OpenStatuses
         /\ mm[tt[t].on].tail \in {NoTail, t}
    ELSE \E m \in Missions : mm[m].tail = t /\ mm[m].status \in OpenStatuses

Healed(tt, mm) ==
    [t \in Tails |->
       IF (tt[t].status = "assigned" \/ tt[t].on # NoMission) /\ ~Holds(t, tt, mm)
       THEN [tt[t] EXCEPT !.on = NoMission,
                          !.status = IF @ = "maintenance" THEN @ ELSE "parked"]
       ELSE tt[t]]

Save(mm, tt) ==
    /\ mission' = mm
    /\ tail' = Healed(tt, mission')
-----------------------------------------------------------------------------
(* Opening flights and joining them.                                       *)

Booked(from, to, t) ==
    [Blank EXCEPT !.status = "accepted", !.tail = t, !.from = from, !.to = to]

\* The next id of the list.
Fresh(m) ==
    /\ mission[m].status = "none"
    /\ \A k \in 1..(m - 1) : mission[k].status # "none"

\* A contract is accepted, with a tail parked at its origin or with none (the
\* operator of a contract flight brings its own).
Accept(m, from, to, t) ==
    /\ Fresh(m)
    /\ from # to
    /\ t # NoTail => tail[t].status = "parked" /\ tail[t].at = from
    /\ Save([mission EXCEPT ![m] = Booked(from, to, t)],
            IF t = NoTail THEN tail
            ELSE [tail EXCEPT ![t].status = "assigned", ![t].on = m])
    /\ UNCHANGED history

\* A flight takes stops before it departs; one whose OFP was planned goes back
\* to accepted and keeps the fuel it has.
MayTakeStops(h) == mission[h].status \in Waiting /\ mission[h].host = NoMission

WithStop(h, r, row) ==
    [mission EXCEPT ![h].status = "accepted", ![h].loads = @ \cup {r},
                    ![r] = [row EXCEPT !.host = h]]

\* An accepted contract becomes the next stop.
AddCargoStop(h, r) ==
    /\ h # r
    /\ MayTakeStops(h)
    /\ mission[r].status = "accepted"
    /\ mission[r].host = NoMission /\ mission[r].loads = {}
    /\ mission[h].from = mission[r].from
    /\ mission[r].to \notin {mission[k].to : k \in {h} \cup mission[h].loads}
    /\ Cardinality(mission[h].loads) < MaxStops
    /\ Save(WithStop(h, r, mission[r]), tail)
    /\ UNCHANGED history

\* Cargo held at the desk becomes the next stop: a mission of its own without a
\* tail, possibly for a landing the trip makes anyway.
AddDeskHold(h, r, to) ==
    /\ Fresh(r)
    /\ MayTakeStops(h)
    /\ mission[h].tail # NoTail
    /\ tail[mission[h].tail].status = "assigned" => tail[mission[h].tail].on = h
    /\ tail[mission[h].tail].status # "maintenance"
    /\ tail[mission[h].tail].at = mission[h].from
    /\ to # mission[h].from
    /\ Cardinality(mission[h].loads) < MaxStops
    /\ Save(WithStop(h, r, Booked(mission[h].from, to, NoTail)),
            [tail EXCEPT ![mission[h].tail].status = "assigned",
                         ![mission[h].tail].on = h])
    /\ UNCHANGED history

\* The manifest is edited, or a hold is stacked onto a stop of the trip: the
\* list of stops is made anew from the missions that still wait.
Reopened(mm, h) ==
    [mm EXCEPT ![h].status = "accepted",
               ![h].loads = {r \in @ : mm[r].status \in Waiting}]

EditLoads(h) ==
    /\ mission[h].status \in Waiting
    /\ Save(Reopened(mission, h), tail)
    /\ UNCHANGED history
-----------------------------------------------------------------------------
(* Flying.                                                                 *)

\* SimBrief is opened for the flight.
Dispatch(m) ==
    /\ mission[m].status = "accepted"
    /\ mission[m].host = NoMission
    /\ Save([mission EXCEPT ![m].status = "dispatched"], tail)
    /\ UNCHANGED history

MayDepart(m) == mission[m].status \in Waiting /\ mission[m].host = NoMission

\* Fuel is bought once: a recorded uplift is not repeated.
Refuelled(m) ==
    IF mission[m].uplift = NoPlace
    THEN [mission[m] EXCEPT !.uplift = mission[m].from]
    ELSE mission[m]

Buys(m) == IF mission[m].uplift = NoPlace THEN {m} ELSE {}

Depart(m) ==
    /\ MayDepart(m)
    /\ Save([mission EXCEPT ![m] = [Refuelled(m) EXCEPT !.status = "in_flight"]], tail)
    /\ fuelled' = Counted(fuelled, Buys(m))
    /\ UNCHANGED <<paid, returned, lost>>

\* Mutant: the fuel goes back to the hub with the departure.
RevertWithFuel(m) ==
    /\ mission[m].status = "in_flight"
    /\ Save([mission EXCEPT ![m].status = "dispatched", ![m].uplift = NoPlace], tail)
    /\ UNCHANGED history

\* Watch took a flicker on the ground for a departure.
RevertFalseDepart(m) ==
    /\ mission[m].status = "in_flight"
    /\ Save([mission EXCEPT ![m].status = "dispatched"], tail)
    /\ UNCHANGED history

\* Mutant: the mission moves to the hub and its tail stays behind.
LeaveFreightOnly(m, hub) ==
    /\ mission[m].status = "in_flight"
    /\ hub \notin {mission[m].from, mission[m].to}
    /\ Save([mission EXCEPT ![m].status = "accepted", ![m].from = hub,
                            ![m].uplift = NoPlace],
            tail)
    /\ fuelled' = [fuelled EXCEPT ![m] = 0]
    /\ UNCHANGED <<paid, returned, lost>>

\* The leg ends at a hub on the way and the mission waits there with its tail.
LeaveFreight(m, hub) ==
    /\ mission[m].status = "in_flight"
    /\ hub \notin {mission[m].from, mission[m].to}
    /\ Save([mission EXCEPT ![m].status = "accepted", ![m].from = hub,
                            ![m].uplift = NoPlace],
            [t \in Tails |-> IF t \in TailsOf(m)
                             THEN [status |-> "assigned", on |-> m, at |-> hub]
                             ELSE tail[t]])
    /\ fuelled' = [fuelled EXCEPT ![m] = 0]
    /\ UNCHANGED <<paid, returned, lost>>

\* Stops of m that are unloaded where it lands, and those that ride on.
Here(m) ==
    {r \in mission[m].loads : /\ mission[r].to = mission[m].to
                              /\ mission[r].status \notin {"cancelled", "settled"}}
Later(m) == {r \in mission[m].loads : mission[r].to # mission[m].to}

\* Mutant: the landing leaves the tail where the fuel was bought.
LandedAtUplift(m, inspected) ==
    [t \in Tails |->
       IF t \in TailsOf(m)
       THEN [status |-> IF inspected THEN "maintenance" ELSE "parked",
             on |-> NoMission, at |-> mission[m].uplift]
       ELSE tail[t]]

\* The tails that land with m, due for an inspection or not; a stop that is
\* unloaded has its aircraftId removed first.
Landing(m) == TailsOf(m) \cup {t \in Tails : tail[t].on \in Here(m)}
Landed(m, inspected) ==
    [t \in Tails |->
       IF t \in Landing(m)
       THEN [status |-> IF inspected THEN "maintenance" ELSE "parked",
             on |-> NoMission, at |-> mission[m].to]
       ELSE tail[t]]

Unloaded(r) ==
    [mission[r] EXCEPT !.status = "settled", !.host = NoMission, !.loads = {},
                       !.tail = NoTail]

\* The next stop goes on from the hub with the flight's tail, unless that went
\* to the shop; the others ride on it.
Continues(m, n) ==
    n \in Later(m) /\ mission[n].status \notin {"cancelled", "settled"}
Onward(m, n, inspected) ==
    [mission[n] EXCEPT !.status = "accepted", !.host = NoMission,
                       !.from = mission[m].to, !.loads = Later(m) \ {n},
                       !.tail = IF inspected THEN NoTail ELSE mission[m].tail]

\* Mutant: the rows unloaded with the flight stay open.
SettledAlone(m, n, inspected) ==
    [k \in Missions |->
       CASE k = m -> [Refuelled(m) EXCEPT !.status = "settled", !.loads = {}]
         [] k # m /\ k = n /\ Continues(m, n) -> Onward(m, n, inspected)
         [] k # m /\ k # n /\ k \in Later(m) /\ Continues(m, n) ->
              [mission[k] EXCEPT !.host = n]
         [] OTHER -> mission[k]]

SettledRows(m, n, inspected) ==
    [k \in Missions |->
       CASE k = m -> [Refuelled(m) EXCEPT !.status = "settled", !.loads = {}]
         [] k # m /\ k \in Here(m) -> Unloaded(k)
         [] k # m /\ k = n /\ Continues(m, n) -> Onward(m, n, inspected)
         [] k # m /\ k # n /\ k \in Later(m) /\ Continues(m, n) ->
              [mission[k] EXCEPT !.host = n]
         [] OTHER -> mission[k]]

\* The flight lands, departing first if nobody told it to.  Its contract and
\* those unloaded with it are paid.
Settle(m, n, inspected) ==
    /\ mission[m].status = "in_flight" \/ MayDepart(m)
    /\ IF Later(m) = {} THEN n = NoMission ELSE n \in Later(m)
    /\ inspected => Inspections
    /\ Save(SettledRows(m, n, inspected),
            [t \in Tails |->
               IF Continues(m, n) /\ ~inspected /\ t = mission[m].tail
               THEN [status |-> "assigned", on |-> n, at |-> mission[m].to]
               ELSE Landed(m, inspected)[t]])
    /\ paid' = Counted(paid, {m} \cup Here(m))
    /\ fuelled' = [k \in Missions |->
                     IF k = n THEN 0
                     ELSE Counted(fuelled, IF MayDepart(m) THEN Buys(m) ELSE {})[k]]
    /\ UNCHANGED <<returned, lost>>
-----------------------------------------------------------------------------
(* Ending without delivery.                                                *)

\* Later stops of m that a cancellation of m takes along.
Riders(m) == {r \in mission[m].loads : mission[r].host = m /\ IsOpen(r)}
Family(S) == S \cup UNION {Riders(m) : m \in S}

\* The flight k rides on when the missions C end.
HostWithout(C, k) ==
    LET h == mission[k].host
    IN IF h \in C /\ k \in mission[h].loads THEN NoMission ELSE h

\* Mutant: a stop that ends is not taken off the flight that carries it.
AbortedOneSided(C) ==
    [k \in Missions |->
       IF k \in C
       THEN [mission[k] EXCEPT !.status = "cancelled", !.host = NoMission,
                               !.loads = {}]
       ELSE [mission[k] EXCEPT !.host = HostWithout(C, k)]]

\* The missions C end: their ties are cut and their tails stand where they were.
Aborted(C) ==
    [k \in Missions |->
       IF k \in C
       THEN [mission[k] EXCEPT !.status = "cancelled", !.host = NoMission,
                               !.loads = {}]
       ELSE [mission[k] EXCEPT
               !.loads = @ \ {r \in C : mission[r].host = k},
               !.host = HostWithout(C, k)]]

Stood(C) ==
    [t \in Tails |->
       LET by == {m \in C : t \in TailsOf(m)}
       IN IF by = {} THEN tail[t]
          ELSE [status |-> "parked", on |-> NoMission,
                at |-> mission[CHOOSE m \in by : TRUE].from]]

\* Mutant: the later stops are closed and their cargo is forgotten.
CancelHostOnly(m) ==
    /\ IsOpen(m)
    /\ Save(Aborted(Family({m})), Stood(Family({m})))
    /\ returned' = Counted(returned, {m})
    /\ UNCHANGED <<paid, lost, fuelled>>

\* A flight is cancelled together with its later stops.
Cancel(m) ==
    /\ IsOpen(m)
    /\ Save(Aborted(Family({m})), Stood(Family({m})))
    /\ returned' = Counted(returned, Family({m}))
    /\ UNCHANGED <<paid, lost, fuelled>>

\* A later stop is set to zero on the manifest.
DropStop(h, r) ==
    /\ mission[h].status \in Waiting
    /\ mission[r].status \in Waiting
    /\ mission[r].host = h
    /\ Save(Reopened(Aborted(Family({r})), h), Stood(Family({r})))
    /\ returned' = Counted(returned, Family({r}))
    /\ UNCHANGED <<paid, lost, fuelled>>

\* Watch saw the aircraft crash.  The rows of the trip keep their ties.
Impact(m) ==
    /\ IsOpen(m)
    /\ mission[m].host # NoMission => RiderWatched
    /\ Save([mission EXCEPT ![m].status = "failed"], Stood({m}))
    /\ lost' = Counted(lost, {m})
    /\ UNCHANGED <<paid, returned, fuelled>>

\* Housekeeping cancels the overdue flights E from a copy of the list taken
\* before the first of them: a later stop its flight has already taken along
\* is cancelled a second time from its old row.
Again(E) ==
    {r \in E : \E h \in E : h < r /\ r \in Riders(h)}

ExpireStale(E) ==
    /\ E # {}
    /\ \A m \in E : IsOpen(m)
    /\ ~SweepFamilies => \A h \in E : Riders(h) \cap E = {}
    /\ Save(Aborted(Family(E)), Stood(Family(E)))
    /\ returned' = Counted(Counted(returned, Family(E)), Again(E))
    /\ UNCHANGED <<paid, lost, fuelled>>

\* The shop returns a tail.
ReturnToService(t) ==
    /\ tail[t].status = "maintenance"
    /\ Save(mission, [tail EXCEPT ![t].status = "parked"])
    /\ UNCHANGED history
-----------------------------------------------------------------------------
Open ==
    \E m \in Missions, to \in Airports :
        \/ \E from \in Airports, t \in Tails \cup {NoTail} : Accept(m, from, to, t)
        \/ \E h \in Missions : AddDeskHold(h, m, to)

Trip ==
    \E h, r \in Missions : AddCargoStop(h, r) \/ DropStop(h, r)

Fly ==
    \E m \in Missions :
        \/ EditLoads(m) \/ Dispatch(m) \/ Depart(m) \/ RevertFalseDepart(m)
        \/ \E hub \in Airports : LeaveFreight(m, hub)
        \/ \E n \in Missions \cup {NoMission}, inspected \in BOOLEAN :
               Settle(m, n, inspected)
        \/ Cancel(m) \/ Impact(m)

Housekeeping ==
    \/ \E E \in SUBSET Missions : ExpireStale(E)
    \/ \E t \in Tails : ReturnToService(t)

Next == Open \/ Trip \/ Fly \/ Housekeeping

Spec == Init /\ [][Next]_vars
-----------------------------------------------------------------------------
(* Properties.                                                             *)

\* The rows, the tails and the counts have the shapes the code gives them.
TypeOK ==
    /\ mission \in [Missions -> Mission]
    /\ tail \in [Tails -> Tail]
    /\ {paid, returned, lost, fuelled} \subseteq [Missions -> Nat]

\* The two records of a trip agree.  Whatever an open flight carries for later
\* stops is an accepted mission that points back to it and carries nothing
\* itself; an open later stop rides on an open flight that lists it, or on one
\* that crashed.  (addCargoStop, continueCargoTripAfterSettle,
\* releaseCargoTripOnCancel)
LinksAgree ==
    /\ \A h \in Missions : IsOpen(h) => \A r \in mission[h].loads :
           /\ mission[r].status = "accepted"
           /\ mission[r].host = h
           /\ mission[r].loads = {}
    /\ \A r \in Missions : IsOpen(r) /\ mission[r].host # NoMission =>
           LET h == mission[r].host
           IN \/ IsOpen(h) /\ r \in mission[h].loads /\ mission[h].host = NoMission
              \/ mission[h].status = "failed"

\* The contract of a mission leaves the company's hands at most once: it is
\* paid, or given back, or lost.  (settleMission, cancelMission,
\* failMissionImpact, expireStaleActiveMissions)
ReleasedOnce ==
    \A m \in Missions : paid[m] + returned[m] + lost[m] <= 1

\* A flight on the ground that names a tail has it: the tail stands at the
\* flight's origin and is assigned to it, so the sweep of orphans
\* (cancelOrphanPlayerMissions) never takes a flight that is still planned, and
\* what departs departs from where its tail is.
TailReady ==
    \A m \in Missions :
        mission[m].status \in Waiting /\ mission[m].tail # NoTail =>
            LET t == tail[mission[m].tail]
            IN t.status = "assigned" /\ t.on = m /\ t.at = mission[m].from

\* Between two hubs a mission buys fuel once, whatever false departures and
\* replanning come between.  (applyPlayerDepartFuel, revertFalseDepartMission)
FuelOnce == \A m \in Missions : fuelled[m] <= 1

\* Every contract is carried to one end, and a landing or a cancellation of a
\* trip ends each of its contracts as the contract of a flight of its own ends.
PhaseOf ==
    [none |-> "unbooked", accepted |-> "carried", dispatched |-> "carried",
     in_flight |-> "carried", settled |-> "delivered", cancelled |-> "returned",
     failed |-> "lost"]

Contract == INSTANCE CargoContract WITH
    Contracts <- Missions,
    phase <- [m \in Missions |-> PhaseOf[mission[m].status]],
    paid <- paid,
    returned <- returned

EachContractEndsOnce == Contract!Spec
=============================================================================
