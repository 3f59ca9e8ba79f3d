--------------------------- MODULE CargoTrip_proofs ---------------------------
(***************************************************************************)
(* Proofs about CargoTrip, for any number of missions, tails, airports and *)
(* stops.                                                                  *)
(***************************************************************************)
EXTENDS CargoTrip, TLAPS

\* A row has its shape, and a place to go from and to once it is taken.
Sound(x) ==
    /\ x \in Mission
    /\ x.status # "none" => x.from \in Airports /\ x.to \in Airports

Rows == mission \in [Missions -> Mission] /\ \A m \in Missions : Sound(mission[m])

Fleet == tail \in [Tails -> Tail]

Counts ==
    /\ paid \in [Missions -> Nat] /\ returned \in [Missions -> Nat]
    /\ lost \in [Missions -> Nat] /\ fuelled \in [Missions -> Nat]

Typed == Rows /\ Fleet /\ Counts

LEMMA TypedIsTypeOK == Typed => TypeOK
BY DEF Typed, Rows, Fleet, Counts, TypeOK

-----------------------------------------------------------------------------
(* What the helpers return.                                                *)

LEMMA NoMissionIsNone == NoMission \notin Missions
BY TripAssumption DEF NoMission, Missions

LEMMA BlankSound == Sound(Blank) /\ Blank.status = "none" /\ Blank.tail = NoTail
BY DEF Sound, Blank, Mission

\* The sweep of orphaned assignments keeps the shape of the fleet, and a tail
\* that is held.
LEMMA HealedTyped ==
    ASSUME NEW tt \in [Tails -> Tail], NEW mm
    PROVE  /\ Healed(tt, mm) \in [Tails -> Tail]
           /\ \A t \in Tails : Holds(t, tt, mm) => Healed(tt, mm)[t] = tt[t]
<1>1. \A t \in Tails :
          [tt[t] EXCEPT !.on = NoMission,
                        !.status = IF @ = "maintenance" THEN @ ELSE "parked"] \in Tail
    BY DEF Tail
<1> QED
    BY <1>1 DEF Healed

\* A save of sound rows and a sound fleet.
LEMMA SaveTyped ==
    ASSUME NEW mm \in [Missions -> Mission], \A m \in Missions : Sound(mm[m]),
           NEW tt \in [Tails -> Tail], Save(mm, tt)
    PROVE  Rows' /\ Fleet' /\ mission' = mm
<1>1. mission' = mm /\ tail' = Healed(tt, mission')
    BY DEF Save
<1>2. tail' \in [Tails -> Tail]
    BY <1>1, HealedTyped
<1> QED
    BY <1>1, <1>2 DEF Rows, Fleet

\* One row, and one tail, is changed.
LEMMA OneRow ==
    ASSUME Rows, NEW m \in Missions, NEW q, Sound(q)
    PROVE  /\ [mission EXCEPT ![m] = q] \in [Missions -> Mission]
           /\ \A k \in Missions : Sound([mission EXCEPT ![m] = q][k])
BY DEF Rows, Sound

LEMMA SameRow ==
    ASSUME NEW x \in Mission, NEW y \in Mission,
           x.status = y.status, x.host = y.host, x.loads = y.loads, x.tail = y.tail,
           x.from = y.from, x.to = y.to, x.uplift = y.uplift
    PROVE  x = y
BY DEF Mission

LEMMA BookedSound ==
    ASSUME NEW from \in Airports, NEW to \in Airports, NEW t \in Tails \cup {NoTail}
    PROVE  LET q == Booked(from, to, t)
           IN /\ Sound(q)
              /\ q.status = "accepted" /\ q.host = NoMission /\ q.loads = {}
              /\ q.tail = t /\ q.from = from /\ q.to = to /\ q.uplift = NoPlace
<1> DEFINE q == Booked(from, to, t)
<1>1. q \in Mission
    BY DEF Booked, Blank, Mission, OpenStatuses, Waiting
<1>2. /\ q.status = "accepted" /\ q.host = NoMission /\ q.loads = {}
      /\ q.tail = t /\ q.from = from /\ q.to = to /\ q.uplift = NoPlace
    BY DEF Booked, Blank
<1> QED
    BY <1>1, <1>2 DEF Sound

\* A row that is cancelled.
LEMMA EndedRow ==
    ASSUME NEW x \in Mission, Sound(x), x.status # "none"
    PROVE  LET q == [x EXCEPT !.status = "cancelled", !.host = NoMission,
                              !.loads = {}]
           IN /\ Sound(q) /\ q.status = "cancelled" /\ q.host = NoMission
              /\ q.loads = {} /\ q.tail = x.tail /\ q.uplift = x.uplift
              /\ q.from = x.from /\ q.to = x.to
<1> DEFINE q == [x EXCEPT !.status = "cancelled", !.host = NoMission, !.loads = {}]
<1>1. q \in Mission
    BY DEF Mission, ClosedStatuses
<1>2. /\ q.status = "cancelled" /\ q.host = NoMission
      /\ q.loads = {} /\ q.tail = x.tail /\ q.uplift = x.uplift
      /\ q.from = x.from /\ q.to = x.to
    BY DEF Mission
<1> HIDE DEF q
<1>3. Sound(q)
    BY <1>1, <1>2 DEF Sound
<1> QED
    BY <1>2, <1>3 DEF q

LEMMA CountedTyped ==
    ASSUME NEW count \in [Missions -> Nat], NEW S
    PROVE  Counted(count, S) \in [Missions -> Nat]
BY DEF Counted

\* The stops of a flight, and the tails it flies.
LEMMA TailsOfTyped ==
    ASSUME Typed, NEW m \in Missions
    PROVE  TailsOf(m) \subseteq Tails /\ Here(m) \subseteq Missions
           /\ Later(m) \subseteq Missions /\ Riders(m) \subseteq Missions
BY DEF Typed, Rows, Sound, Mission, TailsOf, Here, Later, Riders

LEMMA FamilyOpen ==
    ASSUME Typed, NEW S \in SUBSET Missions, \A m \in S : IsOpen(m)
    PROVE  Family(S) \in SUBSET Missions /\ \A m \in Family(S) : IsOpen(m)
BY TailsOfTyped DEF Family, Riders

LEMMA OpenIsPlaced ==
    ASSUME Rows, NEW m \in Missions, IsOpen(m)
    PROVE  mission[m].from \in Airports /\ mission[m].to \in Airports
BY DEF Rows, Sound, IsOpen, OpenStatuses, Waiting

LEMMA StoodTyped ==
    ASSUME Typed, NEW C \in SUBSET Missions, \A m \in C : IsOpen(m)
    PROVE  Stood(C) \in [Tails -> Tail]
<1>1. ASSUME NEW t \in Tails, NEW by, by = {m \in C : t \in TailsOf(m)}, by # {}
      PROVE  [status |-> "parked", on |-> NoMission,
              at |-> mission[CHOOSE m \in by : TRUE].from] \in Tail
  <2>1. (CHOOSE m \in by : TRUE) \in C
      BY <1>1
  <2>2. mission[CHOOSE m \in by : TRUE].from \in Airports
      BY <2>1, OpenIsPlaced DEF Typed
  <2> QED
      BY <2>2 DEF Tail
<1> QED
    BY <1>1 DEF Stood, Typed, Fleet

\* What the rows are after the missions C ended.
LEMMA AbortedSound ==
    ASSUME Typed, NEW C \in SUBSET Missions, \A m \in C : IsOpen(m)
    PROVE  LET mm == Aborted(C) IN
           /\ mm \in [Missions -> Mission] /\ \A k \in Missions : Sound(mm[k])
           /\ \A k \in C : /\ mm[k].status = "cancelled"
                            /\ mm[k].host = NoMission /\ mm[k].loads = {}
           /\ \A k \in Missions \ C :
                 /\ mm[k].status = mission[k].status
                 /\ mm[k].loads = mission[k].loads \ {r \in C : mission[r].host = k}
                 /\ mm[k].host = HostWithout(C, k)
           /\ \A k \in Missions :
                 /\ mm[k].tail = mission[k].tail /\ mm[k].uplift = mission[k].uplift
                 /\ mm[k].from = mission[k].from /\ mm[k].to = mission[k].to
<1> DEFINE L(k) == mission[k].loads \ {r \in C : mission[r].host = k}
           H(k) == HostWithout(C, k)
<1> DEFINE mm == Aborted(C)
<1>0. \A k \in Missions : mission[k] \in Mission /\ Sound(mission[k])
    BY DEF Typed, Rows
<1>1. \A k \in Missions :
          L(k) \in SUBSET Missions /\ H(k) \in Missions \cup {NoMission}
    BY <1>0 DEF Mission, HostWithout
<1>2. ASSUME NEW k \in C
      PROVE  mm[k] = [mission[k] EXCEPT !.status = "cancelled",
                          !.host = NoMission, !.loads = {}]
    BY DEF Aborted
<1>3. ASSUME NEW k \in Missions \ C
      PROVE  mm[k] = [mission[k] EXCEPT !.loads = L(k), !.host = H(k)]
    BY DEF Aborted
<1> HIDE DEF mm, L, H
<1>4. ASSUME NEW k \in C
      PROVE  /\ Sound(mm[k]) /\ mm[k].status = "cancelled"
             /\ mm[k].host = NoMission /\ mm[k].loads = {}
             /\ mm[k].tail = mission[k].tail /\ mm[k].uplift = mission[k].uplift
             /\ mm[k].from = mission[k].from /\ mm[k].to = mission[k].to
  <2>1. mission[k] \in Mission /\ Sound(mission[k]) /\ mission[k].status # "none"
      BY <1>0 DEF IsOpen, OpenStatuses, Waiting
  <2> QED
      BY <1>2, <2>1, EndedRow
<1>5. ASSUME NEW k \in Missions \ C
      PROVE  /\ Sound(mm[k]) /\ mm[k].status = mission[k].status
             /\ mm[k].host = H(k) /\ mm[k].loads = L(k)
             /\ mm[k].tail = mission[k].tail /\ mm[k].uplift = mission[k].uplift
             /\ mm[k].from = mission[k].from /\ mm[k].to = mission[k].to
  <2>1. mission[k] \in Mission /\ Sound(mission[k])
      BY <1>0
  <2>2. PICK l \in SUBSET Missions : l = L(k)
      BY <1>1
  <2>3. PICK h \in Missions \cup {NoMission} : h = H(k)
      BY <1>1
  <2>4. mm[k] = [mission[k] EXCEPT !.loads = l, !.host = h]
      BY <1>3, <2>2, <2>3
  <2>5. PICK x \in Mission : x = mission[k] /\ Sound(x)
      BY <2>1
  <2>6. mm[k] = [x EXCEPT !.loads = l, !.host = h]
      BY <2>4, <2>5
  <2>7. mm[k] \in Mission
      BY <2>6 DEF Mission
  <2>8. /\ mm[k].status = x.status /\ mm[k].host = h /\ mm[k].loads = l
        /\ mm[k].tail = x.tail /\ mm[k].uplift = x.uplift
        /\ mm[k].from = x.from /\ mm[k].to = x.to
      BY <2>6 DEF Mission
  <2>9. Sound(mm[k])
      BY <2>5, <2>7, <2>8 DEF Sound
  <2> QED
      BY <2>2, <2>3, <2>5, <2>8, <2>9
<1>6. \A k \in Missions : Sound(mm[k])
    BY <1>4, <1>5
<1>7. mm \in [Missions -> Mission]
    BY <1>6 DEF mm, Aborted, Sound
<1> QED
    BY <1>4, <1>5, <1>6, <1>7 DEF mm, L, H

-----------------------------------------------------------------------------
(* What each action does to the rows, one row at a time, and that it keeps *)
(* their shape.                                                            *)

\* Rows other than those of S are left alone.
Alone(S) == \A k \in Missions \ S : mission'[k] = mission[k]

\* The row of m changes its status, its origin and its fuel only.
Same(m) ==
    /\ mission'[m].host = mission[m].host /\ mission'[m].loads = mission[m].loads
    /\ mission'[m].tail = mission[m].tail /\ mission'[m].to = mission[m].to

LEMMA AcceptRows ==
    ASSUME Typed, NEW m \in Missions, NEW from \in Airports, NEW to \in Airports,
           NEW t \in Tails \cup {NoTail}, Accept(m, from, to, t)
    PROVE  /\ Typed' /\ Alone({m}) /\ mission[m].status = "none"
           /\ mission'[m].status = "accepted" /\ mission'[m].host = NoMission
           /\ mission'[m].loads = {} /\ mission'[m].tail = t
           /\ mission'[m].from = from /\ mission'[m].uplift = NoPlace
<1> DEFINE mm == [mission EXCEPT ![m] = Booked(from, to, t)]
           tt == IF t = NoTail THEN tail
                 ELSE [tail EXCEPT ![t].status = "assigned", ![t].on = m]
<1>1. mm \in [Missions -> Mission] /\ \A k \in Missions : Sound(mm[k])
    BY BookedSound, OneRow DEF Typed
<1>2. tt \in [Tails -> Tail]
    BY DEF Typed, Fleet, Tail
<1>3. Save(mm, tt) /\ mission[m].status = "none" /\ UNCHANGED history
    BY DEF Accept, Fresh
<1> HIDE DEF tt
<1>4. Rows' /\ Fleet' /\ mission' = mm
    BY <1>1, <1>2, <1>3, SaveTyped
<1>5. mission'[m] = Booked(from, to, t) /\ Alone({m})
    BY <1>4 DEF Typed, Rows, Alone
<1>6. Counts'
    BY <1>3 DEF history, Typed, Counts
<1> QED
    BY <1>3, <1>4, <1>5, <1>6, BookedSound DEF Typed

\* A flight takes the stop r, whose row is that of a contract or a new one.
LEMMA WithStopRows ==
    ASSUME Typed, NEW h \in Missions, NEW r \in Missions \ {h}, NEW row \in Mission,
           Sound(row), row.status # "none", mission[h].status # "none",
           mission' = WithStop(h, r, row)
    PROVE  /\ mission' \in [Missions -> Mission]
           /\ \A k \in Missions : Sound(mission'[k])
           /\ Alone({h, r})
           /\ mission'[h].status = "accepted"
           /\ mission'[h].loads = mission[h].loads \cup {r}
           /\ mission'[h].host = mission[h].host /\ mission'[h].tail = mission[h].tail
           /\ mission'[h].from = mission[h].from /\ mission'[h].uplift = mission[h].uplift
           /\ mission'[r].status = row.status /\ mission'[r].host = h
           /\ mission'[r].loads = row.loads /\ mission'[r].tail = row.tail
           /\ mission'[r].from = row.from /\ mission'[r].uplift = row.uplift
<1>0. mission \in [Missions -> Mission] /\ \A k \in Missions : Sound(mission[k])
    BY DEF Typed, Rows
<1>1. Alone({h, r}) /\ mission'[r] = [row EXCEPT !.host = h]
    BY <1>0 DEF WithStop, Alone
<1>2. mission'[h] = [mission[h] EXCEPT !.status = "accepted", !.loads = @ \cup {r}]
    BY <1>0 DEF WithStop
<1>3. mission'[h] \in Mission /\ mission'[r] \in Mission
  <2>1. mission[h] \in Mission /\ "accepted" \in OpenStatuses
      BY <1>0 DEF OpenStatuses, Waiting
  <2>a. PICK l \in SUBSET Missions : l = mission[h].loads \cup {r}
      BY <2>1 DEF Mission
  <2>b. mission'[h] = [mission[h] EXCEPT !.status = "accepted", !.loads = l]
      BY <1>2, <2>a
  <2>2. mission'[h] \in Mission
      BY <2>1, <2>a, <2>b DEF Mission
  <2>3. mission'[r] \in Mission
      BY <1>1 DEF Mission
  <2> QED
      BY <2>2, <2>3
<1>4. /\ mission'[h].status = "accepted"
      /\ mission'[h].loads = mission[h].loads \cup {r}
      /\ mission'[h].host = mission[h].host /\ mission'[h].tail = mission[h].tail
      /\ mission'[h].from = mission[h].from /\ mission'[h].uplift = mission[h].uplift
      /\ mission'[h].to = mission[h].to
    BY <1>0, <1>2 DEF Mission
<1>5. /\ mission'[r].status = row.status /\ mission'[r].host = h
      /\ mission'[r].loads = row.loads /\ mission'[r].tail = row.tail
      /\ mission'[r].from = row.from /\ mission'[r].uplift = row.uplift
      /\ mission'[r].to = row.to
    BY <1>1 DEF Mission
<1>6. Sound(mission'[h]) /\ Sound(mission'[r])
    BY <1>0, <1>3, <1>4, <1>5 DEF Sound
<1>7. \A k \in Missions : Sound(mission'[k])
    BY <1>0, <1>1, <1>6 DEF Alone
<1>8. mission' \in [Missions -> Mission]
    BY <1>0, <1>7 DEF WithStop, Sound
<1> QED
    BY <1>1, <1>4, <1>5, <1>7, <1>8

LEMMA ChangedRows ==
    ASSUME Typed, NEW m \in Missions, NEW q, Sound(q), NEW tt \in [Tails -> Tail],
           Save([mission EXCEPT ![m] = q], tt)
    PROVE  Rows' /\ Fleet' /\ Alone({m}) /\ mission'[m] = q
<1> DEFINE mm == [mission EXCEPT ![m] = q]
<1>1. mm \in [Missions -> Mission] /\ \A k \in Missions : Sound(mm[k])
    BY OneRow DEF Typed
<1>2. mm[m] = q /\ \A k \in Missions \ {m} : mm[k] = mission[k]
    BY DEF Typed, Rows
<1> HIDE DEF mm
<1>3. Save(mm, tt)
    BY DEF mm
<1>4. Rows' /\ Fleet' /\ mission' = mm
    BY <1>1, <1>3, SaveTyped
<1> QED
    BY <1>2, <1>4 DEF Alone

LEMMA StatusRow ==
    ASSUME Typed, NEW m \in Missions, mission[m].status # "none",
           NEW s \in OpenStatuses \cup ClosedStatuses
    PROVE  LET q == [mission[m] EXCEPT !.status = s]
           IN /\ Sound(q) /\ q.status = s /\ q.host = mission[m].host
              /\ q.loads = mission[m].loads /\ q.tail = mission[m].tail
              /\ q.from = mission[m].from /\ q.uplift = mission[m].uplift
<1> DEFINE q == [mission[m] EXCEPT !.status = s]
<1>0. mission[m] \in Mission /\ Sound(mission[m])
    BY DEF Typed, Rows
<1>1. q \in Mission
    BY <1>0 DEF Mission
<1>2. /\ q.status = s /\ q.host = mission[m].host
      /\ q.loads = mission[m].loads /\ q.tail = mission[m].tail
      /\ q.from = mission[m].from /\ q.uplift = mission[m].uplift
      /\ q.to = mission[m].to
    BY <1>0 DEF Mission
<1> HIDE DEF q
<1>3. Sound(q)
    BY <1>0, <1>1, <1>2 DEF Sound
<1> QED
    BY <1>2, <1>3 DEF q

\* Dispatch, RevertFalseDepart and Impact change the status alone.
LEMMA StatusRows ==
    ASSUME Typed, NEW m \in Missions, mission[m].status # "none",
           NEW s \in OpenStatuses \cup ClosedStatuses, NEW tt \in [Tails -> Tail],
           Save([mission EXCEPT ![m].status = s], tt)
    PROVE  /\ Rows' /\ Fleet' /\ Alone({m})
           /\ mission'[m].status = s /\ mission'[m].host = mission[m].host
           /\ mission'[m].loads = mission[m].loads /\ mission'[m].tail = mission[m].tail
           /\ mission'[m].from = mission[m].from
           /\ mission'[m].uplift = mission[m].uplift
<1> DEFINE q == [mission[m] EXCEPT !.status = s]
<1>1. Save([mission EXCEPT ![m] = q], tt)
    OBVIOUS
<1>2. /\ Sound(q) /\ q.status = s /\ q.host = mission[m].host
      /\ q.loads = mission[m].loads /\ q.tail = mission[m].tail
      /\ q.from = mission[m].from /\ q.uplift = mission[m].uplift
    BY StatusRow
<1> HIDE DEF q
<1> QED
    BY <1>1, <1>2, ChangedRows

\* Fuel is bought with the first departure from a hub.
LEMMA RefuelledSound ==
    ASSUME Typed, NEW m \in Missions, IsOpen(m)
    PROVE  /\ Refuelled(m) \in Mission /\ Sound(Refuelled(m))
           /\ Refuelled(m).uplift # NoPlace
           /\ Refuelled(m).host = mission[m].host
           /\ Refuelled(m).loads = mission[m].loads
           /\ Refuelled(m).tail = mission[m].tail
           /\ Refuelled(m).from = mission[m].from
           /\ Refuelled(m).to = mission[m].to
<1>0. mission[m] \in Mission /\ Sound(mission[m]) /\ mission[m].from \in Airports
    BY OpenIsPlaced DEF Typed, Rows
<1>1. CASE mission[m].uplift = NoPlace
  <2> DEFINE q == [mission[m] EXCEPT !.uplift = mission[m].from]
  <2>1. q \in Mission
      BY <1>0 DEF Mission
  <2>2. /\ q.status = mission[m].status /\ q.host = mission[m].host
        /\ q.loads = mission[m].loads /\ q.tail = mission[m].tail
        /\ q.from = mission[m].from /\ q.uplift = mission[m].from
        /\ q.to = mission[m].to
      BY <1>0 DEF Mission
  <2>3. Refuelled(m) = q
      BY <1>1 DEF Refuelled
  <2> HIDE DEF q
  <2>4. Sound(q) /\ q.uplift # NoPlace
      BY <1>0, <2>1, <2>2, TripAssumption DEF Sound
  <2> QED
      BY <2>1, <2>2, <2>3, <2>4
<1>2. CASE mission[m].uplift # NoPlace
    BY <1>0, <1>2 DEF Refuelled
<1> QED
    BY <1>1, <1>2

LEMMA DepartRows ==
    ASSUME Typed, NEW m \in Missions, Depart(m)
    PROVE  /\ Typed' /\ Alone({m}) /\ IsOpen(m) /\ mission[m].host = NoMission
           /\ mission'[m].status = "in_flight" /\ mission'[m].host = mission[m].host
           /\ mission'[m].loads = mission[m].loads /\ mission'[m].tail = mission[m].tail
           /\ mission'[m].from = mission[m].from /\ mission'[m].uplift # NoPlace
<1> DEFINE q == [Refuelled(m) EXCEPT !.status = "in_flight"]
<1>0. mission[m].status \in Waiting /\ mission[m].host = NoMission /\ IsOpen(m)
    BY DEF Depart, MayDepart, IsOpen, OpenStatuses
<1>1. PICK x \in Mission : x = Refuelled(m) /\ Sound(x)
    BY <1>0, RefuelledSound
<1>2. "in_flight" \in OpenStatuses
    BY DEF OpenStatuses
<1>3. q \in Mission
    BY <1>1, <1>2 DEF Mission
<1>4. /\ q.status = "in_flight" /\ q.host = x.host /\ q.loads = x.loads
      /\ q.tail = x.tail /\ q.from = x.from /\ q.uplift = x.uplift /\ q.to = x.to
    BY <1>1 DEF Mission
<1>5. Save([mission EXCEPT ![m] = q], tail)
    BY DEF Depart
<1> HIDE DEF q
<1>6. mission[m].from \in Airports /\ mission[m].to \in Airports
    BY <1>0, OpenIsPlaced DEF Typed
<1>7. Sound(q)
    BY <1>0, <1>1, <1>3, <1>4, <1>6, RefuelledSound DEF Sound
<1>8. Rows' /\ Fleet' /\ Alone({m}) /\ mission'[m] = q
    BY <1>5, <1>7, ChangedRows DEF Typed, Fleet
<1>9. Counts'
    BY CountedTyped DEF Depart, Typed, Counts
<1> QED
    BY <1>0, <1>1, <1>4, <1>8, <1>9, RefuelledSound DEF Typed

LEMMA LeaveRows ==
    ASSUME Typed, NEW m \in Missions, NEW hub \in Airports, LeaveFreight(m, hub)
    PROVE  /\ Typed' /\ Alone({m}) /\ mission[m].status = "in_flight"
           /\ mission'[m].status = "accepted" /\ mission'[m].host = mission[m].host
           /\ mission'[m].loads = mission[m].loads /\ mission'[m].tail = mission[m].tail
           /\ mission'[m].from = hub /\ mission'[m].uplift = NoPlace
<1> DEFINE q == [mission[m] EXCEPT !.status = "accepted", !.from = hub,
                                   !.uplift = NoPlace]
           tt == [t \in Tails |-> IF t \in TailsOf(m)
                                  THEN [status |-> "assigned", on |-> m, at |-> hub]
                                  ELSE tail[t]]
<1>0. mission[m].status = "in_flight" /\ IsOpen(m)
    BY DEF LeaveFreight, IsOpen, OpenStatuses
<1>1. PICK x \in Mission : x = mission[m] /\ Sound(x)
    BY DEF Typed, Rows
<1>2. "accepted" \in OpenStatuses
    BY DEF OpenStatuses, Waiting
<1>3. q \in Mission
    BY <1>1, <1>2 DEF Mission
<1>4. /\ q.status = "accepted" /\ q.host = x.host /\ q.loads = x.loads
      /\ q.tail = x.tail /\ q.from = hub /\ q.uplift = NoPlace /\ q.to = x.to
    BY <1>1 DEF Mission
<1>5. Save([mission EXCEPT ![m] = q], tt)
    BY DEF LeaveFreight
<1>6. tt \in [Tails -> Tail]
    BY DEF Typed, Fleet, Tail
<1> HIDE DEF q, tt
<1>7. Sound(q)
    BY <1>0, <1>1, <1>3, <1>4, OpenIsPlaced DEF Sound, Typed
<1>8. Rows' /\ Fleet' /\ Alone({m}) /\ mission'[m] = q
    BY <1>5, <1>6, <1>7, ChangedRows
<1>9. Counts'
    BY DEF LeaveFreight, Typed, Counts
<1> QED
    BY <1>0, <1>1, <1>4, <1>8, <1>9 DEF Typed

\* The list of stops made anew.
LEMMA ReopenedSound ==
    ASSUME NEW mm \in [Missions -> Mission], \A k \in Missions : Sound(mm[k]),
           NEW h \in Missions, mm[h].status # "none"
    PROVE  LET nn == Reopened(mm, h) IN
           /\ nn \in [Missions -> Mission] /\ \A k \in Missions : Sound(nn[k])
           /\ \A k \in Missions \ {h} : nn[k] = mm[k]
           /\ nn[h].status = "accepted" /\ nn[h].host = mm[h].host
           /\ nn[h].loads = {r \in mm[h].loads : mm[r].status \in Waiting}
           /\ nn[h].tail = mm[h].tail /\ nn[h].from = mm[h].from
           /\ nn[h].uplift = mm[h].uplift
<1>1. PICK x \in Mission : x = mm[h] /\ Sound(x)
    OBVIOUS
<1>2. PICK l \in SUBSET Missions : l = {r \in x.loads : mm[r].status \in Waiting}
    BY <1>1 DEF Mission
<1> DEFINE q == [x EXCEPT !.status = "accepted", !.loads = l]
<1>3. Reopened(mm, h) = [mm EXCEPT ![h] = q]
    BY <1>1, <1>2 DEF Reopened
<1>4. "accepted" \in OpenStatuses
    BY DEF OpenStatuses, Waiting
<1>5. q \in Mission
    BY <1>2, <1>4 DEF Mission
<1>6. /\ q.status = "accepted" /\ q.host = x.host /\ q.loads = l
      /\ q.tail = x.tail /\ q.from = x.from /\ q.uplift = x.uplift /\ q.to = x.to
    BY DEF Mission
<1> HIDE DEF q
<1>7. Sound(q)
    BY <1>1, <1>5, <1>6 DEF Sound
<1> QED
    BY <1>1, <1>2, <1>3, <1>5, <1>6, <1>7

\* The four rows a landing writes.
LEMMA LandedRow ==
    ASSUME NEW x \in Mission, Sound(x)
    PROVE  LET q == [x EXCEPT !.status = "settled", !.loads = {}]
           IN /\ x.status # "none" => Sound(q) /\ q.status = "settled" /\ q.loads = {}
              /\ q.host = x.host /\ q.uplift = x.uplift
<1> DEFINE q == [x EXCEPT !.status = "settled", !.loads = {}]
<1>1. q \in Mission
    BY DEF Mission, ClosedStatuses
<1>2. /\ q.status = "settled" /\ q.loads = {} /\ q.from = x.from /\ q.to = x.to
      /\ q.host = x.host /\ q.uplift = x.uplift
    BY DEF Mission
<1> HIDE DEF q
<1>3. x.status # "none" => Sound(q)
    BY <1>1, <1>2 DEF Sound
<1> QED
    BY <1>2, <1>3 DEF q

LEMMA UnloadedRow ==
    ASSUME NEW x \in Mission, Sound(x), x.status # "none"
    PROVE  LET q == [x EXCEPT !.status = "settled", !.host = NoMission,
                              !.loads = {}, !.tail = NoTail]
           IN Sound(q) /\ q.status = "settled" /\ q.loads = {} /\ q.uplift = x.uplift
<1> DEFINE q == [x EXCEPT !.status = "settled", !.host = NoMission,
                          !.loads = {}, !.tail = NoTail]
<1>1. q \in Mission
    BY DEF Mission, ClosedStatuses
<1>2. /\ q.status = "settled" /\ q.loads = {} /\ q.from = x.from /\ q.to = x.to
      /\ q.uplift = x.uplift
    BY DEF Mission
<1> HIDE DEF q
<1>3. Sound(q)
    BY <1>1, <1>2 DEF Sound
<1> QED
    BY <1>2, <1>3 DEF q

LEMMA OnwardRow ==
    ASSUME Typed, NEW m \in Missions, IsOpen(m), NEW n \in Missions,
           mission[n].status # "none", NEW inspected \in BOOLEAN
    PROVE  LET q == Onward(m, n, inspected) IN
           /\ Sound(q) /\ q.status = "accepted" /\ q.host = NoMission
           /\ q.loads = Later(m) \ {n} /\ q.from = mission[m].to
           /\ q.tail = (IF inspected THEN NoTail ELSE mission[m].tail)
           /\ q.uplift = mission[n].uplift
<1>1. PICK x \in Mission : x = mission[n] /\ Sound(x)
    BY DEF Typed, Rows
<1>2. PICK l \in SUBSET Missions : l = Later(m) \ {n}
    BY TailsOfTyped
<1>3. PICK t \in Tails \cup {NoTail} : t = IF inspected THEN NoTail ELSE mission[m].tail
    BY DEF Typed, Rows, Mission
<1>4. PICK a \in Airports : a = mission[m].to
    BY OpenIsPlaced DEF Typed
<1> DEFINE q == [x EXCEPT !.status = "accepted", !.host = NoMission,
                          !.from = a, !.loads = l, !.tail = t]
<1>5. Onward(m, n, inspected) = q
    BY <1>1, <1>2, <1>3, <1>4 DEF Onward
<1>6. "accepted" \in OpenStatuses
    BY DEF OpenStatuses, Waiting
<1>7. q \in Mission
    BY <1>2, <1>3, <1>4, <1>6, ZenonT(30) DEF Mission
<1>8. /\ q.status = "accepted" /\ q.host = NoMission /\ q.loads = l /\ q.from = a
      /\ q.to = x.to /\ q.tail = t /\ q.uplift = x.uplift
    BY DEF Mission
<1> HIDE DEF q
<1>9. Sound(q)
    BY <1>1, <1>4, <1>7, <1>8 DEF Sound
<1> QED
    BY <1>1, <1>2, <1>3, <1>4, <1>5, <1>8, <1>9

LEMMA RehostedRow ==
    ASSUME NEW x \in Mission, Sound(x), NEW n \in Missions
    PROVE  LET q == [x EXCEPT !.host = n] IN
           /\ Sound(q) /\ q.status = x.status /\ q.host = n /\ q.loads = x.loads
           /\ q.tail = x.tail /\ q.from = x.from /\ q.uplift = x.uplift
<1> DEFINE q == [x EXCEPT !.host = n]
<1>1. q \in Mission
    BY DEF Mission
<1>2. /\ q.status = x.status /\ q.host = n /\ q.loads = x.loads
      /\ q.tail = x.tail /\ q.from = x.from /\ q.to = x.to /\ q.uplift = x.uplift
    BY DEF Mission
<1> HIDE DEF q
<1>3. Sound(q)
    BY <1>1, <1>2 DEF Sound
<1> QED
    BY <1>2, <1>3 DEF q

\* What an open flight carries waits for it, and is unloaded or rides on.
LEMMA LoadsWait ==
    ASSUME Typed, LinksAgree, NEW m \in Missions, IsOpen(m)
    PROVE  /\ \A r \in mission[m].loads :
                 /\ r \in Missions /\ r # m /\ mission[r].status = "accepted"
                 /\ mission[r].host = m /\ mission[r].loads = {} /\ IsOpen(r)
           /\ mission[m].loads = Here(m) \cup Later(m) /\ Here(m) \cap Later(m) = {}
           /\ \A n \in Later(m) : Continues(m, n)
<1>1. mission[m].loads \subseteq Missions
    BY DEF Typed, Rows, Mission
<1>2. \A r \in mission[m].loads :
          mission[r].status = "accepted" /\ mission[r].host = m /\ mission[r].loads = {}
    BY DEF LinksAgree
<1>3. \A r \in mission[m].loads : r # m /\ IsOpen(r)
    BY <1>2 DEF IsOpen, OpenStatuses, Waiting
<1>4. mission[m].loads = Here(m) \cup Later(m) /\ Here(m) \cap Later(m) = {}
    BY <1>2 DEF Here, Later
<1>5. \A n \in Later(m) : Continues(m, n)
    BY <1>2, <1>4 DEF Continues
<1> QED
    BY <1>1, <1>2, <1>3, <1>4, <1>5

\* The rows after m has landed.
AfterSettle(m, n, inspected) ==
    /\ Typed' /\ IsOpen(m) /\ Alone({m} \cup mission[m].loads)
    /\ (Later(m) = {} /\ n = NoMission) \/ n \in Later(m)
    /\ mission'[m].status = "settled" /\ mission'[m].loads = {}
    /\ mission'[m].uplift # NoPlace
    /\ \A k \in Here(m) : /\ mission'[k].status = "settled"
                           /\ mission'[k].loads = {}
                           /\ mission'[k].uplift = mission[k].uplift
    /\ n \in Later(m) =>
         /\ mission'[n].status = "accepted" /\ mission'[n].host = NoMission
         /\ mission'[n].loads = Later(m) \ {n}
         /\ mission'[n].from = mission[m].to
         /\ mission'[n].tail = (IF inspected THEN NoTail ELSE mission[m].tail)
         /\ mission'[n].uplift = mission[n].uplift
    /\ \A k \in Later(m) \ {n} :
         /\ mission'[k].status = "accepted" /\ mission'[k].host = n
         /\ mission'[k].loads = {} /\ mission'[k].tail = mission[k].tail
         /\ mission'[k].from = mission[k].from
         /\ mission'[k].uplift = mission[k].uplift

LEMMA SettleRows ==
    ASSUME Typed, LinksAgree, NEW m \in Missions, NEW n \in Missions \cup {NoMission},
           NEW inspected \in BOOLEAN, Settle(m, n, inspected)
    PROVE  AfterSettle(m, n, inspected)
<1> DEFINE mm == SettledRows(m, n, inspected)
           tt == [t \in Tails |->
                    IF Continues(m, n) /\ ~inspected /\ t = mission[m].tail
                    THEN [status |-> "assigned", on |-> n, at |-> mission[m].to]
                    ELSE Landed(m, inspected)[t]]
<1>0. IsOpen(m) /\ ((Later(m) = {} /\ n = NoMission) \/ n \in Later(m))
    BY DEF Settle, MayDepart, IsOpen, OpenStatuses
<1>1. /\ \A r \in mission[m].loads :
             /\ r \in Missions /\ r # m /\ mission[r].status = "accepted"
             /\ mission[r].host = m /\ mission[r].loads = {} /\ IsOpen(r)
      /\ mission[m].loads = Here(m) \cup Later(m) /\ Here(m) \cap Later(m) = {}
      /\ \A k \in Later(m) : Continues(m, k)
    BY <1>0, LoadsWait
<1>2. mission \in [Missions -> Mission] /\ \A k \in Missions : Sound(mission[k])
    BY DEF Typed, Rows
<1>3. mm[m] = [Refuelled(m) EXCEPT !.status = "settled", !.loads = {}]
    BY DEF SettledRows
<1>4. ASSUME NEW k \in Here(m) PROVE mm[k] = Unloaded(k)
  <2>1. k \in Missions /\ k # m /\ k \notin Later(m)
      BY <1>1
  <2>2. ~(k = n /\ Continues(m, n))
      BY <2>1 DEF Continues
  <2> QED
      BY <2>1, <2>2 DEF SettledRows
<1>5. n \in Later(m) => mm[n] = Onward(m, n, inspected)
    BY <1>1 DEF SettledRows
<1>6. \A k \in Later(m) \ {n} : mm[k] = [mission[k] EXCEPT !.host = n]
    BY <1>0, <1>1 DEF SettledRows
<1>7. \A k \in Missions \ ({m} \cup mission[m].loads) : mm[k] = mission[k]
    BY <1>1 DEF SettledRows, Continues
<1>8. mm = [k \in Missions |-> mm[k]]
    BY DEF SettledRows
<1>9. Save(mm, tt)
    BY DEF Settle
<1>t. tt \in [Tails -> Tail]
  <2>1. Landed(m, inspected) \in [Tails -> Tail]
      BY <1>0, OpenIsPlaced DEF Landed, Typed, Fleet, Tail
  <2>2. [status |-> "assigned", on |-> n, at |-> mission[m].to] \in Tail
      BY <1>0, OpenIsPlaced DEF Typed, Tail
  <2> QED
      BY <2>1, <2>2
<1> HIDE DEF mm, tt
<1>a. Sound(mm[m]) /\ mm[m].status = "settled" /\ mm[m].loads = {}
      /\ mm[m].uplift # NoPlace
  <2>1. PICK x \in Mission : x = Refuelled(m) /\ Sound(x) /\ x.uplift # NoPlace
      BY <1>0, RefuelledSound
  <2>2. x.status = mission[m].status
      BY <1>0, <1>2, <2>1 DEF Refuelled, Mission
  <2>3. x.status # "none"
      BY <1>0, <2>2 DEF IsOpen, OpenStatuses, Waiting
  <2> QED
      BY <1>3, <2>1, <2>3, LandedRow
<1>b. ASSUME NEW k \in Here(m)
      PROVE  /\ Sound(mm[k]) /\ mm[k].status = "settled" /\ mm[k].loads = {}
             /\ mm[k].uplift = mission[k].uplift
  <2>1. PICK x \in Mission : x = mission[k] /\ Sound(x) /\ x.status # "none"
      BY <1>1, <1>2
  <2>2. mm[k] = [x EXCEPT !.status = "settled", !.host = NoMission,
                          !.loads = {}, !.tail = NoTail]
      BY <1>4, <2>1 DEF Unloaded
  <2> QED
      BY <2>1, <2>2, UnloadedRow
<1>c. ASSUME n \in Later(m)
      PROVE  /\ Sound(mm[n]) /\ mm[n].status = "accepted" /\ mm[n].host = NoMission
             /\ mm[n].loads = Later(m) \ {n} /\ mm[n].from = mission[m].to
             /\ mm[n].tail = (IF inspected THEN NoTail ELSE mission[m].tail)
             /\ mm[n].uplift = mission[n].uplift
  <2>1. n \in Missions /\ mission[n].status # "none"
      BY <1>1, <1>c
  <2> QED
      BY <1>0, <1>5, <1>c, <2>1, OnwardRow
<1>d. ASSUME NEW k \in Later(m) \ {n}
      PROVE  /\ Sound(mm[k]) /\ mm[k].status = "accepted" /\ mm[k].host = n
             /\ mm[k].loads = {} /\ mm[k].tail = mission[k].tail
             /\ mm[k].from = mission[k].from /\ mm[k].uplift = mission[k].uplift
  <2>1. PICK x \in Mission : x = mission[k] /\ Sound(x)
      BY <1>1, <1>2
  <2>2. n \in Missions /\ x.status = "accepted" /\ x.loads = {}
      BY <1>0, <1>1, <2>1
  <2>3. mm[k] = [x EXCEPT !.host = n]
      BY <1>6, <2>1
  <2>4. Sound(mm[k]) /\ mm[k].status = x.status /\ mm[k].host = n
        /\ mm[k].loads = x.loads /\ mm[k].tail = x.tail /\ mm[k].from = x.from
        /\ mm[k].uplift = x.uplift
      BY <2>1, <2>2, <2>3, RehostedRow
  <2> QED
      BY <2>1, <2>2, <2>4
<1>e. \A k \in Missions : Sound(mm[k])
    BY <1>1, <1>2, <1>7, <1>a, <1>b, <1>c, <1>d
<1>f. mm \in [Missions -> Mission]
    BY <1>8, <1>e DEF Sound
<1>g. Rows' /\ Fleet' /\ mission' = mm
    BY <1>9, <1>t, <1>e, <1>f, SaveTyped
<1>h. Counts'
  <2>1. /\ paid' \in [Missions -> Nat] /\ returned' = returned /\ lost' = lost
      BY CountedTyped DEF Settle, Typed, Counts
  <2>2. Counted(fuelled, IF MayDepart(m) THEN Buys(m) ELSE {}) \in [Missions -> Nat]
      BY CountedTyped DEF Typed, Counts
  <2>3. fuelled' \in [Missions -> Nat]
      BY <2>2 DEF Settle
  <2> QED
      BY <2>1, <2>3 DEF Typed, Counts
<1> QED
    BY <1>0, <1>1, <1>7, <1>a, <1>b, <1>c, <1>d, <1>g, <1>h DEF AfterSettle, Typed, Alone

\* Missions that end without delivery.
LEMMA CancelRows ==
    ASSUME Typed, NEW m \in Missions, Cancel(m)
    PROVE  /\ Typed' /\ Family({m}) \in SUBSET Missions
           /\ \A k \in Family({m}) : IsOpen(k)
           /\ mission' = Aborted(Family({m})) /\ tail' = Healed(Stood(Family({m})), mission')
<1>1. Family({m}) \in SUBSET Missions /\ \A k \in Family({m}) : IsOpen(k)
    BY FamilyOpen DEF Cancel
<1>2. Rows' /\ Fleet' /\ mission' = Aborted(Family({m}))
    BY <1>1, AbortedSound, StoodTyped, SaveTyped DEF Cancel
<1>3. Counts'
    BY CountedTyped DEF Cancel, Typed, Counts
<1> QED
    BY <1>1, <1>2, <1>3 DEF Typed, Cancel, Save

LEMMA ExpireRows ==
    ASSUME Typed, NEW E \in SUBSET Missions, ExpireStale(E)
    PROVE  /\ Typed' /\ Family(E) \in SUBSET Missions
           /\ \A k \in Family(E) : IsOpen(k)
           /\ mission' = Aborted(Family(E)) /\ tail' = Healed(Stood(Family(E)), mission')
<1>1. Family(E) \in SUBSET Missions /\ \A k \in Family(E) : IsOpen(k)
    BY FamilyOpen DEF ExpireStale
<1>2. Rows' /\ Fleet' /\ mission' = Aborted(Family(E))
    BY <1>1, AbortedSound, StoodTyped, SaveTyped DEF ExpireStale
<1>3. Counts'
    BY CountedTyped DEF ExpireStale, Typed, Counts
<1> QED
    BY <1>1, <1>2, <1>3 DEF Typed, ExpireStale, Save

\* A later stop that is dropped is no flight, so it ends alone.
LEMMA DropRows ==
    ASSUME Typed, LinksAgree, NEW h \in Missions, NEW r \in Missions, DropStop(h, r)
    PROVE  /\ Typed' /\ Family({r}) = {r} /\ IsOpen(r) /\ IsOpen(h) /\ h # r
           /\ mission[h].host = NoMission /\ r \in mission[h].loads
           /\ Alone({h, r}) /\ tail' = Healed(Stood({r}), mission')
           /\ mission'[r].status = "cancelled" /\ mission'[r].host = NoMission
           /\ mission'[r].loads = {} /\ mission'[r].uplift = mission[r].uplift
           /\ mission'[h].status = "accepted" /\ mission'[h].host = NoMission
           /\ mission'[h].loads = mission[h].loads \ {r}
           /\ mission'[h].tail = mission[h].tail /\ mission'[h].from = mission[h].from
           /\ mission'[h].uplift = mission[h].uplift
<1> DEFINE mm == Aborted({r})
<1>0. IsOpen(h) /\ IsOpen(r) /\ mission[r].host = h /\ mission[r].host # NoMission
    BY NoMissionIsNone DEF DropStop, IsOpen, OpenStatuses
<1>a. mission[h].status # "failed"
    BY <1>0 DEF IsOpen, OpenStatuses, Waiting
<1>1. r \in mission[h].loads /\ mission[h].host = NoMission
    BY <1>0, <1>a DEF LinksAgree
<1>2. /\ \A k \in mission[h].loads :
             /\ k \in Missions /\ k # h /\ mission[k].status = "accepted"
             /\ mission[k].host = h /\ mission[k].loads = {} /\ IsOpen(k)
    BY <1>0, LoadsWait
<1>3. Family({r}) = {r}
    BY <1>1, <1>2 DEF Family, Riders
<1>4. Save(Reopened(mm, h), Stood({r}))
    BY <1>3 DEF DropStop
<1>5. {r} \in SUBSET Missions /\ \A k \in {r} : IsOpen(k)
    BY <1>0
<1>6. /\ mm \in [Missions -> Mission] /\ \A k \in Missions : Sound(mm[k])
      /\ mm[r].status = "cancelled" /\ mm[r].host = NoMission /\ mm[r].loads = {}
      /\ \A k \in Missions \ {r} :
            /\ mm[k].status = mission[k].status
            /\ mm[k].loads = mission[k].loads \ {q \in {r} : mission[q].host = k}
            /\ mm[k].host = HostWithout({r}, k)
      /\ \A k \in Missions :
            /\ mm[k].tail = mission[k].tail /\ mm[k].uplift = mission[k].uplift
            /\ mm[k].from = mission[k].from /\ mm[k].to = mission[k].to
    BY <1>5, AbortedSound
<1>7. Stood({r}) \in [Tails -> Tail]
    BY <1>5, StoodTyped
<1>b. ASSUME NEW k \in Missions \ {r} PROVE HostWithout({r}, k) = mission[k].host
    BY <1>1, <1>2 DEF HostWithout
<1>c. h # r /\ mm[h].status \in OpenStatuses /\ mm[h].status # "none"
    BY <1>0, <1>1, <1>2, <1>6 DEF IsOpen, OpenStatuses, Waiting
<1>d. ASSUME NEW k \in Missions \ {h, r} PROVE mm[k] = mission[k]
  <2>0. {q \in {r} : mission[q].host = k} = {}
      BY <1>0
  <2>a. mm[k].loads = mission[k].loads \ {q \in {r} : mission[q].host = k}
      BY <1>6
  <2>b. mm[k].loads = mission[k].loads
      BY <2>0, <2>a
  <2>1. mm[k].loads = mission[k].loads /\ mm[k].host = mission[k].host
        /\ mm[k].status = mission[k].status
      BY <1>6, <1>b, <2>b
  <2>2. mm[k] \in Mission /\ mission[k] \in Mission
      BY <1>6 DEF Typed, Rows
  <2> QED
      BY <1>6, <2>1, <2>2, SameRow
<1>e. mm[h].loads = mission[h].loads \ {r} /\ mm[h].host = NoMission
  <2>0. {q \in {r} : mission[q].host = h} = {r}
      BY <1>0
  <2>1. mm[h].loads = mission[h].loads \ {q \in {r} : mission[q].host = h}
      BY <1>6, <1>c
  <2>a. h \in Missions \ {r} /\ HostWithout({r}, h) = NoMission
      BY <1>1, <1>b, <1>c
  <2>2. mm[h].host = NoMission
      BY <1>6, <2>a
  <2> QED
      BY <2>0, <2>1, <2>2
<1> HIDE DEF mm
<1>f. {k \in mm[h].loads : mm[k].status \in Waiting} = mission[h].loads \ {r}
    BY <1>2, <1>6, <1>e DEF Waiting
<1> DEFINE nn == Reopened(mm, h)
<1>8. /\ nn \in [Missions -> Mission] /\ \A k \in Missions : Sound(nn[k])
      /\ \A k \in Missions \ {h} : nn[k] = mm[k]
      /\ nn[h].status = "accepted" /\ nn[h].host = mm[h].host
      /\ nn[h].loads = {k \in mm[h].loads : mm[k].status \in Waiting}
      /\ nn[h].tail = mm[h].tail /\ nn[h].from = mm[h].from
      /\ nn[h].uplift = mm[h].uplift
    BY <1>6, <1>c, ReopenedSound
<1> HIDE DEF nn
<1>9. Save(nn, Stood({r}))
    BY <1>4 DEF nn
<1>g. Rows' /\ Fleet' /\ mission' = nn
    BY <1>7, <1>8, <1>9, SaveTyped
<1>h. Counts'
    BY CountedTyped DEF DropStop, Typed, Counts
<1>i. tail' = Healed(Stood({r}), mission')
    BY <1>4 DEF Save
<1> QED
    BY <1>0, <1>1, <1>3, <1>6, <1>8, <1>c, <1>d, <1>e, <1>f, <1>g, <1>h, <1>i
       DEF Typed, Alone

-----------------------------------------------------------------------------
(* The two records of a trip agree.                                        *)

\* LinksAgree, of any rows.
OpenIn(mm, m) == mm[m].status \in OpenStatuses

Carries(mm) ==
    \A h \in Missions : OpenIn(mm, h) => \A r \in mm[h].loads :
        mm[r].status = "accepted" /\ mm[r].host = h /\ mm[r].loads = {}

Rides(mm, r, h) ==
    \/ OpenIn(mm, h) /\ r \in mm[h].loads /\ mm[h].host = NoMission
    \/ mm[h].status = "failed"

Ridden(mm) ==
    \A r \in Missions :
        OpenIn(mm, r) /\ mm[r].host # NoMission => Rides(mm, r, mm[r].host)

LEMMA LinksPrime ==
    /\ LinksAgree <=> Carries(mission) /\ Ridden(mission)
    /\ LinksAgree' <=> Carries(mission') /\ Ridden(mission')
BY DEF LinksAgree, Carries, Ridden, Rides, OpenIn, IsOpen

LEMMA RowShape ==
    ASSUME Typed, NEW m \in Missions
    PROVE  /\ mission[m].loads \subseteq Missions
           /\ mission[m].host \in Missions \cup {NoMission}
           /\ mission[m].tail \in Tails \cup {NoTail}
BY DEF Typed, Rows, Mission

\* Whom an open stop rides with.
LEMMA RidesNow ==
    ASSUME LinksAgree, NEW r \in Missions, IsOpen(r), NEW h,
           mission[r].host = h, h # NoMission
    PROVE  \/ IsOpen(h) /\ r \in mission[h].loads /\ mission[h].host = NoMission
           \/ mission[h].status = "failed"
BY LinksPrime DEF Ridden, Rides, OpenIn, IsOpen

\* A closed or unbooked mission is no flight's stop.
LEMMA NotLoaded ==
    ASSUME Typed, LinksAgree, NEW m \in Missions,
           mission[m].status # "accepted" \/ mission[m].host = NoMission
    PROVE  \A h \in Missions : IsOpen(h) => m \notin mission[h].loads
BY NoMissionIsNone DEF LinksAgree

\* A flight changes its status and stays a flight.
LEMMA StatusLinks ==
    ASSUME Typed, LinksAgree, NEW m \in Missions, IsOpen(m), Alone({m}),
           mission'[m].host = mission[m].host, mission'[m].loads = mission[m].loads,
           mission'[m].status \in OpenStatuses \cup {"failed"},
           \/ mission'[m].status = "accepted"
           \/ mission[m].status = "in_flight" \/ mission[m].host = NoMission
    PROVE  LinksAgree'
<1>1. ASSUME NEW k \in Missions
      PROVE  /\ mission'[k].host = mission[k].host
             /\ mission'[k].loads = mission[k].loads
             /\ OpenIn(mission', k) => IsOpen(k)
             /\ IsOpen(k) => OpenIn(mission', k) \/ mission'[k].status = "failed"
             /\ mission[k].status = "failed" => mission'[k].status = "failed"
  <2>a. mission[m].status # "failed"
      BY DEF IsOpen, OpenStatuses, Waiting
  <2>b. OpenIn(mission', m) \/ mission'[m].status = "failed"
      BY DEF OpenIn
  <2>1. CASE k = m
      BY <2>a, <2>b, <2>1
  <2>2. CASE k # m
      BY <2>2 DEF Alone, OpenIn, IsOpen
  <2> QED
      BY <2>1, <2>2
<1>2. ASSUME NEW h \in Missions, IsOpen(h), NEW r \in mission[h].loads
      PROVE  r \in Missions /\ mission'[r].status = "accepted"
  <2>0. r \in Missions /\ mission[r].status = "accepted"
      BY <1>2, LoadsWait
  <2>1. CASE mission'[m].status = "accepted"
      BY <2>0, <2>1 DEF Alone
  <2>2. CASE mission'[m].status # "accepted"
    <3>1. r # m
        BY <1>2, <2>2, NotLoaded
    <3> QED
        BY <2>0, <3>1 DEF Alone
  <2> QED
      BY <2>1, <2>2
<1>3. Carries(mission')
  <2> SUFFICES ASSUME NEW h \in Missions, OpenIn(mission', h), NEW r \in mission'[h].loads
               PROVE  /\ mission'[r].status = "accepted" /\ mission'[r].host = h
                      /\ mission'[r].loads = {}
      BY DEF Carries
  <2>1. IsOpen(h) /\ r \in mission[h].loads
      BY <1>1
  <2>2. r \in Missions /\ mission'[r].status = "accepted"
      BY <1>2, <2>1
  <2> QED
      BY <1>1, <2>1, <2>2 DEF LinksAgree
<1>4. ASSUME NEW r \in Missions, OpenIn(mission', r), mission'[r].host # NoMission
      PROVE  Rides(mission', r, mission'[r].host)
  <2>1. PICK h \in Missions : h = mission[r].host /\ h = mission'[r].host
      BY <1>1, <1>4, RowShape
  <2>2. IsOpen(r) /\ mission[r].host # NoMission
      BY <1>1, <1>4
  <2>3. \/ IsOpen(h) /\ r \in mission[h].loads /\ mission[h].host = NoMission
        \/ mission[h].status = "failed"
      BY <2>1, <2>2, RidesNow
  <2> QED
      BY <1>1, <2>1, <2>3 DEF Rides
<1> QED
    BY <1>3, <1>4, LinksPrime DEF Ridden

\* A new mission, without ties.
LEMMA NewLinks ==
    ASSUME Typed, LinksAgree, NEW m \in Missions, mission[m].status = "none",
           Alone({m}), mission'[m].status = "accepted", mission'[m].host = NoMission,
           mission'[m].loads = {}
    PROVE  LinksAgree'
<1>1. \A h \in Missions : IsOpen(h) => m \notin mission[h].loads
    BY NotLoaded
<1>2. ~IsOpen(m) /\ mission[m].status # "failed"
    BY DEF IsOpen, OpenStatuses, Waiting
<1>3. \A k \in Missions \ {m} : OpenIn(mission', k) <=> IsOpen(k)
    BY DEF Alone, IsOpen, OpenIn
<1>4. ASSUME NEW h \in Missions, OpenIn(mission', h), NEW r \in mission'[h].loads
      PROVE  /\ mission'[r].status = "accepted" /\ mission'[r].host = h
             /\ mission'[r].loads = {}
  <2>1. h # m /\ mission'[h] = mission[h] /\ IsOpen(h)
      BY <1>3, <1>4 DEF Alone
  <2>2. r \in Missions /\ r # m
      BY <1>1, <1>4, <2>1, RowShape
  <2> QED
      BY <1>4, <2>1, <2>2 DEF LinksAgree, Alone
<1>5. ASSUME NEW r \in Missions, OpenIn(mission', r), mission'[r].host # NoMission
      PROVE  Rides(mission', r, mission'[r].host)
  <2>1. r # m /\ IsOpen(r) /\ mission'[r] = mission[r]
      BY <1>3, <1>5 DEF Alone
  <2>2. PICK h \in Missions : h = mission[r].host
      BY <1>5, <2>1, RowShape
  <2>3. \/ IsOpen(h) /\ r \in mission[h].loads /\ mission[h].host = NoMission
        \/ mission[h].status = "failed"
      BY <1>5, <2>1, <2>2 DEF LinksAgree
  <2>4. h # m
      BY <1>2, <2>3
  <2>5. mission'[h] = mission[h]
      BY <2>4 DEF Alone
  <2> QED
      BY <1>3, <2>1, <2>2, <2>3, <2>4, <2>5 DEF Rides
<1> QED
    BY <1>4, <1>5, LinksPrime DEF Ridden, Carries

\* A flight takes a stop that has no ties.
LEMMA StopLinks ==
    ASSUME Typed, LinksAgree, NEW h \in Missions, NEW r \in Missions \ {h},
           MayTakeStops(h), ~IsOpen(r) \/ mission[r].host = NoMission,
           mission[r].status \in {"none", "accepted"},
           mission[r].status = "accepted" => mission[r].loads = {},
           Alone({h, r}),
           mission'[h].status = "accepted", mission'[h].host = mission[h].host,
           mission'[h].loads = mission[h].loads \cup {r},
           mission'[r].status = "accepted", mission'[r].host = h,
           mission'[r].loads = {}
    PROVE  LinksAgree'
<1>0. /\ IsOpen(h) /\ mission[h].host = NoMission /\ mission[r].status # "failed"
      /\ mission'[h].host = NoMission /\ OpenIn(mission', h)
    BY DEF MayTakeStops, IsOpen, OpenStatuses, Waiting, OpenIn
<1>1. /\ \A k \in Missions : IsOpen(k) => r \notin mission[k].loads
      /\ \A k \in Missions : IsOpen(k) => h \notin mission[k].loads
    BY <1>0, NotLoaded DEF IsOpen, OpenStatuses, Waiting
<1>2. \A k \in Missions \ {h, r} : OpenIn(mission', k) <=> IsOpen(k)
    BY DEF Alone, IsOpen, OpenIn
<1>3. ASSUME NEW k \in Missions, OpenIn(mission', k), NEW q \in mission'[k].loads
      PROVE  /\ mission'[q].status = "accepted" /\ mission'[q].host = k
             /\ mission'[q].loads = {}
  <2>1. k # r
      BY <1>3
  <2>2. IsOpen(k) /\ (q \in mission[k].loads \/ (k = h /\ q = r))
      BY <1>0, <1>2, <1>3, <2>1 DEF Alone
  <2>3. CASE q \in mission[k].loads
    <3>1. q \in Missions \ {h, r}
        BY <1>1, <2>2, <2>3, RowShape
    <3> QED
        BY <2>2, <2>3, <3>1 DEF LinksAgree, Alone
  <2>4. CASE k = h /\ q = r
      BY <2>4
  <2> QED
      BY <2>2, <2>3, <2>4
<1>4. ASSUME NEW q \in Missions, OpenIn(mission', q), mission'[q].host # NoMission
      PROVE  Rides(mission', q, mission'[q].host)
  <2>1. CASE q = r
      BY <1>0, <2>1 DEF Rides
  <2>2. CASE q # r
    <3>1. q # h /\ IsOpen(q) /\ mission'[q] = mission[q]
        BY <1>0, <1>2, <1>4, <2>2 DEF Alone
    <3>2. PICK k \in Missions : k = mission[q].host
        BY <1>4, <3>1, RowShape
    <3>3. \/ IsOpen(k) /\ q \in mission[k].loads /\ mission[k].host = NoMission
          \/ mission[k].status = "failed"
        BY <1>4, <3>1, <3>2 DEF LinksAgree
    <3>4. k # r
      <4>1. IsOpen(r) => mission[r].loads = {}
          BY DEF IsOpen, OpenStatuses, Waiting
      <4> QED
          BY <1>0, <3>3, <4>1
    <3>5. CASE k = h
        BY <1>0, <3>1, <3>2, <3>3, <3>5 DEF Rides, IsOpen, OpenStatuses, Waiting
    <3>6. CASE k # h
        BY <1>2, <3>1, <3>2, <3>3, <3>4, <3>6 DEF Rides, Alone
    <3> QED
        BY <3>5, <3>6
  <2> QED
      BY <2>1, <2>2
<1> QED
    BY <1>3, <1>4, LinksPrime DEF Ridden, Carries

\* The missions C end.
LEMMA EndLinks ==
    ASSUME Typed, LinksAgree, NEW C \in SUBSET Missions, \A m \in C : IsOpen(m),
           mission' = Aborted(C)
    PROVE  LinksAgree'
<1>1. /\ \A k \in C : ~OpenIn(mission', k) /\ mission'[k].status # "failed"
      /\ \A k \in Missions \ C :
            /\ mission'[k].status = mission[k].status
            /\ mission'[k].loads = mission[k].loads \ {r \in C : mission[r].host = k}
            /\ mission'[k].host = HostWithout(C, k)
            /\ OpenIn(mission', k) <=> IsOpen(k)
  <2>1. /\ \A k \in C : mission'[k].status = "cancelled"
        /\ \A k \in Missions \ C :
            /\ mission'[k].status = mission[k].status
            /\ mission'[k].loads = mission[k].loads \ {r \in C : mission[r].host = k}
            /\ mission'[k].host = HostWithout(C, k)
      BY AbortedSound
  <2>2. "cancelled" \notin OpenStatuses
      BY DEF OpenStatuses, Waiting
  <2> QED
      BY <2>1, <2>2 DEF OpenIn, IsOpen
<1>2. ASSUME NEW h \in Missions, OpenIn(mission', h), NEW r \in mission'[h].loads
      PROVE  /\ mission'[r].status = "accepted" /\ mission'[r].host = h
             /\ mission'[r].loads = {}
  <2>1. h \in Missions \ C /\ IsOpen(h)
      BY <1>1, <1>2
  <2>2. r \in mission[h].loads /\ ~(r \in C /\ mission[r].host = h)
      BY <1>1, <1>2, <2>1
  <2>3. /\ r \in Missions /\ mission[r].status = "accepted" /\ mission[r].host = h
        /\ mission[r].loads = {}
      BY <2>1, <2>2, LoadsWait
  <2>4. r \in Missions \ C /\ HostWithout(C, r) = h
      BY <2>1, <2>2, <2>3 DEF HostWithout
  <2> QED
      BY <1>1, <2>3, <2>4
<1>3. ASSUME NEW r \in Missions, OpenIn(mission', r), mission'[r].host # NoMission
      PROVE  Rides(mission', r, mission'[r].host)
  <2>1. r \in Missions \ C /\ IsOpen(r)
      BY <1>1, <1>3
  <2>2. HostWithout(C, r) = mission'[r].host
      BY <1>1, <2>1
  <2>3. PICK h \in Missions : /\ h = mission[r].host /\ h = mission'[r].host
                              /\ ~(h \in C /\ r \in mission[h].loads)
      BY <1>3, <2>1, <2>2, RowShape DEF HostWithout
  <2>4. \/ IsOpen(h) /\ r \in mission[h].loads /\ mission[h].host = NoMission
        \/ mission[h].status = "failed"
      BY <1>3, <2>1, <2>3, RidesNow
  <2>5. h \notin C
    <3>1. IsOpen(h) => mission[h].status # "failed"
        BY DEF IsOpen, OpenStatuses, Waiting
    <3> QED
        BY <2>3, <2>4, <3>1
  <2>6. CASE mission[h].status = "failed"
      BY <1>1, <2>3, <2>5, <2>6 DEF Rides
  <2>7. CASE IsOpen(h) /\ r \in mission[h].loads /\ mission[h].host = NoMission
    <3>1. HostWithout(C, h) = NoMission
        BY <2>7, NoMissionIsNone DEF HostWithout
    <3>2. r \in mission'[h].loads /\ mission'[h].host = NoMission
        BY <1>1, <2>1, <2>5, <2>7, <3>1
    <3> QED
        BY <1>1, <2>3, <2>5, <2>7, <3>2 DEF Rides
  <2> QED
      BY <2>4, <2>6, <2>7
<1> QED
    BY <1>2, <1>3, LinksPrime DEF Ridden, Carries

LEMMA DropLinks ==
    ASSUME Typed, LinksAgree, NEW h \in Missions, NEW r \in Missions, DropStop(h, r)
    PROVE  LinksAgree'
<1>0. /\ IsOpen(h) /\ IsOpen(r) /\ h # r /\ mission[h].host = NoMission
      /\ r \in mission[h].loads /\ Alone({h, r})
      /\ mission'[r].status = "cancelled"
      /\ mission'[h].status = "accepted" /\ mission'[h].host = NoMission
      /\ mission'[h].loads = mission[h].loads \ {r}
    BY DropRows
<1>1. mission[r].loads = {} /\ mission[r].host = h
    BY <1>0 DEF LinksAgree
<1>2. OpenIn(mission', h) /\ ~OpenIn(mission', r)
    BY <1>0 DEF OpenIn, OpenStatuses, Waiting
<1>3. \A k \in Missions \ {h, r} : OpenIn(mission', k) <=> IsOpen(k)
    BY <1>0 DEF Alone, OpenIn, IsOpen
<1>a. \A k \in Missions : IsOpen(k) => h \notin mission[k].loads
    BY <1>0, NotLoaded
<1>4. ASSUME NEW k \in Missions, OpenIn(mission', k), NEW q \in mission'[k].loads
      PROVE  /\ mission'[q].status = "accepted" /\ mission'[q].host = k
             /\ mission'[q].loads = {}
  <2>1. k # r /\ IsOpen(k)
      BY <1>0, <1>2, <1>3, <1>4
  <2>2. q \in mission[k].loads /\ (k = h => q # r)
      BY <1>0, <1>4, <2>1 DEF Alone
  <2>3. /\ q \in Missions /\ mission[q].status = "accepted" /\ mission[q].host = k
        /\ mission[q].loads = {}
      BY <2>1, <2>2, LoadsWait
  <2>4. q # r /\ q # h
      BY <1>1, <1>a, <2>1, <2>2, <2>3
  <2> QED
      BY <1>0, <2>3, <2>4 DEF Alone
<1>5. ASSUME NEW q \in Missions, OpenIn(mission', q), mission'[q].host # NoMission
      PROVE  Rides(mission', q, mission'[q].host)
  <2>1. q # h /\ q # r /\ mission'[q] = mission[q] /\ IsOpen(q)
      BY <1>0, <1>2, <1>3, <1>5 DEF Alone
  <2>2. PICK k \in Missions : k = mission[q].host /\ k # NoMission
      BY <1>5, <2>1, RowShape
  <2>3. \/ IsOpen(k) /\ q \in mission[k].loads /\ mission[k].host = NoMission
        \/ mission[k].status = "failed"
      BY <2>1, <2>2, RidesNow
  <2>4. k # r
    <3>1. mission[r].status # "failed"
        BY <1>0 DEF IsOpen, OpenStatuses, Waiting
    <3> QED
        BY <1>1, <2>3, <3>1
  <2>5. CASE k = h
    <3>1. mission[h].status # "failed"
        BY <1>0 DEF IsOpen, OpenStatuses, Waiting
    <3> QED
        BY <1>0, <1>2, <2>1, <2>2, <2>3, <2>5, <3>1 DEF Rides
  <2>6. CASE k # h
      BY <1>0, <1>3, <2>1, <2>2, <2>3, <2>4, <2>6 DEF Rides, Alone
  <2> QED
      BY <2>5, <2>6
<1> QED
    BY <1>4, <1>5, LinksPrime DEF Ridden, Carries

\* A landing hands what rides on to the next flight.
LEMMA SettleLinks ==
    ASSUME Typed, LinksAgree, NEW m \in Missions, NEW n \in Missions \cup {NoMission},
           NEW inspected \in BOOLEAN, Settle(m, n, inspected)
    PROVE  LinksAgree'
<1>r. AfterSettle(m, n, inspected)
    BY SettleRows
<1>0. /\ IsOpen(m) /\ Alone({m} \cup mission[m].loads)
      /\ (Later(m) = {} /\ n = NoMission) \/ n \in Later(m)
      /\ mission'[m].status = "settled"
      /\ \A k \in Here(m) : mission'[k].status = "settled"
      /\ n \in Later(m) => /\ mission'[n].status = "accepted"
                           /\ mission'[n].host = NoMission
                           /\ mission'[n].loads = Later(m) \ {n}
      /\ \A k \in Later(m) \ {n} : /\ mission'[k].status = "accepted"
                                    /\ mission'[k].host = n
                                    /\ mission'[k].loads = {}
    BY <1>r DEF AfterSettle
<1>1. /\ \A r \in mission[m].loads :
             /\ r \in Missions /\ r # m /\ mission[r].host = m
             /\ mission[r].loads = {} /\ IsOpen(r)
      /\ mission[m].loads = Here(m) \cup Later(m) /\ Here(m) \cap Later(m) = {}
    BY <1>0, LoadsWait
<1>2. /\ ~OpenIn(mission', m) /\ \A k \in Here(m) : ~OpenIn(mission', k)
      /\ \A k \in Later(m) : OpenIn(mission', k)
    BY <1>0 DEF OpenIn, OpenStatuses, Waiting
<1>3. \A k \in Missions \ ({m} \cup mission[m].loads) :
          mission'[k] = mission[k] /\ (OpenIn(mission', k) <=> IsOpen(k))
    BY <1>0 DEF Alone, OpenIn, IsOpen
<1>a. mission[m].status \notin {"accepted"} \/ mission[m].host = NoMission
    BY DEF Settle, MayDepart
<1>b. \A k \in Missions : IsOpen(k) => m \notin mission[k].loads
    BY <1>a, NotLoaded
<1>4. ASSUME NEW k \in Missions, OpenIn(mission', k), NEW q \in mission'[k].loads
      PROVE  /\ mission'[q].status = "accepted" /\ mission'[q].host = k
             /\ mission'[q].loads = {}
  <2>1. CASE k \in Later(m)
      BY <1>0, <1>4, <2>1
  <2>2. CASE k \notin Later(m)
    <3>1. k \notin {m} \cup mission[m].loads
        BY <1>1, <1>2, <1>4, <2>2
    <3>2. IsOpen(k) /\ q \in mission[k].loads
        BY <1>3, <1>4, <3>1
    <3>3. /\ q \in Missions /\ mission[q].status = "accepted" /\ mission[q].host = k
          /\ mission[q].loads = {}
        BY <3>2, LoadsWait
    <3>4. q \notin {m} \cup mission[m].loads
        BY <1>1, <1>b, <3>1, <3>2, <3>3
    <3> QED
        BY <1>3, <3>3, <3>4
  <2> QED
      BY <2>1, <2>2
<1>5. ASSUME NEW q \in Missions, OpenIn(mission', q), mission'[q].host # NoMission
      PROVE  Rides(mission', q, mission'[q].host)
  <2>1. CASE q \in Later(m)
    <3>1. q # n /\ mission'[q].host = n /\ n \in Later(m) /\ q \in Later(m) \ {n}
        BY <1>0, <1>5, <2>1
    <3> QED
        BY <1>0, <1>2, <3>1 DEF Rides
  <2>2. CASE q \notin Later(m)
    <3>1. q \notin {m} \cup mission[m].loads
        BY <1>1, <1>2, <1>5, <2>2
    <3>2. mission'[q] = mission[q] /\ IsOpen(q)
        BY <1>3, <1>5, <3>1
    <3>3. PICK k \in Missions : k = mission[q].host /\ k # NoMission
        BY <1>5, <3>2, RowShape
    <3>4. \/ IsOpen(k) /\ q \in mission[k].loads /\ mission[k].host = NoMission
          \/ mission[k].status = "failed"
        BY <3>2, <3>3, RidesNow
    <3>5. k \notin {m} \cup mission[m].loads
      <4>1. \A x \in {m} \cup mission[m].loads : IsOpen(x)
          BY <1>0, <1>1
      <4>2. \A x \in {m} \cup mission[m].loads : mission[x].status # "failed"
          BY <4>1 DEF IsOpen, OpenStatuses, Waiting
      <4> QED
          BY <1>1, <3>1, <3>4, <4>2
    <3> QED
        BY <1>3, <3>2, <3>3, <3>4, <3>5 DEF Rides
  <2> QED
      BY <2>1, <2>2
<1> QED
    BY <1>4, <1>5, LinksPrime DEF Ridden, Carries

-----------------------------------------------------------------------------
(* The two together are kept by every step, if Watch is bound to flights.  *)

LEMMA TripInit == Init => Typed /\ LinksAgree
<1> SUFFICES ASSUME Init PROVE Typed /\ LinksAgree
    OBVIOUS
<1>1. Rows
    BY BlankSound DEF Init, Rows, Sound
<1>2. Fleet
    BY DEF Init, Fleet, Tail
<1>3. Counts
    BY DEF Init, Counts, NoCount
<1>4. \A m \in Missions : ~IsOpen(m)
    BY DEF Init, Blank, IsOpen, OpenStatuses, Waiting
<1>5. LinksAgree
    BY <1>4 DEF LinksAgree
<1> QED
    BY <1>1, <1>2, <1>3, <1>5 DEF Typed

\* The commands that write one status.
LEMMA DispatchRows ==
    ASSUME Typed, LinksAgree, NEW m \in Missions,
           Dispatch(m) \/ RevertFalseDepart(m)
    PROVE  /\ Typed' /\ LinksAgree' /\ IsOpen(m) /\ Alone({m})
           /\ mission'[m].status = "dispatched" /\ mission'[m].host = mission[m].host
           /\ mission'[m].loads = mission[m].loads
           /\ mission'[m].tail = mission[m].tail /\ mission'[m].from = mission[m].from
           /\ mission'[m].uplift = mission[m].uplift
<1>0. /\ IsOpen(m) /\ mission[m].status # "none"
      /\ mission[m].status = "in_flight" \/ mission[m].host = NoMission
    BY DEF Dispatch, RevertFalseDepart, IsOpen, OpenStatuses, Waiting
<1>1. "dispatched" \in OpenStatuses
    BY DEF OpenStatuses, Waiting
<1>2. tail \in [Tails -> Tail]
    BY DEF Typed, Fleet
<1>3. Save([mission EXCEPT ![m].status = "dispatched"], tail)
    BY DEF Dispatch, RevertFalseDepart
<1>4. /\ Rows' /\ Fleet' /\ Alone({m})
      /\ mission'[m].status = "dispatched" /\ mission'[m].host = mission[m].host
      /\ mission'[m].loads = mission[m].loads
      /\ mission'[m].tail = mission[m].tail /\ mission'[m].from = mission[m].from
      /\ mission'[m].uplift = mission[m].uplift
    BY <1>0, <1>1, <1>2, <1>3, StatusRows
<1>5. Counts'
    BY DEF Dispatch, RevertFalseDepart, history, Typed, Counts
<1>6. LinksAgree'
    BY <1>0, <1>1, <1>4, StatusLinks
<1> QED
    BY <1>0, <1>4, <1>5, <1>6 DEF Typed

LEMMA ImpactRows ==
    ASSUME Typed, LinksAgree, ~RiderWatched, NEW m \in Missions, Impact(m)
    PROVE  /\ Typed' /\ LinksAgree' /\ IsOpen(m) /\ Alone({m})
           /\ mission'[m].status = "failed" /\ mission'[m].uplift = mission[m].uplift
<1>0. IsOpen(m) /\ mission[m].host = NoMission
    BY DEF Impact
<1>1. mission[m].status # "none" /\ "failed" \in ClosedStatuses
    BY <1>0 DEF IsOpen, OpenStatuses, Waiting, ClosedStatuses
<1>2. Stood({m}) \in [Tails -> Tail]
    BY <1>0, StoodTyped
<1>3. Save([mission EXCEPT ![m].status = "failed"], Stood({m}))
    BY DEF Impact
<1>4. /\ Rows' /\ Fleet' /\ Alone({m})
      /\ mission'[m].status = "failed" /\ mission'[m].host = mission[m].host
      /\ mission'[m].loads = mission[m].loads /\ mission'[m].uplift = mission[m].uplift
    BY <1>1, <1>2, <1>3, StatusRows
<1>5. Counts'
    BY CountedTyped DEF Impact, Typed, Counts
<1>6. LinksAgree'
    BY <1>0, <1>4, StatusLinks
<1> QED
    BY <1>0, <1>4, <1>5, <1>6 DEF Typed

LEMMA EditRows ==
    ASSUME Typed, LinksAgree, NEW h \in Missions, EditLoads(h)
    PROVE  /\ Typed' /\ LinksAgree' /\ IsOpen(h) /\ Alone({h})
           /\ mission'[h].status = "accepted" /\ mission'[h].host = mission[h].host
           /\ mission'[h].loads = mission[h].loads
           /\ mission'[h].tail = mission[h].tail /\ mission'[h].from = mission[h].from
           /\ mission'[h].uplift = mission[h].uplift
<1>0. IsOpen(h) /\ mission[h].status # "none"
    BY DEF EditLoads, IsOpen, OpenStatuses, Waiting
<1>1. mission \in [Missions -> Mission] /\ \A k \in Missions : Sound(mission[k])
    BY DEF Typed, Rows
<1> DEFINE nn == Reopened(mission, h)
<1>2. /\ nn \in [Missions -> Mission] /\ \A k \in Missions : Sound(nn[k])
      /\ \A k \in Missions \ {h} : nn[k] = mission[k]
      /\ nn[h].status = "accepted" /\ nn[h].host = mission[h].host
      /\ nn[h].loads = {r \in mission[h].loads : mission[r].status \in Waiting}
      /\ nn[h].tail = mission[h].tail /\ nn[h].from = mission[h].from
      /\ nn[h].uplift = mission[h].uplift
    BY <1>0, <1>1, ReopenedSound
<1>3. {r \in mission[h].loads : mission[r].status \in Waiting} = mission[h].loads
  <2>1. \A r \in mission[h].loads : mission[r].status \in Waiting
      BY <1>0 DEF LinksAgree, Waiting
  <2> QED
      BY <2>1
<1>4. Save(nn, tail)
    BY DEF EditLoads
<1> HIDE DEF nn
<1>5. Rows' /\ Fleet' /\ mission' = nn
    BY <1>2, <1>4, SaveTyped DEF Typed, Fleet
<1>6. Counts'
    BY DEF EditLoads, history, Typed, Counts
<1>7. Alone({h}) /\ mission'[h].loads = mission[h].loads
    BY <1>2, <1>3, <1>5 DEF Alone
<1>8. LinksAgree'
  <2>1. "accepted" \in OpenStatuses
      BY DEF OpenStatuses, Waiting
  <2> QED
      BY <1>0, <1>2, <1>5, <1>7, <2>1, StatusLinks
<1> QED
    BY <1>0, <1>2, <1>5, <1>6, <1>7, <1>8 DEF Typed

LEMMA AddCargoStopRows ==
    ASSUME Typed, LinksAgree, NEW h \in Missions, NEW r \in Missions, AddCargoStop(h, r)
    PROVE  /\ Typed' /\ LinksAgree' /\ Alone({h, r}) /\ IsOpen(h) /\ IsOpen(r) /\ h # r
           /\ mission'[h].status = "accepted" /\ mission'[r].status = "accepted"
           /\ mission'[h].tail = mission[h].tail /\ mission'[r].tail = mission[r].tail
           /\ mission'[h].from = mission[h].from /\ mission'[r].from = mission[r].from
           /\ mission'[h].uplift = mission[h].uplift
           /\ mission'[r].uplift = mission[r].uplift
<1>0. /\ h # r /\ MayTakeStops(h) /\ mission[r].status = "accepted"
      /\ mission[r].host = NoMission /\ mission[r].loads = {}
      /\ Save(WithStop(h, r, mission[r]), tail)
    BY DEF AddCargoStop
<1>1. IsOpen(h) /\ IsOpen(r) /\ mission[h].status # "none"
    BY <1>0 DEF MayTakeStops, IsOpen, OpenStatuses, Waiting
<1>2. mission' = WithStop(h, r, mission[r])
    BY <1>0 DEF Save
<1>3. mission[r] \in Mission /\ Sound(mission[r]) /\ tail \in [Tails -> Tail]
    BY DEF Typed, Rows, Fleet
<1>4. /\ mission' \in [Missions -> Mission]
      /\ \A k \in Missions : Sound(mission'[k])
      /\ Alone({h, r})
      /\ mission'[h].status = "accepted"
      /\ mission'[h].loads = mission[h].loads \cup {r}
      /\ mission'[h].host = mission[h].host /\ mission'[h].tail = mission[h].tail
      /\ mission'[h].from = mission[h].from /\ mission'[h].uplift = mission[h].uplift
      /\ mission'[r].status = mission[r].status /\ mission'[r].host = h
      /\ mission'[r].loads = mission[r].loads /\ mission'[r].tail = mission[r].tail
      /\ mission'[r].from = mission[r].from /\ mission'[r].uplift = mission[r].uplift
    BY <1>0, <1>1, <1>2, <1>3, WithStopRows
<1>5. Rows'
    BY <1>4 DEF Rows
<1>6. tail' = Healed(tail, mission')
    BY <1>0 DEF Save
<1>7. Fleet'
    BY <1>3, <1>6, HealedTyped DEF Fleet
<1>8. Counts'
    BY DEF AddCargoStop, history, Typed, Counts
<1>9. LinksAgree'
    BY <1>0, <1>4, StopLinks
<1> QED
    BY <1>0, <1>1, <1>4, <1>5, <1>7, <1>8, <1>9 DEF Typed

LEMMA AddDeskHoldRows ==
    ASSUME Typed, LinksAgree, NEW h \in Missions, NEW r \in Missions,
           NEW to \in Airports, AddDeskHold(h, r, to)
    PROVE  /\ Typed' /\ LinksAgree' /\ Alone({h, r}) /\ IsOpen(h) /\ h # r
           /\ mission[r].status = "none"
           /\ mission'[h].status = "accepted" /\ mission'[r].status = "accepted"
           /\ mission'[h].tail = mission[h].tail /\ mission'[r].tail = NoTail
           /\ mission'[h].from = mission[h].from
           /\ mission'[h].uplift = mission[h].uplift /\ mission'[r].uplift = NoPlace
<1> DEFINE row == Booked(mission[h].from, to, NoTail)
           tt == [tail EXCEPT ![mission[h].tail].status = "assigned",
                              ![mission[h].tail].on = h]
<1>0. /\ MayTakeStops(h) /\ mission[r].status = "none" /\ UNCHANGED history
      /\ Save(WithStop(h, r, row), tt)
    BY DEF AddDeskHold, Fresh
<1>1. /\ IsOpen(h) /\ mission[h].status # "none" /\ h # r /\ ~IsOpen(r)
    BY <1>0 DEF MayTakeStops, IsOpen, OpenStatuses, Waiting
<1>2. mission[h].from \in Airports
    BY <1>1, OpenIsPlaced DEF Typed
<1>3. /\ Sound(row) /\ row.status = "accepted" /\ row.host = NoMission
      /\ row.loads = {} /\ row.tail = NoTail /\ row.uplift = NoPlace
    BY <1>2, BookedSound
<1>t. tt \in [Tails -> Tail]
  <2>1. PICK t \in Tails : t = mission[h].tail
      BY RowShape DEF AddDeskHold
  <2>2. tt = [tail EXCEPT ![t].status = "assigned", ![t].on = h]
      BY <2>1
  <2> HIDE DEF tt
  <2> QED
      BY <2>2 DEF Typed, Fleet, Tail
<1> HIDE DEF row, tt
<1>4. mission' = WithStop(h, r, row) /\ tail' = Healed(tt, mission')
    BY <1>0 DEF Save
<1>5. row \in Mission /\ row.status # "none" /\ r \in Missions \ {h}
    BY <1>1, <1>3 DEF Sound
<1>6. /\ mission' \in [Missions -> Mission]
      /\ \A k \in Missions : Sound(mission'[k])
      /\ Alone({h, r})
      /\ mission'[h].status = "accepted"
      /\ mission'[h].loads = mission[h].loads \cup {r}
      /\ mission'[h].host = mission[h].host /\ mission'[h].tail = mission[h].tail
      /\ mission'[h].from = mission[h].from /\ mission'[h].uplift = mission[h].uplift
      /\ mission'[r].status = row.status /\ mission'[r].host = h
      /\ mission'[r].loads = row.loads /\ mission'[r].tail = row.tail
      /\ mission'[r].uplift = row.uplift
  <2>1. PICK x \in Mission : x = row /\ Sound(x) /\ x.status # "none"
      BY <1>3, <1>5
  <2>2. mission' = WithStop(h, r, x)
      BY <1>4, <2>1
  <2>3. /\ mission' \in [Missions -> Mission]
        /\ \A k \in Missions : Sound(mission'[k])
        /\ Alone({h, r})
        /\ mission'[h].status = "accepted"
        /\ mission'[h].loads = mission[h].loads \cup {r}
        /\ mission'[h].host = mission[h].host /\ mission'[h].tail = mission[h].tail
        /\ mission'[h].from = mission[h].from /\ mission'[h].uplift = mission[h].uplift
        /\ mission'[r].status = x.status /\ mission'[r].host = h
        /\ mission'[r].loads = x.loads /\ mission'[r].tail = x.tail
        /\ mission'[r].uplift = x.uplift
      BY <1>1, <1>5, <2>1, <2>2, WithStopRows
  <2> QED
      BY <2>1, <2>3
<1>7. Rows' /\ Fleet'
    BY <1>4, <1>6, <1>t, HealedTyped DEF Rows, Fleet
<1>8. Counts'
    BY <1>0 DEF history, Typed, Counts
<1>9. LinksAgree'
    BY <1>0, <1>1, <1>3, <1>5, <1>6, StopLinks
<1> QED
    BY <1>0, <1>1, <1>3, <1>6, <1>7, <1>8, <1>9 DEF Typed

LEMMA ShopRows ==
    ASSUME Typed, LinksAgree, NEW t \in Tails, ReturnToService(t)
    PROVE  Typed' /\ LinksAgree' /\ mission' = mission
<1> DEFINE tt == [tail EXCEPT ![t].status = "parked"]
<1>1. tt \in [Tails -> Tail]
    BY DEF Typed, Fleet, Tail
<1> HIDE DEF tt
<1>2. Save(mission, tt) /\ UNCHANGED history
    BY DEF tt, ReturnToService
<1>3. Rows' /\ Fleet' /\ mission' = mission
    BY <1>1, <1>2, SaveTyped DEF Typed, Rows
<1>4. LinksAgree'
    BY <1>3, LinksPrime
<1>5. Counts'
    BY <1>2 DEF history, Typed, Counts
<1> QED
    BY <1>3, <1>4, <1>5 DEF Typed

LEMMA TripNext ==
    ~RiderWatched /\ Typed /\ LinksAgree /\ [Next]_vars => Typed' /\ LinksAgree'
<1> SUFFICES ASSUME ~RiderWatched, Typed, LinksAgree, [Next]_vars
             PROVE  Typed' /\ LinksAgree'
    OBVIOUS
<1>1. ASSUME NEW m \in Missions, NEW to \in Airports, NEW from \in Airports,
             NEW t \in Tails \cup {NoTail}, Accept(m, from, to, t)
      PROVE  Typed' /\ LinksAgree'
    BY <1>1, AcceptRows, NewLinks
<1>2. ASSUME NEW m \in Missions, NEW h \in Missions, NEW to \in Airports,
             AddDeskHold(h, m, to)
      PROVE  Typed' /\ LinksAgree'
    BY <1>2, AddDeskHoldRows
<1>3. ASSUME NEW h \in Missions, NEW r \in Missions, AddCargoStop(h, r)
      PROVE  Typed' /\ LinksAgree'
    BY <1>3, AddCargoStopRows
<1>4. ASSUME NEW h \in Missions, NEW r \in Missions, DropStop(h, r)
      PROVE  Typed' /\ LinksAgree'
    BY <1>4, DropRows, DropLinks
<1>5. ASSUME NEW m \in Missions, EditLoads(m) PROVE Typed' /\ LinksAgree'
    BY <1>5, EditRows
<1>6. ASSUME NEW m \in Missions, Dispatch(m) \/ RevertFalseDepart(m)
      PROVE  Typed' /\ LinksAgree'
    BY <1>6, DispatchRows
<1>7. ASSUME NEW m \in Missions, Depart(m) PROVE Typed' /\ LinksAgree'
  <2>1. "in_flight" \in OpenStatuses
      BY DEF OpenStatuses
  <2> QED
      BY <1>7, <2>1, DepartRows, StatusLinks
<1>8. ASSUME NEW m \in Missions, NEW hub \in Airports, LeaveFreight(m, hub)
      PROVE  Typed' /\ LinksAgree'
  <2>1. "accepted" \in OpenStatuses /\ IsOpen(m)
      BY <1>8 DEF OpenStatuses, Waiting, IsOpen, LeaveFreight
  <2> QED
      BY <1>8, <2>1, LeaveRows, StatusLinks
<1>9. ASSUME NEW m \in Missions, NEW n \in Missions \cup {NoMission},
             NEW inspected \in BOOLEAN, Settle(m, n, inspected)
      PROVE  Typed' /\ LinksAgree'
  <2>1. Typed'
      BY <1>9, SettleRows DEF AfterSettle
  <2>2. LinksAgree'
      BY <1>9, SettleLinks
  <2> QED
      BY <2>1, <2>2
<1>10. ASSUME NEW m \in Missions, Cancel(m) PROVE Typed' /\ LinksAgree'
    BY <1>10, CancelRows, EndLinks
<1>11. ASSUME NEW m \in Missions, Impact(m) PROVE Typed' /\ LinksAgree'
    BY <1>11, ImpactRows
<1>12. ASSUME NEW E \in SUBSET Missions, ExpireStale(E) PROVE Typed' /\ LinksAgree'
    BY <1>12, ExpireRows, EndLinks
<1>13. ASSUME NEW t \in Tails, ReturnToService(t) PROVE Typed' /\ LinksAgree'
    BY <1>13, ShopRows
<1>14. CASE UNCHANGED vars
    BY <1>14, LinksPrime DEF vars, Typed, Rows, Fleet, Counts
<1> QED
    BY <1>1, <1>2, <1>3, <1>4, <1>5, <1>6, <1>7, <1>8, <1>9, <1>10, <1>11, <1>12,
       <1>13, <1>14 DEF Next, Open, Trip, Fly, Housekeeping

\* Every row, tail and count keeps its shape.  (career-mission.ts)
THEOREM TripTypeCorrect == ASSUME ~RiderWatched PROVE Spec => []TypeOK
<1>1. Typed /\ LinksAgree /\ [Next]_vars => (Typed /\ LinksAgree)'
    BY TripNext
<1> QED
    BY <1>1, TripInit, TypedIsTypeOK, PTL DEF Spec

\* The two records of a trip agree, whatever commands open, land, cancel or
\* sweep its missions.  (addCargoStop, continueCargoTripAfterSettle,
\* releaseCargoTripOnCancel)
THEOREM TripLinksAgree == ASSUME ~RiderWatched PROVE Spec => []LinksAgree
<1>1. Typed /\ LinksAgree /\ [Next]_vars => (Typed /\ LinksAgree)'
    BY TripNext
<1> QED
    BY <1>1, TripInit, PTL DEF Spec

-----------------------------------------------------------------------------
(* What a step does to the contracts: one is booked, some are settled, some *)
(* cancelled, one crashes, or none changes its phase (Fate).                *)

PhaseIn(mm, k) == PhaseOf[mm[k].status]

Others(S) == \A k \in Missions \ S : PhaseIn(mission', k) = PhaseIn(mission, k)

Ends(S, s) ==
    /\ S \in SUBSET Missions
    /\ \A k \in S : IsOpen(k) /\ mission'[k].status = s
    /\ Others(S)

Fate ==
    \/ /\ \E m \in Missions : /\ mission[m].status = "none"
                              /\ mission'[m].status = "accepted" /\ Others({m})
       /\ UNCHANGED <<paid, returned, lost>>
    \/ Others({}) /\ UNCHANGED <<paid, returned, lost>>
    \/ \E S \in SUBSET Missions : /\ Ends(S, "settled") /\ paid' = Counted(paid, S)
                                 /\ UNCHANGED <<returned, lost>>
    \/ \E S \in SUBSET Missions : /\ Ends(S, "cancelled")
                                 /\ returned' = Counted(returned, S)
                                 /\ UNCHANGED <<paid, lost>>
    \/ \E m \in Missions : /\ Ends({m}, "failed") /\ lost' = Counted(lost, {m})
                          /\ UNCHANGED <<paid, returned>>

LEMMA Phases ==
    /\ \A s \in OpenStatuses : PhaseOf[s] = "carried"
    /\ PhaseOf["none"] = "unbooked" /\ PhaseOf["accepted"] = "carried"
    /\ PhaseOf["settled"] = "delivered" /\ PhaseOf["cancelled"] = "returned"
    /\ PhaseOf["failed"] = "lost" /\ "accepted" \in OpenStatuses
    /\ "dispatched" \in OpenStatuses /\ "in_flight" \in OpenStatuses
BY DEF PhaseOf, OpenStatuses, Waiting

LEMMA AbortFate ==
    ASSUME Typed, NEW C \in SUBSET Missions, \A m \in C : IsOpen(m),
           mission' = Aborted(C)
    PROVE  Ends(C, "cancelled")
BY AbortedSound DEF Ends, Others, PhaseIn

\* With no family overdue together nothing is cancelled twice.
LEMMA ExpireOnce ==
    ASSUME Typed, ~SweepFamilies, NEW E \in SUBSET Missions, ExpireStale(E)
    PROVE  returned' = Counted(returned, Family(E))
<1>1. Again(E) = {}
    BY DEF Again, ExpireStale
<1>2. Counted(returned, Family(E)) \in [Missions -> Nat]
    BY CountedTyped DEF Typed, Counts
<1> QED
    BY <1>1, <1>2 DEF ExpireStale, Counted

LEMMA SettleFate ==
    ASSUME Typed, LinksAgree, NEW m \in Missions, NEW n \in Missions \cup {NoMission},
           NEW inspected \in BOOLEAN, Settle(m, n, inspected)
    PROVE  Fate
<1>r. AfterSettle(m, n, inspected)
    BY SettleRows
<1> DEFINE S == {m} \cup Here(m)
<1>1. paid' = Counted(paid, S) /\ UNCHANGED <<returned, lost>>
    BY DEF Settle
<1>2. /\ IsOpen(m) /\ Alone({m} \cup mission[m].loads)
      /\ mission'[m].status = "settled"
      /\ \A k \in Here(m) : mission'[k].status = "settled"
      /\ n \in Later(m) => mission'[n].status = "accepted"
      /\ \A k \in Later(m) \ {n} : mission'[k].status = "accepted"
    BY <1>r DEF AfterSettle
<1>3. /\ \A r \in mission[m].loads : r \in Missions /\ IsOpen(r)
      /\ mission[m].loads = Here(m) \cup Later(m)
    BY <1>2, LoadsWait
<1>4. ASSUME NEW k \in Missions \ S
      PROVE  PhaseIn(mission', k) = PhaseIn(mission, k)
  <2>1. CASE k \in Later(m)
    <3>1. mission'[k].status = "accepted" /\ IsOpen(k)
        BY <1>2, <1>3, <2>1
    <3> QED
        BY <3>1, Phases DEF PhaseIn, IsOpen
  <2>2. CASE k \notin Later(m)
      BY <1>2, <1>3, <2>2 DEF PhaseIn, Alone
  <2> QED
      BY <2>1, <2>2
<1>5. Ends(S, "settled") /\ S \in SUBSET Missions
    BY <1>2, <1>3, <1>4 DEF Ends, Others
<1> HIDE DEF S
<1> QED
    BY <1>1, <1>5 DEF Fate

LEMMA TripFate ==
    ~RiderWatched /\ ~SweepFamilies /\ Typed /\ LinksAgree /\ [Next]_vars => Fate
<1> SUFFICES ASSUME ~RiderWatched, ~SweepFamilies, Typed, LinksAgree, [Next]_vars
             PROVE  Fate
    OBVIOUS
<1>1. ASSUME NEW m \in Missions, NEW to \in Airports, NEW from \in Airports,
             NEW t \in Tails \cup {NoTail}, Accept(m, from, to, t)
      PROVE  Fate
  <2>1. UNCHANGED <<paid, returned, lost>>
      BY <1>1 DEF Accept, history
  <2>2. mission[m].status = "none" /\ mission'[m].status = "accepted" /\ Alone({m})
      BY <1>1, AcceptRows
  <2>3. Others({m})
      BY <2>2 DEF Others, Alone, PhaseIn
  <2> QED
      BY <2>1, <2>2, <2>3 DEF Fate
<1>2. ASSUME NEW r \in Missions, NEW h \in Missions, NEW to \in Airports,
             AddDeskHold(h, r, to)
      PROVE  Fate
  <2>1. UNCHANGED <<paid, returned, lost>>
      BY <1>2 DEF AddDeskHold, history
  <2>2. /\ mission[r].status = "none" /\ mission'[r].status = "accepted"
        /\ Alone({h, r}) /\ IsOpen(h) /\ mission'[h].status = "accepted"
      BY <1>2, AddDeskHoldRows
  <2>3. Others({r})
      BY <2>2, Phases DEF Others, Alone, PhaseIn, IsOpen
  <2> QED
      BY <2>1, <2>2, <2>3 DEF Fate
<1>3. ASSUME NEW h \in Missions, NEW r \in Missions, AddCargoStop(h, r)
      PROVE  Fate
  <2>1. UNCHANGED <<paid, returned, lost>>
      BY <1>3 DEF AddCargoStop, history
  <2>2. /\ IsOpen(h) /\ IsOpen(r) /\ Alone({h, r})
        /\ mission'[h].status = "accepted" /\ mission'[r].status = "accepted"
      BY <1>3, AddCargoStopRows
  <2>3. Others({})
      BY <2>2, Phases DEF Others, Alone, PhaseIn, IsOpen
  <2> QED
      BY <2>1, <2>3 DEF Fate
<1>4. ASSUME NEW h \in Missions, NEW r \in Missions, DropStop(h, r)
      PROVE  Fate
  <2>1. /\ Family({r}) = {r} /\ IsOpen(r) /\ IsOpen(h) /\ Alone({h, r})
        /\ mission'[r].status = "cancelled" /\ mission'[h].status = "accepted"
      BY <1>4, DropRows
  <2>2. returned' = Counted(returned, {r}) /\ UNCHANGED <<paid, lost>>
      BY <1>4, <2>1 DEF DropStop
  <2>3. Others({r})
      BY <2>1, Phases DEF Others, Alone, PhaseIn, IsOpen
  <2>4. Ends({r}, "cancelled")
      BY <2>1, <2>3 DEF Ends
  <2> QED
      BY <2>2, <2>4 DEF Fate
<1>5. ASSUME NEW m \in Missions, EditLoads(m) PROVE Fate
  <2>1. UNCHANGED <<paid, returned, lost>>
      BY <1>5 DEF EditLoads, history
  <2>2. IsOpen(m) /\ Alone({m}) /\ mission'[m].status = "accepted"
      BY <1>5, EditRows
  <2>3. Others({})
      BY <2>2, Phases DEF Others, Alone, PhaseIn, IsOpen
  <2> QED
      BY <2>1, <2>3 DEF Fate
<1>6. ASSUME NEW m \in Missions, Dispatch(m) \/ RevertFalseDepart(m) PROVE Fate
  <2>1. UNCHANGED <<paid, returned, lost>>
      BY <1>6 DEF Dispatch, RevertFalseDepart, history
  <2>2. IsOpen(m) /\ Alone({m}) /\ mission'[m].status = "dispatched"
      BY <1>6, DispatchRows
  <2>3. Others({})
      BY <2>2, Phases DEF Others, Alone, PhaseIn, IsOpen
  <2> QED
      BY <2>1, <2>3 DEF Fate
<1>7. ASSUME NEW m \in Missions, Depart(m) PROVE Fate
  <2>1. UNCHANGED <<paid, returned, lost>>
      BY <1>7 DEF Depart
  <2>2. IsOpen(m) /\ Alone({m}) /\ mission'[m].status = "in_flight"
      BY <1>7, DepartRows
  <2>3. Others({})
      BY <2>2, Phases DEF Others, Alone, PhaseIn, IsOpen
  <2> QED
      BY <2>1, <2>3 DEF Fate
<1>8. ASSUME NEW m \in Missions, NEW hub \in Airports, LeaveFreight(m, hub) PROVE Fate
  <2>1. UNCHANGED <<paid, returned, lost>>
      BY <1>8 DEF LeaveFreight
  <2>2. /\ mission[m].status \in OpenStatuses /\ Alone({m})
        /\ mission'[m].status = "accepted"
      BY <1>8, LeaveRows, Phases
  <2>3. Others({})
      BY <2>2, Phases DEF Others, Alone, PhaseIn
  <2> QED
      BY <2>1, <2>3 DEF Fate
<1>9. ASSUME NEW m \in Missions, NEW n \in Missions \cup {NoMission},
             NEW inspected \in BOOLEAN, Settle(m, n, inspected)
      PROVE  Fate
    BY <1>9, SettleFate
<1>10. ASSUME NEW m \in Missions, Cancel(m) PROVE Fate
  <2>1. /\ Family({m}) \in SUBSET Missions /\ \A k \in Family({m}) : IsOpen(k)
        /\ mission' = Aborted(Family({m}))
      BY <1>10, CancelRows
  <2>2. returned' = Counted(returned, Family({m})) /\ UNCHANGED <<paid, lost>>
      BY <1>10 DEF Cancel
  <2> QED
      BY <2>1, <2>2, AbortFate DEF Fate
<1>11. ASSUME NEW m \in Missions, Impact(m) PROVE Fate
  <2>1. IsOpen(m) /\ Alone({m}) /\ mission'[m].status = "failed"
      BY <1>11, ImpactRows
  <2>2. lost' = Counted(lost, {m}) /\ UNCHANGED <<paid, returned>>
      BY <1>11 DEF Impact
  <2>3. Ends({m}, "failed")
      BY <2>1 DEF Ends, Others, Alone, PhaseIn
  <2> QED
      BY <2>2, <2>3 DEF Fate
<1>12. ASSUME NEW E \in SUBSET Missions, ExpireStale(E) PROVE Fate
  <2>1. /\ Family(E) \in SUBSET Missions /\ \A k \in Family(E) : IsOpen(k)
        /\ mission' = Aborted(Family(E))
      BY <1>12, ExpireRows
  <2>2. returned' = Counted(returned, Family(E)) /\ UNCHANGED <<paid, lost>>
      BY <1>12, ExpireOnce DEF ExpireStale
  <2> QED
      BY <2>1, <2>2, AbortFate DEF Fate
<1>13. ASSUME NEW t \in Tails, ReturnToService(t) PROVE Fate
  <2>1. mission' = mission
      BY <1>13, ShopRows
  <2>2. Others({}) /\ UNCHANGED <<paid, returned, lost>>
      BY <1>13, <2>1 DEF Others, PhaseIn, ReturnToService, history
  <2> QED
      BY <2>2 DEF Fate
<1>14. CASE UNCHANGED vars
    BY <1>14 DEF vars, Fate, Others, PhaseIn
<1> QED
    BY <1>1, <1>2, <1>3, <1>4, <1>5, <1>6, <1>7, <1>8, <1>9, <1>10, <1>11, <1>12,
       <1>13, <1>14 DEF Next, Open, Trip, Fly, Housekeeping

-----------------------------------------------------------------------------
(* Every contract ends once.                                               *)

Ended(k) == PhaseIn(mission, k) \in {"delivered", "returned", "lost"}

Accounts ==
    \A k \in Missions :
        paid[k] + returned[k] + lost[k] = IF Ended(k) THEN 1 ELSE 0

LEMMA AccountsOnce == Typed /\ Accounts => ReleasedOnce
BY DEF Typed, Counts, Accounts, ReleasedOnce

\* The missions S, and no others, are counted once more, and close.
LEMMA AccountsMove ==
    ASSUME Typed, Accounts, NEW S \in SUBSET Missions, NEW s, Ends(S, s),
           PhaseOf[s] \in {"delivered", "returned", "lost"},
           \A k \in Missions :
               paid'[k] + returned'[k] + lost'[k] =
                   paid[k] + returned[k] + lost[k] + (IF k \in S THEN 1 ELSE 0)
    PROVE  Accounts'
<1> SUFFICES ASSUME NEW k \in Missions
             PROVE  paid'[k] + returned'[k] + lost'[k] =
                        IF PhaseIn(mission', k) \in {"delivered", "returned", "lost"}
                        THEN 1 ELSE 0
    BY DEF Accounts, Ended
<1>1. paid[k] + returned[k] + lost[k] = IF Ended(k) THEN 1 ELSE 0
    BY DEF Accounts
<1>2. CASE k \in S
  <2>1. ~Ended(k)
      BY <1>2, Phases DEF Ends, Ended, PhaseIn, IsOpen
  <2>2. PhaseIn(mission', k) \in {"delivered", "returned", "lost"}
      BY <1>2 DEF Ends, PhaseIn
  <2> QED
      BY <1>1, <1>2, <2>1, <2>2
<1>3. CASE k \notin S
  <2>1. PhaseIn(mission', k) = PhaseIn(mission, k)
      BY <1>3 DEF Ends, Others
  <2>2. paid'[k] + returned'[k] + lost'[k] = paid[k] + returned[k] + lost[k]
      BY <1>3 DEF Typed, Counts
  <2> QED
      BY <1>1, <2>1, <2>2 DEF Ended
<1> QED
    BY <1>2, <1>3

LEMMA AccountsNext == Typed /\ Accounts /\ Fate => Accounts'
<1> SUFFICES ASSUME Typed, Accounts, Fate PROVE Accounts'
    OBVIOUS
<1>0. /\ paid \in [Missions -> Nat] /\ returned \in [Missions -> Nat]
      /\ lost \in [Missions -> Nat]
    BY DEF Typed, Counts
<1>1. ASSUME NEW m \in Missions, mission[m].status = "none",
             mission'[m].status = "accepted", Others({m}),
             UNCHANGED <<paid, returned, lost>>
      PROVE  Accounts'
  <2>1. ~Ended(m)
      BY <1>1, Phases DEF Ended, PhaseIn
  <2>2. PhaseIn(mission', m) \notin {"delivered", "returned", "lost"}
      BY <1>1, Phases DEF PhaseIn
  <2>3. \A k \in Missions : (PhaseIn(mission', k) \in {"delivered", "returned", "lost"})
                              <=> Ended(k)
      BY <1>1, <2>1, <2>2 DEF Others, Ended
  <2> QED
      BY <1>1, <2>3 DEF Accounts, Ended
<1>2. ASSUME Others({}), UNCHANGED <<paid, returned, lost>> PROVE Accounts'
    BY <1>2 DEF Accounts, Ended, Others
<1>3. ASSUME NEW S \in SUBSET Missions, Ends(S, "settled"), paid' = Counted(paid, S),
             UNCHANGED <<returned, lost>>
      PROVE  Accounts'
  <2>1. \A k \in Missions :
            paid'[k] + returned'[k] + lost'[k] =
                paid[k] + returned[k] + lost[k] + (IF k \in S THEN 1 ELSE 0)
      BY <1>0, <1>3 DEF Counted
  <2> QED
      BY <1>3, <2>1, AccountsMove, Phases
<1>4. ASSUME NEW S \in SUBSET Missions, Ends(S, "cancelled"),
             returned' = Counted(returned, S), UNCHANGED <<paid, lost>>
      PROVE  Accounts'
  <2>1. \A k \in Missions :
            paid'[k] + returned'[k] + lost'[k] =
                paid[k] + returned[k] + lost[k] + (IF k \in S THEN 1 ELSE 0)
      BY <1>0, <1>4 DEF Counted
  <2> QED
      BY <1>4, <2>1, AccountsMove, Phases
<1>5. ASSUME NEW m \in Missions, Ends({m}, "failed"), lost' = Counted(lost, {m}),
             UNCHANGED <<paid, returned>>
      PROVE  Accounts'
  <2>1. \A k \in Missions :
            paid'[k] + returned'[k] + lost'[k] =
                paid[k] + returned[k] + lost[k] + (IF k \in {m} THEN 1 ELSE 0)
      BY <1>0, <1>5 DEF Counted
  <2> QED
      BY <1>5, <2>1, AccountsMove, Phases
<1> QED
    BY <1>1, <1>2, <1>3, <1>4, <1>5 DEF Fate

\* A contract leaves the company's hands at most once, if no flight is swept
\* together with a later stop of its own.  (settleMission, cancelMission,
\* failMissionImpact, expireStaleActiveMissions)
THEOREM TripReleasedOnce ==
    ASSUME ~RiderWatched, ~SweepFamilies PROVE Spec => []ReleasedOnce
<1>1. Typed /\ LinksAgree /\ Accounts /\ [Next]_vars => (Typed /\ LinksAgree /\ Accounts)'
    BY TripNext, TripFate, AccountsNext
<1>2. Init => Accounts
    BY Phases DEF Init, Accounts, Ended, PhaseIn, Blank, NoCount
<1> QED
    BY <1>1, <1>2, TripInit, AccountsOnce, PTL DEF Spec

-----------------------------------------------------------------------------
(* The trips implement the contracts.                                       *)

LEMMA ContractInit == Init => Contract!Init
BY Phases DEF Init, Contract!Init, Blank, NoCount

\* The contracts S go from p to q, and no other changes its phase.
LEMMA ContractMove ==
    ASSUME NEW S \in SUBSET Missions, NEW p, NEW q, Others(S),
           \A k \in S : PhaseIn(mission, k) = p /\ PhaseIn(mission', k) = q
    PROVE  Contract!Move(S, p, q)
BY DEF Contract!Move, Others, PhaseIn

LEMMA CountedOnce ==
    ASSUME NEW count, NEW S
    PROVE  Counted(count, S) = Contract!Once(count, S)
BY DEF Counted, Contract!Once

LEMMA ContractStep ==
    ASSUME Fate PROVE Contract!Next \/ UNCHANGED Contract!vars
<1>1. ASSUME NEW m \in Missions, mission[m].status = "none",
             mission'[m].status = "accepted", Others({m}),
             UNCHANGED <<paid, returned, lost>>
      PROVE  Contract!Next
  <2>1. Contract!Move({m}, "unbooked", "carried")
      BY <1>1, ContractMove, Phases DEF PhaseIn
  <2>2. Contract!Book(m)
      BY <1>1, <2>1 DEF Contract!Book
  <2> QED
      BY <2>2 DEF Contract!Next
<1>2. ASSUME Others({}), UNCHANGED <<paid, returned, lost>>
      PROVE  UNCHANGED Contract!vars
    BY <1>2 DEF Others, PhaseIn, Contract!vars
<1>3. ASSUME NEW S \in SUBSET Missions, Ends(S, "settled"), paid' = Counted(paid, S),
             UNCHANGED <<returned, lost>>
      PROVE  Contract!Next
  <2>1. Contract!Move(S, "carried", "delivered")
      BY <1>3, ContractMove, Phases DEF PhaseIn, Ends, IsOpen
  <2>2. Contract!Deliver(S)
      BY <1>3, <2>1, CountedOnce DEF Contract!Deliver
  <2> QED
      BY <2>2 DEF Contract!Next
<1>4. ASSUME NEW S \in SUBSET Missions, Ends(S, "cancelled"),
             returned' = Counted(returned, S), UNCHANGED <<paid, lost>>
      PROVE  Contract!Next
  <2>1. Contract!Move(S, "carried", "returned")
      BY <1>4, ContractMove, Phases DEF PhaseIn, Ends, IsOpen
  <2>2. Contract!Return(S)
      BY <1>4, <2>1, CountedOnce DEF Contract!Return
  <2> QED
      BY <2>2 DEF Contract!Next
<1>5. ASSUME NEW m \in Missions, Ends({m}, "failed"), lost' = Counted(lost, {m}),
             UNCHANGED <<paid, returned>>
      PROVE  Contract!Next
  <2>1. Contract!Move({m}, "carried", "lost")
      BY <1>5, ContractMove, Phases DEF PhaseIn, Ends, IsOpen
  <2>2. Contract!Lose(m)
      BY <1>5, <2>1 DEF Contract!Lose
  <2> QED
      BY <2>2 DEF Contract!Next
<1> QED
    BY <1>1, <1>2, <1>3, <1>4, <1>5 DEF Fate

\* The trips implement the promise made for one contract, if no flight is swept
\* together with a later stop of its own.  (CargoContract; addCargoStop,
\* settleMission, cancelMission, failMissionImpact, expireStaleActiveMissions)
THEOREM TripImplementsContract ==
    ASSUME ~RiderWatched, ~SweepFamilies PROVE Spec => EachContractEndsOnce
<1>1. Typed /\ LinksAgree /\ [Next]_vars => Contract!Next \/ UNCHANGED Contract!vars
    BY TripFate, ContractStep
<1> QED
    BY <1>1, ContractInit, TripInit, TripNext, PTL DEF Spec, EachContractEndsOnce, Contract!Spec

-----------------------------------------------------------------------------
(* Fuel is bought once between two hubs: a mission that has no uplift on    *)
(* its row has bought none since it left the last one (Bought).             *)

Dry(mm, k) == mm[k].status = "none" \/ mm[k].uplift = NoPlace

Bought ==
    \A k \in Missions :
        fuelled[k] <= 1 /\ (Dry(mission, k) => fuelled[k] = 0)

\* No row loses its uplift and nothing is bought.
LEMMA BoughtKept ==
    ASSUME Bought, fuelled' = fuelled,
           \A k \in Missions : Dry(mission', k) => Dry(mission, k)
    PROVE  Bought'
BY DEF Bought, Dry

\* The row of m changes alone, and keeps its uplift.
LEMMA BoughtStatus ==
    ASSUME Bought, fuelled' = fuelled, NEW m \in Missions, Alone({m}),
           mission'[m].uplift = mission[m].uplift, mission'[m].status # "none",
           mission[m].status # "none"
    PROVE  Bought'
<1>1. \A k \in Missions : Dry(mission', k) => Dry(mission, k)
    BY DEF Alone, Dry
<1> QED
    BY <1>1, BoughtKept

LEMMA BoughtEnds ==
    ASSUME Typed, Bought, fuelled' = fuelled, NEW C \in SUBSET Missions,
           \A m \in C : IsOpen(m), mission' = Aborted(C)
    PROVE  Bought'
<1>1. \A k \in Missions : Dry(mission', k) => Dry(mission, k)
    BY AbortedSound DEF Dry
<1> QED
    BY <1>1, BoughtKept

LEMMA OpenIsTaken ==
    ASSUME NEW m \in Missions, IsOpen(m) PROVE mission[m].status # "none"
BY DEF IsOpen, OpenStatuses, Waiting

LEMMA BoughtDepart ==
    ASSUME Typed, Bought, NEW m \in Missions, Depart(m) PROVE Bought'
<1>1. /\ IsOpen(m) /\ Alone({m}) /\ mission'[m].uplift # NoPlace
      /\ mission'[m].status = "in_flight"
    BY DepartRows
<1>2. fuelled' = Counted(fuelled, Buys(m)) /\ fuelled \in [Missions -> Nat]
    BY DEF Depart, Typed, Counts
<1>3. \A k \in Missions \ {m} : fuelled'[k] = fuelled[k]
    BY <1>2 DEF Counted, Buys
<1>4. fuelled'[m] <= 1
  <2>1. CASE mission[m].uplift = NoPlace
    <3>1. fuelled[m] = 0
        BY <2>1 DEF Bought, Dry
    <3> QED
        BY <1>2, <2>1, <3>1 DEF Counted, Buys
  <2>2. CASE mission[m].uplift # NoPlace
      BY <1>2, <2>2 DEF Counted, Buys, Bought
  <2> QED
      BY <2>1, <2>2
<1> QED
    BY <1>1, <1>3, <1>4 DEF Bought, Dry, Alone

LEMMA BoughtLeave ==
    ASSUME Typed, Bought, NEW m \in Missions, NEW hub \in Airports, LeaveFreight(m, hub)
    PROVE  Bought'
<1>1. Alone({m})
    BY LeaveRows
<1>2. fuelled' = [fuelled EXCEPT ![m] = 0] /\ fuelled \in [Missions -> Nat]
    BY DEF LeaveFreight, Typed, Counts
<1> QED
    BY <1>1, <1>2 DEF Bought, Dry, Alone

LEMMA SettleDry ==
    ASSUME Typed, LinksAgree, NEW m \in Missions, NEW n \in Missions \cup {NoMission},
           NEW inspected \in BOOLEAN, Settle(m, n, inspected), NEW k \in Missions \ {m},
           Dry(mission', k)
    PROVE  Dry(mission, k)
<1>r. AfterSettle(m, n, inspected)
    BY SettleRows
<1>1. /\ IsOpen(m) /\ Alone({m} \cup mission[m].loads)
      /\ (Later(m) = {} /\ n = NoMission) \/ n \in Later(m)
    BY <1>r DEF AfterSettle
<1>2. /\ \A r \in mission[m].loads : r \in Missions /\ r # m
      /\ mission[m].loads = Here(m) \cup Later(m)
    BY <1>1, LoadsWait
<1>3. CASE k \in Here(m)
  <2>1. mission'[k].status = "settled" /\ mission'[k].uplift = mission[k].uplift
      BY <1>3, <1>r DEF AfterSettle
  <2> QED
      BY <2>1 DEF Dry
<1>4. CASE k \in Later(m) \ {n}
  <2>1. mission'[k].status = "accepted" /\ mission'[k].uplift = mission[k].uplift
      BY <1>4, <1>r DEF AfterSettle
  <2> QED
      BY <2>1 DEF Dry
<1>5. CASE k \in Later(m) /\ k = n
  <2>1. mission'[n].status = "accepted" /\ mission'[n].uplift = mission[n].uplift
      BY <1>5, <1>r DEF AfterSettle
  <2> QED
      BY <1>5, <2>1 DEF Dry
<1>6. CASE k \notin mission[m].loads
    BY <1>1, <1>6 DEF Alone, Dry
<1> QED
    BY <1>2, <1>3, <1>4, <1>5, <1>6

LEMMA BoughtSettle ==
    ASSUME Typed, LinksAgree, Bought, NEW m \in Missions,
           NEW n \in Missions \cup {NoMission}, NEW inspected \in BOOLEAN,
           Settle(m, n, inspected)
    PROVE  Bought'
<1>r. AfterSettle(m, n, inspected)
    BY SettleRows
<1>3. \A k \in Missions \ {m} : Dry(mission', k) => Dry(mission, k)
    BY SettleDry
<1>m. mission'[m].status = "settled" /\ mission'[m].uplift # NoPlace
    BY <1>r DEF AfterSettle
<1>4. ~Dry(mission', m)
    BY <1>m DEF Dry
<1> DEFINE bought == Counted(fuelled, IF MayDepart(m) THEN Buys(m) ELSE {})
<1>5. \A k \in Missions : fuelled'[k] = (IF k = n THEN 0 ELSE bought[k])
    BY DEF Settle
<1>6. fuelled \in [Missions -> Nat]
    BY DEF Typed, Counts
<1>7. \A k \in Missions \ {m} : bought[k] = fuelled[k]
    BY <1>6 DEF Counted, Buys
<1>8. bought[m] <= 1
  <2>1. CASE mission[m].uplift = NoPlace
    <3>1. fuelled[m] = 0
        BY <2>1 DEF Bought, Dry
    <3> QED
        BY <1>6, <2>1, <3>1 DEF Counted, Buys
  <2>2. CASE mission[m].uplift # NoPlace
      BY <1>6, <2>2 DEF Counted, Buys, Bought
  <2> QED
      BY <2>1, <2>2
<1> HIDE DEF bought
<1>9. ASSUME NEW k \in Missions
      PROVE  fuelled'[k] <= 1 /\ (Dry(mission', k) => fuelled'[k] = 0)
    BY <1>3, <1>4, <1>5, <1>7, <1>8, <1>9 DEF Bought
<1> QED
    BY <1>9 DEF Bought, Dry

LEMMA BoughtNext ==
    ~RiderWatched /\ Typed /\ LinksAgree /\ Bought /\ [Next]_vars => Bought'
<1> SUFFICES ASSUME ~RiderWatched, Typed, LinksAgree, Bought, [Next]_vars
             PROVE  Bought'
    OBVIOUS
<1>1. ASSUME NEW m \in Missions, NEW to \in Airports, NEW from \in Airports,
             NEW t \in Tails \cup {NoTail}, Accept(m, from, to, t)
      PROVE  Bought'
  <2>1. mission[m].status = "none" /\ Alone({m})
      BY <1>1, AcceptRows
  <2>2. fuelled' = fuelled
      BY <1>1 DEF Accept, history
  <2>3. \A k \in Missions : Dry(mission', k) => Dry(mission, k)
      BY <2>1 DEF Alone, Dry
  <2> QED
      BY <2>2, <2>3, BoughtKept
<1>2. ASSUME NEW r \in Missions, NEW h \in Missions, NEW to \in Airports,
             AddDeskHold(h, r, to)
      PROVE  Bought'
  <2>1. /\ mission[r].status = "none" /\ Alone({h, r})
        /\ mission'[h].uplift = mission[h].uplift /\ mission'[h].status = "accepted"
      BY <1>2, AddDeskHoldRows
  <2>2. fuelled' = fuelled
      BY <1>2 DEF AddDeskHold, history
  <2>3. \A k \in Missions : Dry(mission', k) => Dry(mission, k)
      BY <2>1 DEF Alone, Dry
  <2> QED
      BY <2>2, <2>3, BoughtKept
<1>3. ASSUME NEW h \in Missions, NEW r \in Missions, AddCargoStop(h, r)
      PROVE  Bought'
  <2>1. /\ Alone({h, r})
        /\ mission'[h].uplift = mission[h].uplift /\ mission'[h].status = "accepted"
        /\ mission'[r].uplift = mission[r].uplift /\ mission'[r].status = "accepted"
      BY <1>3, AddCargoStopRows
  <2>2. fuelled' = fuelled
      BY <1>3 DEF AddCargoStop, history
  <2>3. \A k \in Missions : Dry(mission', k) => Dry(mission, k)
      BY <2>1 DEF Alone, Dry
  <2> QED
      BY <2>2, <2>3, BoughtKept
<1>4. ASSUME NEW h \in Missions, NEW r \in Missions, DropStop(h, r)
      PROVE  Bought'
  <2>1. /\ Alone({h, r})
        /\ mission'[h].uplift = mission[h].uplift /\ mission'[h].status = "accepted"
        /\ mission'[r].uplift = mission[r].uplift /\ mission'[r].status = "cancelled"
      BY <1>4, DropRows
  <2>2. fuelled' = fuelled
      BY <1>4 DEF DropStop
  <2>3. \A k \in Missions : Dry(mission', k) => Dry(mission, k)
      BY <2>1 DEF Alone, Dry
  <2> QED
      BY <2>2, <2>3, BoughtKept
<1>5. ASSUME NEW m \in Missions, EditLoads(m) PROVE Bought'
  <2>1. fuelled' = fuelled
      BY <1>5 DEF EditLoads, history
  <2> QED
      BY <1>5, <2>1, EditRows, OpenIsTaken, BoughtStatus
<1>6. ASSUME NEW m \in Missions, Dispatch(m) \/ RevertFalseDepart(m) PROVE Bought'
  <2>1. fuelled' = fuelled
      BY <1>6 DEF Dispatch, RevertFalseDepart, history
  <2> QED
      BY <1>6, <2>1, DispatchRows, OpenIsTaken, BoughtStatus
<1>7. ASSUME NEW m \in Missions, Depart(m) PROVE Bought'
    BY <1>7, BoughtDepart
<1>8. ASSUME NEW m \in Missions, NEW hub \in Airports, LeaveFreight(m, hub) PROVE Bought'
    BY <1>8, BoughtLeave
<1>9. ASSUME NEW m \in Missions, NEW n \in Missions \cup {NoMission},
             NEW inspected \in BOOLEAN, Settle(m, n, inspected)
      PROVE  Bought'
    BY <1>9, BoughtSettle
<1>10. ASSUME NEW m \in Missions, Cancel(m) PROVE Bought'
  <2>1. fuelled' = fuelled
      BY <1>10 DEF Cancel
  <2> QED
      BY <1>10, <2>1, CancelRows, BoughtEnds
<1>11. ASSUME NEW m \in Missions, Impact(m) PROVE Bought'
  <2>1. fuelled' = fuelled
      BY <1>11 DEF Impact
  <2> QED
      BY <1>11, <2>1, ImpactRows, OpenIsTaken, BoughtStatus
<1>12. ASSUME NEW E \in SUBSET Missions, ExpireStale(E) PROVE Bought'
  <2>1. fuelled' = fuelled
      BY <1>12 DEF ExpireStale
  <2> QED
      BY <1>12, <2>1, ExpireRows, BoughtEnds
<1>13. ASSUME NEW t \in Tails, ReturnToService(t) PROVE Bought'
  <2>1. fuelled' = fuelled
      BY <1>13 DEF ReturnToService, history
  <2>2. mission' = mission
      BY <1>13, ShopRows
  <2> QED
      BY <2>1, <2>2, BoughtKept DEF Dry
<1>14. CASE UNCHANGED vars
    BY <1>14, BoughtKept DEF vars, Dry
<1> QED
    BY <1>1, <1>2, <1>3, <1>4, <1>5, <1>6, <1>7, <1>8, <1>9, <1>10, <1>11, <1>12,
       <1>13, <1>14 DEF Next, Open, Trip, Fly, Housekeeping

\* Between two hubs a mission buys fuel once, whatever false departures and
\* replanning come between.  (applyPlayerDepartFuel, revertFalseDepartMission)
THEOREM TripFuelOnce == ASSUME ~RiderWatched PROVE Spec => []FuelOnce
<1>1. Typed /\ LinksAgree /\ Bought /\ [Next]_vars => (Typed /\ LinksAgree /\ Bought)'
    BY TripNext, BoughtNext
<1>2. Init => Bought
    BY DEF Init, Bought, NoCount
<1>3. Bought => FuelOnce
    BY DEF Bought, FuelOnce
<1> QED
    BY <1>1, <1>2, <1>3, TripInit, PTL DEF Spec

-----------------------------------------------------------------------------
(* A planned flight has its tail.  The stronger fact that is inductive: every *)
(* open mission that names a tail, later stops and flights in the air         *)
(* included, has it at its origin (Held).                                     *)

Held(tt, mm) ==
    \A k \in Missions :
        OpenIn(mm, k) /\ mm[k].tail # NoTail =>
            tt[mm[k].tail] = [status |-> "assigned", on |-> k, at |-> mm[k].from]

LEMMA HeldOf ==
    ASSUME Held(tail, mission), NEW k \in Missions, IsOpen(k), NEW t,
           t = mission[k].tail, t # NoTail
    PROVE  /\ tail[t] = [status |-> "assigned", on |-> k, at |-> mission[k].from]
           /\ tail[t].status = "assigned" /\ tail[t].on = k
           /\ tail[t].at = mission[k].from
<1>1. tail[t] = [status |-> "assigned", on |-> k, at |-> mission[k].from]
    BY DEF Held, OpenIn, IsOpen
<1> QED
    BY <1>1

LEMMA HeldIsReady == Held(tail, mission) => TailReady
<1> SUFFICES ASSUME Held(tail, mission), NEW m \in Missions,
                    mission[m].status \in Waiting, NEW t, t = mission[m].tail,
                    t # NoTail
             PROVE  /\ tail[t].status = "assigned" /\ tail[t].on = m
                    /\ tail[t].at = mission[m].from
    BY DEF TailReady
<1>1. IsOpen(m)
    BY DEF IsOpen, OpenStatuses
<1> QED
    BY <1>1, HeldOf

\* A save keeps what the fleet it is given holds.
LEMMA HeldSaved ==
    ASSUME Typed', NEW tt \in [Tails -> Tail], tail' = Healed(tt, mission'),
           Held(tt, mission')
    PROVE  Held(tail', mission')
<1> SUFFICES ASSUME NEW k \in Missions, OpenIn(mission', k), NEW t,
                    t = mission'[k].tail, t # NoTail
             PROVE  tail'[t] =
                      [status |-> "assigned", on |-> k, at |-> mission'[k].from]
    BY DEF Held
<1>1. tt[t] = [status |-> "assigned", on |-> k, at |-> mission'[k].from]
    BY DEF Held
<1>2. t \in Tails
    BY DEF Typed, Rows, Mission
<1>3. tt[t].on = k /\ k # NoMission
    BY <1>1, NoMissionIsNone
<1>4. mission'[k].status \in OpenStatuses /\ mission'[k].tail = t
    BY DEF OpenIn
<1>5. Holds(t, tt, mission')
    BY <1>3, <1>4 DEF Holds
<1> QED
    BY <1>1, <1>2, <1>5, HealedTyped

\* No tail moves, and whoever is open has the tail and the origin it had.
LEMMA HeldStill ==
    ASSUME Typed, Typed', Held(tail, mission), tail' = Healed(tail, mission'),
           \A k \in Missions :
               OpenIn(mission', k) /\ mission'[k].tail # NoTail =>
                   /\ IsOpen(k) /\ mission'[k].tail = mission[k].tail
                   /\ mission'[k].from = mission[k].from
    PROVE  Held(tail', mission')
<1>1. Held(tail, mission')
    BY DEF Held, OpenIn, IsOpen
<1> QED
    BY <1>1, HeldSaved DEF Typed, Fleet

\* The row of m changes alone, and keeps its tail and its origin.
LEMMA HeldStatus ==
    ASSUME Typed, Typed', Held(tail, mission), tail' = Healed(tail, mission'),
           NEW m \in Missions, IsOpen(m), Alone({m}),
           mission'[m].tail = mission[m].tail, mission'[m].from = mission[m].from
    PROVE  Held(tail', mission')
<1>1. \A k \in Missions :
          OpenIn(mission', k) /\ mission'[k].tail # NoTail =>
              /\ IsOpen(k) /\ mission'[k].tail = mission[k].tail
              /\ mission'[k].from = mission[k].from
    BY DEF Alone, OpenIn, IsOpen
<1> QED
    BY <1>1, HeldStill

\* An open mission is the only one that has its tail.
LEMMA HeldAlone ==
    ASSUME Held(tail, mission), NEW k \in Missions, IsOpen(k), NEW t,
           t = mission[k].tail, t # NoTail, NEW m \in Missions, IsOpen(m),
           t \in TailsOf(m)
    PROVE  m = k
<1>1. tail[t].on = k
    BY HeldOf
<1>2. CASE mission[m].tail = NoTail
    BY <1>1, <1>2 DEF TailsOf
<1>3. CASE mission[m].tail # NoTail
  <2>1. mission[m].tail = t
      BY <1>3 DEF TailsOf
  <2>2. tail[t].on = m
      BY <2>1, HeldOf
  <2> QED
      BY <1>1, <2>2
<1> QED
    BY <1>2, <1>3

\* The missions C end: the tails of the others stay.
LEMMA HeldStood ==
    ASSUME Typed, Typed', Held(tail, mission), NEW C \in SUBSET Missions,
           \A m \in C : IsOpen(m), tail' = Healed(Stood(C), mission'),
           \A k \in C : ~OpenIn(mission', k),
           \A k \in Missions \ C :
               /\ OpenIn(mission', k) => IsOpen(k)
               /\ mission'[k].tail = mission[k].tail
               /\ mission'[k].from = mission[k].from
    PROVE  Held(tail', mission')
<1>1. ASSUME NEW k \in Missions, OpenIn(mission', k), NEW t, t = mission'[k].tail,
             t # NoTail
      PROVE  Stood(C)[t] = [status |-> "assigned", on |-> k, at |-> mission'[k].from]
  <2>1. k \notin C /\ IsOpen(k) /\ t = mission[k].tail
        /\ mission'[k].from = mission[k].from
      BY <1>1
  <2>2. t \in Tails
      BY <1>1, <2>1, RowShape
  <2>3. ASSUME NEW m \in C PROVE t \notin TailsOf(m)
      BY <1>1, <2>1, HeldAlone
  <2>4. Stood(C)[t] = tail[t]
      BY <2>2, <2>3 DEF Stood
  <2>5. tail[t] = [status |-> "assigned", on |-> k, at |-> mission[k].from]
      BY <1>1, <2>1 DEF Held, OpenIn, IsOpen
  <2> QED
      BY <2>1, <2>4, <2>5
<1>2. Held(Stood(C), mission')
    BY <1>1 DEF Held
<1> QED
    BY <1>2, StoodTyped, HeldSaved

LEMMA HeldEnds ==
    ASSUME Typed, Typed', Held(tail, mission), NEW C \in SUBSET Missions,
           \A m \in C : IsOpen(m), mission' = Aborted(C),
           tail' = Healed(Stood(C), mission')
    PROVE  Held(tail', mission')
<1>1. \A k \in C : ~OpenIn(mission', k)
    BY AbortedSound DEF OpenIn, OpenStatuses, Waiting
<1>2. \A k \in Missions \ C :
          /\ OpenIn(mission', k) => IsOpen(k)
          /\ mission'[k].tail = mission[k].tail
          /\ mission'[k].from = mission[k].from
    BY AbortedSound DEF OpenIn, IsOpen
<1> QED
    BY <1>1, <1>2, HeldStood

LEMMA SameTail ==
    ASSUME NEW x \in Tail, NEW y \in Tail,
           x.status = y.status, x.on = y.on, x.at = y.at
    PROVE  x = y
BY DEF Tail

\* A tail that is assigned to m.
LEMMA TakenTail ==
    ASSUME NEW x \in Tail, NEW m \in Missions
    PROVE  [x EXCEPT !.status = "assigned", !.on = m]
             = [status |-> "assigned", on |-> m, at |-> x.at]
<1> DEFINE y == [x EXCEPT !.status = "assigned", !.on = m]
           z == [status |-> "assigned", on |-> m, at |-> x.at]
<1>1. y \in Tail /\ z \in Tail
    BY DEF Tail
<1>2. y.status = z.status /\ y.on = z.on /\ y.at = z.at
    BY DEF Tail
<1> HIDE DEF y, z
<1>3. y = z
    BY <1>1, <1>2, SameTail
<1> QED
    BY <1>3 DEF y, z

LEMMA HeldAccept ==
    ASSUME Typed, Held(tail, mission), NEW m \in Missions, NEW from \in Airports,
           NEW to \in Airports, NEW t \in Tails \cup {NoTail}, Accept(m, from, to, t)
    PROVE  Held(tail', mission')
<1> DEFINE tt == IF t = NoTail THEN tail
                 ELSE [tail EXCEPT ![t].status = "assigned", ![t].on = m]
<1>1. /\ Typed' /\ Alone({m}) /\ mission[m].status = "none"
      /\ mission'[m].tail = t /\ mission'[m].from = from
    BY AcceptRows
<1>2. tail' = Healed(tt, mission')
    BY DEF Accept, Save
<1>3. tt \in [Tails -> Tail]
    BY DEF Typed, Fleet, Tail
<1>4. t # NoTail => /\ t \in Tails /\ tail[t].status = "parked" /\ tail[t].at = from
    BY DEF Accept
<1>5. \A u \in Tails \ {t} : tt[u] = tail[u]
    BY DEF Typed, Fleet
<1>6. ASSUME t # NoTail
      PROVE  tt[t] = [status |-> "assigned", on |-> m, at |-> from]
  <2>1. PICK x \in Tail : x = tail[t]
      BY <1>4, <1>6 DEF Typed, Fleet
  <2>2. tt[t] = [x EXCEPT !.status = "assigned", !.on = m]
      BY <1>4, <1>6, <2>1 DEF Typed, Fleet
  <2>3. [x EXCEPT !.status = "assigned", !.on = m]
          = [status |-> "assigned", on |-> m, at |-> x.at]
      BY TakenTail
  <2> QED
      BY <1>4, <1>6, <2>1, <2>2, <2>3
<1> HIDE DEF tt
<1>7. ASSUME NEW k \in Missions \ {m}, OpenIn(mission', k), NEW u,
             u = mission'[k].tail, u # NoTail
      PROVE  tt[u] = [status |-> "assigned", on |-> k, at |-> mission'[k].from]
  <2>1. IsOpen(k) /\ mission'[k] = mission[k] /\ u = mission[k].tail
      BY <1>1, <1>7 DEF Alone, OpenIn, IsOpen
  <2>2. tail[u].status = "assigned"
        /\ tail[u] = [status |-> "assigned", on |-> k, at |-> mission[k].from]
      BY <1>7, <2>1, HeldOf
  <2>3. u \in Tails \ {t}
      BY <1>4, <1>7, <2>1, <2>2, RowShape
  <2> QED
      BY <1>5, <2>1, <2>2, <2>3
<1>8. Held(tt, mission')
    BY <1>1, <1>6, <1>7 DEF Held
<1> QED
    BY <1>1, <1>2, <1>3, <1>8, HeldSaved

\* The flight a hold is added to has its tail already.
LEMMA HeldAddDeskHold ==
    ASSUME Typed, LinksAgree, Held(tail, mission), NEW h \in Missions,
           NEW r \in Missions, NEW to \in Airports, AddDeskHold(h, r, to)
    PROVE  Held(tail', mission')
<1> DEFINE t == mission[h].tail
           tt == [tail EXCEPT ![t].status = "assigned", ![t].on = h]
<1>1. /\ Typed' /\ Alone({h, r}) /\ IsOpen(h) /\ mission'[r].tail = NoTail
      /\ mission'[h].tail = t /\ mission'[h].from = mission[h].from
    BY AddDeskHoldRows
<1>2. tail' = Healed(tt, mission') /\ t # NoTail
    BY DEF AddDeskHold, Save
<1>3. tail[t].status = "assigned" /\ tail[t].on = h /\ t \in Tails
    BY <1>1, <1>2, HeldOf, RowShape
<1>4. tt = tail
    BY <1>3 DEF Typed, Fleet, Tail
<1> HIDE DEF tt
<1>5. \A k \in Missions :
          OpenIn(mission', k) /\ mission'[k].tail # NoTail =>
              /\ IsOpen(k) /\ mission'[k].tail = mission[k].tail
              /\ mission'[k].from = mission[k].from
    BY <1>1 DEF Alone, OpenIn, IsOpen
<1> QED
    BY <1>1, <1>2, <1>4, <1>5, HeldStill

LEMMA HeldLeave ==
    ASSUME Typed, Held(tail, mission), NEW m \in Missions, NEW hub \in Airports,
           LeaveFreight(m, hub)
    PROVE  Held(tail', mission')
<1> DEFINE tt == [t \in Tails |-> IF t \in TailsOf(m)
                                  THEN [status |-> "assigned", on |-> m, at |-> hub]
                                  ELSE tail[t]]
<1>1. /\ Typed' /\ Alone({m}) /\ mission[m].status = "in_flight"
      /\ mission'[m].tail = mission[m].tail /\ mission'[m].from = hub
    BY LeaveRows
<1>2. tail' = Healed(tt, mission') /\ IsOpen(m)
    BY <1>1 DEF LeaveFreight, Save, IsOpen, OpenStatuses
<1>3. tt \in [Tails -> Tail]
    BY DEF Typed, Fleet, Tail
<1>4. ASSUME NEW k \in Missions, OpenIn(mission', k), NEW u,
             u = mission'[k].tail, u # NoTail
      PROVE  tt[u] = [status |-> "assigned", on |-> k, at |-> mission'[k].from]
  <2>1. u = mission[k].tail /\ u \in Tails
      BY <1>1, <1>4, RowShape DEF Alone
  <2>2. CASE k = m
    <3>1. u \in TailsOf(m)
        BY <1>4, <2>1, <2>2 DEF TailsOf
    <3> QED
        BY <1>1, <2>1, <2>2, <3>1
  <2>3. CASE k # m
    <3>1. IsOpen(k) /\ mission'[k].from = mission[k].from
        BY <1>1, <1>4, <2>3 DEF Alone, OpenIn, IsOpen
    <3>2. u \notin TailsOf(m)
        BY <1>2, <1>4, <2>1, <2>3, <3>1, HeldAlone
    <3>3. tail[u] = [status |-> "assigned", on |-> k, at |-> mission[k].from]
        BY <1>4, <2>1, <3>1, HeldOf
    <3> QED
        BY <2>1, <3>1, <3>2, <3>3
  <2> QED
      BY <2>2, <2>3
<1> HIDE DEF tt
<1>5. Held(tt, mission')
    BY <1>4 DEF Held
<1> QED
    BY <1>1, <1>2, <1>3, <1>5, HeldSaved

\* The tail lands with the flight and goes on with the next stop; the tails of
\* the other missions are not moved.
LEMMA HeldSettle ==
    ASSUME Typed, LinksAgree, Held(tail, mission), NEW m \in Missions,
           NEW n \in Missions \cup {NoMission}, NEW inspected \in BOOLEAN,
           Settle(m, n, inspected)
    PROVE  Held(tail', mission')
<1>r. AfterSettle(m, n, inspected)
    BY SettleRows
<1> DEFINE onward == [status |-> "assigned", on |-> n, at |-> mission[m].to]
           tt == [t \in Tails |->
                    IF Continues(m, n) /\ ~inspected /\ t = mission[m].tail
                    THEN onward ELSE Landed(m, inspected)[t]]
<1>1. /\ Typed' /\ IsOpen(m) /\ Alone({m} \cup mission[m].loads)
      /\ (Later(m) = {} /\ n = NoMission) \/ n \in Later(m)
    BY <1>r DEF AfterSettle
<1>2. /\ \A q \in mission[m].loads : q \in Missions /\ IsOpen(q)
      /\ mission[m].loads = Here(m) \cup Later(m)
      /\ \A k \in Later(m) : Continues(m, k)
    BY <1>1, LoadsWait
<1>3. tail' = Healed(tt, mission')
    BY DEF Settle, Save
<1>4. tt \in [Tails -> Tail]
  <2>1. Landed(m, inspected) \in [Tails -> Tail]
      BY <1>1, OpenIsPlaced DEF Landed, Typed, Fleet, Tail
  <2>2. onward \in Tail
      BY <1>1, OpenIsPlaced DEF Typed, Tail
  <2> QED
      BY <2>1, <2>2
<1>5. ASSUME NEW k \in Missions, IsOpen(k), k # m, k \notin Here(m), NEW u,
             u = mission[k].tail, u # NoTail
      PROVE  tt[u] = [status |-> "assigned", on |-> k, at |-> mission[k].from]
  <2>1. tail[u] = [status |-> "assigned", on |-> k, at |-> mission[k].from]
        /\ tail[u].on = k /\ u \in Tails
      BY <1>5, HeldOf, RowShape
  <2>2. u \notin TailsOf(m)
      BY <1>1, <1>5, HeldAlone
  <2>3. u # mission[m].tail
      BY <1>5, <2>2 DEF TailsOf
  <2>4. Landed(m, inspected)[u] = tail[u]
      BY <1>5, <2>1, <2>2 DEF Landed, Landing
  <2> QED
      BY <2>1, <2>3, <2>4
<1>6. ASSUME NEW k \in Missions, OpenIn(mission', k), k \notin Later(m)
      PROVE  IsOpen(k) /\ k # m /\ k \notin Here(m) /\ mission'[k] = mission[k]
  <2>1. k # m /\ k \notin Here(m)
      BY <1>6, <1>r DEF AfterSettle, OpenIn, OpenStatuses, Waiting
  <2> QED
      BY <1>1, <1>2, <1>6, <2>1 DEF Alone, OpenIn, IsOpen
<1>7. ASSUME NEW k \in Later(m) \ {n}
      PROVE  /\ k \in Missions /\ IsOpen(k) /\ k # m /\ k \notin Here(m)
             /\ mission'[k].tail = mission[k].tail
             /\ mission'[k].from = mission[k].from
  <2>1. k \in Missions /\ IsOpen(k) /\ k # m /\ k \notin Here(m)
      BY <1>1, <1>2, LoadsWait
  <2> QED
      BY <1>r, <2>1 DEF AfterSettle
<1>8. ASSUME n \in Later(m), NEW u, u = mission'[n].tail, u # NoTail
      PROVE  tt[u] = [status |-> "assigned", on |-> n, at |-> mission'[n].from]
  <2>1. /\ mission'[n].from = mission[m].to
        /\ mission'[n].tail = (IF inspected THEN NoTail ELSE mission[m].tail)
      BY <1>8, <1>r DEF AfterSettle
  <2>2. ~inspected /\ u = mission[m].tail /\ u \in Tails
      BY <1>8, <2>1, RowShape
  <2>3. Continues(m, n)
      BY <1>2, <1>8
  <2> QED
      BY <2>1, <2>2, <2>3
<1> HIDE DEF tt
<1>9. ASSUME NEW k \in Missions, OpenIn(mission', k), NEW u, u = mission'[k].tail,
             u # NoTail
      PROVE  tt[u] = [status |-> "assigned", on |-> k, at |-> mission'[k].from]
  <2>1. CASE k \notin Later(m)
      BY <1>5, <1>6, <1>9, <2>1
  <2>2. CASE k \in Later(m) /\ k # n
      BY <1>5, <1>7, <1>9, <2>2
  <2>3. CASE k \in Later(m) /\ k = n
      BY <1>8, <1>9, <2>3
  <2> QED
      BY <2>1, <2>2, <2>3
<1>10. Held(tt, mission')
    BY <1>9 DEF Held
<1> QED
    BY <1>1, <1>3, <1>4, <1>10, HeldSaved

LEMMA HeldNext ==
    ASSUME ~RiderWatched, Typed, LinksAgree, Held(tail, mission), [Next]_vars
    PROVE  Held(tail', mission')
<1>1. ASSUME NEW m \in Missions, NEW to \in Airports, NEW from \in Airports,
             NEW t \in Tails \cup {NoTail}, Accept(m, from, to, t)
      PROVE  Held(tail', mission')
    BY <1>1, HeldAccept
<1>2. ASSUME NEW r \in Missions, NEW h \in Missions, NEW to \in Airports,
             AddDeskHold(h, r, to)
      PROVE  Held(tail', mission')
    BY <1>2, HeldAddDeskHold
<1>3. ASSUME NEW h \in Missions, NEW r \in Missions, AddCargoStop(h, r)
      PROVE  Held(tail', mission')
  <2>1. /\ Typed' /\ Alone({h, r}) /\ IsOpen(h) /\ IsOpen(r)
        /\ mission'[h].tail = mission[h].tail /\ mission'[r].tail = mission[r].tail
        /\ mission'[h].from = mission[h].from /\ mission'[r].from = mission[r].from
      BY <1>3, AddCargoStopRows
  <2>2. tail' = Healed(tail, mission')
      BY <1>3 DEF AddCargoStop, Save
  <2>3. \A k \in Missions :
            OpenIn(mission', k) /\ mission'[k].tail # NoTail =>
                /\ IsOpen(k) /\ mission'[k].tail = mission[k].tail
                /\ mission'[k].from = mission[k].from
      BY <2>1 DEF Alone, OpenIn, IsOpen
  <2> QED
      BY <2>1, <2>2, <2>3, HeldStill
<1>4. ASSUME NEW h \in Missions, NEW r \in Missions, DropStop(h, r)
      PROVE  Held(tail', mission')
  <2>1. /\ Typed' /\ IsOpen(r) /\ IsOpen(h) /\ Alone({h, r})
        /\ tail' = Healed(Stood({r}), mission') /\ mission'[r].status = "cancelled"
        /\ mission'[h].tail = mission[h].tail /\ mission'[h].from = mission[h].from
      BY <1>4, DropRows
  <2>2. /\ \A k \in {r} : ~OpenIn(mission', k) /\ IsOpen(k)
        /\ {r} \in SUBSET Missions
      BY <2>1 DEF OpenIn, OpenStatuses, Waiting
  <2>3. \A k \in Missions \ {r} :
            /\ OpenIn(mission', k) => IsOpen(k)
            /\ mission'[k].tail = mission[k].tail
            /\ mission'[k].from = mission[k].from
      BY <2>1 DEF Alone, OpenIn, IsOpen
  <2> QED
      BY <2>1, <2>2, <2>3, HeldStood
<1>5. ASSUME NEW m \in Missions, EditLoads(m) PROVE Held(tail', mission')
  <2>1. tail' = Healed(tail, mission')
      BY <1>5 DEF EditLoads, Save
  <2> QED
      BY <1>5, <2>1, EditRows, HeldStatus
<1>6. ASSUME NEW m \in Missions, Dispatch(m) \/ RevertFalseDepart(m)
      PROVE  Held(tail', mission')
  <2>1. tail' = Healed(tail, mission')
      BY <1>6 DEF Dispatch, RevertFalseDepart, Save
  <2> QED
      BY <1>6, <2>1, DispatchRows, HeldStatus
<1>7. ASSUME NEW m \in Missions, Depart(m) PROVE Held(tail', mission')
  <2>1. tail' = Healed(tail, mission')
      BY <1>7 DEF Depart, Save
  <2> QED
      BY <1>7, <2>1, DepartRows, HeldStatus
<1>8. ASSUME NEW m \in Missions, NEW hub \in Airports, LeaveFreight(m, hub)
      PROVE  Held(tail', mission')
    BY <1>8, HeldLeave
<1>9. ASSUME NEW m \in Missions, NEW n \in Missions \cup {NoMission},
             NEW inspected \in BOOLEAN, Settle(m, n, inspected)
      PROVE  Held(tail', mission')
    BY <1>9, HeldSettle
<1>10. ASSUME NEW m \in Missions, Cancel(m) PROVE Held(tail', mission')
    BY <1>10, CancelRows, HeldEnds
<1>11. ASSUME NEW m \in Missions, Impact(m) PROVE Held(tail', mission')
  <2>1. /\ Typed' /\ IsOpen(m) /\ Alone({m}) /\ mission'[m].status = "failed"
      BY <1>11, ImpactRows
  <2>2. tail' = Healed(Stood({m}), mission')
      BY <1>11 DEF Impact, Save
  <2>3. /\ \A k \in {m} : ~OpenIn(mission', k) /\ IsOpen(k)
        /\ {m} \in SUBSET Missions
      BY <2>1 DEF OpenIn, OpenStatuses, Waiting
  <2>4. \A k \in Missions \ {m} :
            /\ OpenIn(mission', k) => IsOpen(k)
            /\ mission'[k].tail = mission[k].tail
            /\ mission'[k].from = mission[k].from
      BY <2>1 DEF Alone, OpenIn, IsOpen
  <2> QED
      BY <2>1, <2>2, <2>3, <2>4, HeldStood
<1>12. ASSUME NEW E \in SUBSET Missions, ExpireStale(E) PROVE Held(tail', mission')
    BY <1>12, ExpireRows, HeldEnds
<1>13. ASSUME NEW t \in Tails, ReturnToService(t) PROVE Held(tail', mission')
  <2> DEFINE tt == [tail EXCEPT ![t].status = "parked"]
  <2>1. Typed' /\ mission' = mission
      BY <1>13, ShopRows
  <2>2. tail' = Healed(tt, mission') /\ tail[t].status = "maintenance"
      BY <1>13 DEF ReturnToService, Save
  <2>3. tt \in [Tails -> Tail] /\ \A u \in Tails \ {t} : tt[u] = tail[u]
      BY DEF Typed, Fleet, Tail
  <2> HIDE DEF tt
  <2>4. ASSUME NEW k \in Missions, OpenIn(mission', k), NEW u, u = mission'[k].tail,
               u # NoTail
        PROVE  tt[u] = [status |-> "assigned", on |-> k, at |-> mission'[k].from]
    <3>1. IsOpen(k) /\ u = mission[k].tail /\ u \in Tails
        BY <2>1, <2>4, RowShape DEF OpenIn, IsOpen
    <3>2. tail[u] = [status |-> "assigned", on |-> k, at |-> mission[k].from]
          /\ tail[u].status = "assigned"
        BY <2>4, <3>1, HeldOf
    <3> QED
        BY <2>1, <2>2, <2>3, <3>1, <3>2
  <2>5. Held(tt, mission')
      BY <2>4 DEF Held
  <2> QED
      BY <2>1, <2>2, <2>3, <2>5, HeldSaved
<1>14. CASE UNCHANGED vars
    BY <1>14 DEF vars, Held, OpenIn
<1> QED
    BY <1>1, <1>2, <1>3, <1>4, <1>5, <1>6, <1>7, <1>8, <1>9, <1>10, <1>11, <1>12,
       <1>13, <1>14 DEF Next, Open, Trip, Fly, Housekeeping

\* A flight on the ground that names a tail has it, at its origin and assigned
\* to it.  (assignAircraftToMission, continueCargoTripAfterSettle,
\* reconcileFleetAssignments, cancelOrphanPlayerMissions)
THEOREM TripTailReady == ASSUME ~RiderWatched PROVE Spec => []TailReady
<1> DEFINE H == Held(tail, mission)
<1>1. Typed /\ LinksAgree /\ H /\ [Next]_vars => (Typed /\ LinksAgree /\ H)'
    BY TripNext, HeldNext
<1>2. Init => H
    BY DEF Init, Held, OpenIn, Blank, OpenStatuses, Waiting
<1>3. H => TailReady
    BY HeldIsReady
<1> QED
    BY <1>1, <1>2, <1>3, TripInit, PTL DEF Spec

=============================================================================
