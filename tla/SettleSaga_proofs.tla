-------------------------- MODULE SettleSaga_proofs --------------------------
(***************************************************************************)
(* Proofs about SettleSaga, for every fleet of contracts, every set of     *)
(* companies and requests, and every bound.                                *)
(***************************************************************************)
EXTENDS SettleSaga, TLAPS

\* No money moved for a mission that is not settled.
Untouched ==
    \A m \in Missions \ settled : debit[m] = 0 /\ credit[m] = 0 /\ lost[m] = 0

\* What the landing of a flight may change.
LEMMA LandsTyped ==
    ASSUME TypeOK, NEW m \in Missions, NEW share \in Nat, Lands(m, share)
    PROVE  /\ settled' \subseteq Missions /\ closed' = closed
           /\ paid' \in Counts /\ debit' \in Counts
           /\ xp' \in [Companies -> SUBSET Missions]
           /\ place' \in [Companies -> Missions \cup {NoMission}]
<1>1. Landing(m) \subseteq Missions
    BY SagaAssumption DEF Landing
<1>2. paid \in [Missions -> Nat] /\ debit \in [Missions -> Nat]
    BY DEF TypeOK, Counts
<1>3. \A n \in Missions :
          /\ paid[n] + (IF n \in Landing(m) THEN 1 ELSE 0) \in Nat
          /\ debit[n] + (IF n \in Landing(m) /\ Crossing(n) THEN share ELSE 0) \in Nat
    BY <1>2
<1>4. paid' \in Counts /\ debit' \in Counts
    BY <1>3 DEF Lands, Counts
<1> QED
    BY <1>1, <1>4 DEF Lands, TypeOK

-----------------------------------------------------------------------------
(* Types.                                                                  *)

LEMMA IdleTyped ==
    /\ Idle \in Request /\ Holding(Idle)
    /\ Idle.pc = "idle" /\ Idle.m = NoMission /\ Idle.bag = {}
    /\ Idle.due = 0 /\ Idle.applied = FALSE
BY SagaAssumption DEF Idle, Request, Stages, Holding

\* A request that is under way has a mission.
LEMMA HasMission ==
    ASSUME TypeOK, NEW r \in Requests, ~At(r, "idle")
    PROVE  /\ req[r].m \in Missions /\ req[r] \in Request /\ Holding(req[r])
           /\ Ops[req[r].m] \in Companies /\ Home[req[r].m] \in Companies
<1>1. req[r] \in Request /\ Holding(req[r])
    BY DEF TypeOK
<1>2. req[r].m \in Missions
    BY <1>1 DEF Request, Holding, At
<1> QED
    BY <1>1, <1>2, SagaAssumption

\* A request that goes on to a sound state leaves all of them sound.
LEMMA GoesTyped ==
    ASSUME TypeOK, NEW r \in Requests, NEW q \in Request, Holding(q), Goes(r, q)
    PROVE  /\ req' \in [Requests -> Request]
           /\ \A s \in Requests : Holding(req'[s])
           /\ req'[r] = q /\ \A s \in Requests \ {r} : req'[s] = req[s]
BY DEF TypeOK, Goes

LEMMA SagaTypeInit == Init => TypeOK
<1> SUFFICES ASSUME Init PROVE TypeOK
    OBVIOUS
<1>1. req \in [Requests -> Request] /\ \A r \in Requests : Holding(req[r])
    BY IdleTyped DEF Init
<1>2. 1 \in 1..MaxCut /\ {MaxAsks, MaxFaults, MaxChanges} \subseteq Nat
    BY SagaAssumption
<1>3. cut \in [Companies -> 1..MaxCut]
    BY <1>2 DEF Init
<1>4. asks \in 0..MaxAsks /\ faults \in 0..MaxFaults /\ changes \in 0..MaxChanges
    BY <1>2 DEF Init
<1> QED
    BY <1>1, <1>3, <1>4 DEF Init, TypeOK, Counts

LEMMA SagaTypeNext == TypeOK /\ [Next]_vars => TypeOK'
<1> SUFFICES ASSUME TypeOK, [Next]_vars PROVE TypeOK'
    OBVIOUS
<1>0. MaxAsks \in Nat /\ MaxFaults \in Nat /\ MaxChanges \in Nat
    BY SagaAssumption
<1>2. ASSUME NEW r \in Requests, NEW m \in Missions, Ask(r, m) PROVE TypeOK'
  <2> DEFINE q == [Idle EXCEPT !.pc = "asked", !.m = m]
  <2>a. m # NoMission
      BY SagaAssumption
  <2>b. q \in Request
      BY IdleTyped DEF Request, Stages
  <2>c. q.pc = "asked" /\ q.m = m /\ q.applied = FALSE /\ q.due = 0
      BY DEF Idle
  <2>1. q \in Request /\ Holding(q)
      BY <2>a, <2>b, <2>c DEF Holding
  <2>2. overlapped' \in BOOLEAN /\ asks' \in 0..MaxAsks
      BY <1>0, <1>2 DEF Ask, Begins, TypeOK, Busy
  <2> HIDE DEF q
  <2> QED
      BY <1>2, <2>1, <2>2, GoesTyped
         DEF q, Ask, TypeOK, airline, home, ladders
<1>3. ASSUME NEW r \in Requests, ReadCut(r) PROVE TypeOK'
  <2> DEFINE q == [req[r] EXCEPT !.pc = "peek", !.cut = cut[Ops[req[r].m]]]
  <2>0. ~At(r, "idle") /\ req[r].pc = "asked"
      BY <1>3 DEF ReadCut, At
  <2>1. cut[Ops[req[r].m]] \in 0..MaxCut
      BY <2>0, HasMission, SagaAssumption DEF TypeOK
  <2>2. q \in Request /\ Holding(q)
      BY <2>0, <2>1, HasMission DEF Request, Stages, Holding
  <2> QED
      BY <1>3, <2>2, GoesTyped
         DEF ReadCut, TypeOK, airline, home, ladders, bounds
<1>4. ASSUME NEW r \in Requests, ReadHome(r) PROVE TypeOK'
  <2> DEFINE b == IF Crossing(req[r].m) THEN xp[Home[req[r].m]] ELSE {}
             q == [req[r] EXCEPT !.pc = "write", !.bag = b]
  <2>0. ~At(r, "idle") /\ req[r].pc = "peek"
      BY <1>4 DEF ReadHome, At
  <2>1. b \in SUBSET Missions
      BY <2>0, HasMission DEF TypeOK
  <2> HIDE DEF b
  <2>2. q \in Request /\ Holding(q)
      BY <2>0, <2>1, HasMission DEF Request, Stages, Holding
  <2> QED
      BY <1>4, <2>2, GoesTyped
         DEF b, ReadHome, TypeOK, airline, home, ladders, bounds
<1>5. ASSUME NEW r \in Requests, Settle(r) PROVE TypeOK'
  <2> DEFINE m == req[r].m
             share == IF Crossing(m) THEN req[r].cut ELSE 0
             q == [req[r] EXCEPT !.pc = "home", !.applied = TRUE,
                                 !.bag = @ \cup {m}, !.due = share]
  <2>0. ~At(r, "idle") /\ req[r].pc = "write"
      BY <1>5 DEF Settle, At
  <2>1. m \in Missions /\ req[r] \in Request /\ Holding(req[r])
      BY <2>0, HasMission
  <2>2. req[r].cut \in 0..MaxCut /\ req[r].cut \in Nat /\ share \in 0..MaxCut
      BY <2>1, SagaAssumption DEF Request
  <2> HIDE DEF share
  <2>3. q \in Request /\ Holding(q)
      BY <2>0, <2>1, <2>2 DEF Request, Stages, Holding
  <2>4. Lands(m, req[r].cut) /\ Goes(r, q)
      BY <1>5 DEF Settle, share
  <2> QED
      BY <1>5, <2>1, <2>2, <2>3, <2>4, LandsTyped, GoesTyped
         DEF Settle, TypeOK, home, bounds
<1>6. ASSUME NEW r \in Requests, SettleAgain(r) PROVE TypeOK'
  <2> DEFINE q == [req[r] EXCEPT !.pc = "home"]
  <2>0. ~At(r, "idle") /\ req[r].pc = "write"
      BY <1>6 DEF SettleAgain, At
  <2>1. q \in Request /\ Holding(q)
      BY <2>0, HasMission DEF Request, Stages, Holding
  <2> QED
      BY <1>6, <2>1, GoesTyped
         DEF SettleAgain, TypeOK, airline, home, ladders, bounds
<1>7. ASSUME NEW r \in Requests, SettleRefused(r) PROVE TypeOK'
    BY <1>7, IdleTyped, GoesTyped
       DEF SettleRefused, TypeOK, airline, home, ladders, bounds
<1>8. ASSUME NEW r \in Requests, HomeWrite(r) PROVE TypeOK'
  <2> DEFINE q == [req[r] EXCEPT !.pc = IF req[r].due > 0 THEN "credit" ELSE "stats"]
  <2>0. ~At(r, "idle") /\ req[r].pc = "home"
      BY <1>8 DEF HomeWrite, At
  <2>1. req[r].m \in Missions /\ req[r].bag \in SUBSET Missions
      BY <2>0, HasMission DEF Request
  <2>2. q \in Request /\ Holding(q)
      BY <2>0, HasMission DEF Request, Stages, Holding
  <2>3. hours' \in Counts
      BY <1>8, <2>1 DEF HomeWrite, Homecoming, TypeOK, Counts
  <2>4. xp' \in [Companies -> SUBSET Missions]
      BY <1>8, <2>1 DEF HomeWrite, Homecoming, TypeOK
  <2>5. place' \in [Companies -> Missions \cup {NoMission}]
      BY <1>8, <2>1 DEF HomeWrite, Homecoming, TypeOK
  <2> QED
      BY <1>8, <2>2, <2>3, <2>4, <2>5, GoesTyped DEF HomeWrite, TypeOK, airline, bounds
<1>9. ASSUME NEW r \in Requests, Credit(r) PROVE TypeOK'
  <2> DEFINE q == [req[r] EXCEPT !.pc = "stats", !.due = 0]
  <2>0. ~At(r, "idle") /\ req[r].pc = "credit"
      BY <1>9 DEF Credit, At
  <2>1. req[r].m \in Missions /\ req[r].due \in Nat
      BY <2>0, HasMission, SagaAssumption DEF Request
  <2>a. 0 \in 0..MaxCut
      BY SagaAssumption
  <2>b. q \in Request
      BY <2>0, <2>a, HasMission DEF Request, Stages
  <2>c. Holding(q)
      BY <2>0, HasMission DEF Request, Holding
  <2>2. q \in Request /\ Holding(q)
      BY <2>b, <2>c
  <2>3. credit' \in Counts
      BY <1>9, <2>1 DEF Credit, TypeOK, Counts
  <2> QED
      BY <1>9, <2>2, <2>3, GoesTyped
         DEF Credit, TypeOK, airline, ladders, bounds
<1>10. ASSUME NEW r \in Requests, Record(r) PROVE TypeOK'
  <2>1. ~At(r, "idle")
      BY <1>10 DEF Record, At
  <2>2. stats' \in Counts
      BY <1>10, <2>1, HasMission DEF Record, TypeOK, Counts
  <2> QED
      BY <1>10, <2>2, IdleTyped, GoesTyped
         DEF Record, TypeOK, airline, home, ladders, bounds
<1>11. ASSUME NEW m \in Missions, WatchSettles(m) PROVE TypeOK'
  <2>1. overlapped' \in BOOLEAN /\ asks' \in 0..MaxAsks
      BY <1>0, <1>11 DEF WatchSettles, Begins, TypeOK, Busy
  <2>2. hours' \in Counts
      BY <1>11 DEF WatchSettles, TypeOK, Counts
  <2>3. CASE m \in settled
      BY <1>11, <2>1, <2>2, <2>3 DEF WatchSettles, TypeOK, airline, ladders
  <2>4. CASE m \notin settled
    <3>1. Lands(m, 0)
        BY <1>11, <2>4 DEF WatchSettles
    <3> QED
        BY <1>11, <2>1, <2>2, <3>1, LandsTyped DEF WatchSettles, TypeOK
  <2> QED
      BY <2>3, <2>4
<1>12. ASSUME NEW m \in Missions, Cancel(m) PROVE TypeOK'
    BY <1>12, SagaAssumption DEF Cancel, Landing, TypeOK, home, ladders, bounds
<1>13. ASSUME NEW c \in Listed, NEW p \in 0..(MaxCut + 1), SetCut(c, p)
       PROVE  TypeOK'
  <2>1. (IF p < 1 THEN 1 ELSE IF p > MaxCut THEN MaxCut ELSE p) \in 1..MaxCut
    <3>1. MaxCut \in Nat /\ 1 <= MaxCut
        BY SagaAssumption
    <3>2. p \in Nat
        OBVIOUS
    <3>3. CASE p < 1
        BY <3>1, <3>3
    <3>4. CASE p > MaxCut
        BY <3>1, <3>2, <3>4
    <3>5. CASE ~(p < 1) /\ ~(p > MaxCut)
        BY <3>1, <3>2, <3>5
    <3> QED
        BY <3>3, <3>4, <3>5
  <2> DEFINE v == IF p < 1 THEN 1 ELSE IF p > MaxCut THEN MaxCut ELSE p
  <2>a. cut' = [cut EXCEPT ![c] = v]
      BY <1>13 DEF SetCut
  <2>b. v \in 1..MaxCut
      BY <2>1
  <2>c. changes' \in 0..MaxChanges
      BY <1>0, <1>13 DEF SetCut, TypeOK
  <2> HIDE DEF v
  <2>2. cut' \in [Companies -> 1..MaxCut] /\ changes' \in 0..MaxChanges
      BY <2>a, <2>b, <2>c DEF TypeOK
  <2> QED
      BY <1>13, <2>2 DEF SetCut, TypeOK, airline, home, ladders
<1>14. ASSUME NEW rs \in SUBSET Requests, Dropped(rs) PROVE TypeOK'
  <2>1. req' \in [Requests -> Request] /\ \A r \in Requests : Holding(req'[r])
      BY <1>14, IdleTyped DEF Dropped, TypeOK
  <2>2. lost' \in Counts /\ faults' \in 0..MaxFaults
      BY <1>0, <1>14 DEF Dropped, TypeOK, Counts
  <2> QED
      BY <1>14, <2>1, <2>2 DEF Dropped, TypeOK, airline, home, ladders
<1>15. CASE UNCHANGED vars
    BY <1>15 DEF vars, airline, home, ladders, bounds, TypeOK
<1> QED
    BY <1>2, <1>3, <1>4, <1>5, <1>6, <1>7, <1>8, <1>9, <1>10, <1>11, <1>12,
       <1>13, <1>14, <1>15 DEF Next, RequestStep, Fails, Crash

\* Every variable of a settlement keeps its type, and what is due to a pilot
\* is only ever held by a request that settled the flight.  (POST /api/settle)
THEOREM SagaTypeCorrect == Spec => []TypeOK
BY SagaTypeInit, SagaTypeNext, PTL DEF Spec

-----------------------------------------------------------------------------
(* A flight is paid once.                                                  *)

LEMMA LandsPaidOnce ==
    ASSUME TypeOK, PaidOnce, NEW m \in Missions, NEW share, Lands(m, share)
    PROVE  PaidOnce'
BY DEF Lands, Landing, PaidOnce, TypeOK, Counts

LEMMA PaidOnceNext == TypeOK /\ PaidOnce /\ [Next]_vars => PaidOnce'
<1> SUFFICES ASSUME TypeOK, PaidOnce, [Next]_vars PROVE PaidOnce'
    OBVIOUS
<1>1. ASSUME NEW r \in Requests, Settle(r) PROVE PaidOnce'
  <2>1. req[r].m \in Missions /\ Lands(req[r].m, req[r].cut)
      BY <1>1, HasMission DEF Settle, At
  <2> QED
      BY <2>1, LandsPaidOnce
<1>2. ASSUME NEW m \in Missions, WatchSettles(m) PROVE PaidOnce'
  <2>1. CASE m \in settled
      BY <1>2, <2>1 DEF WatchSettles, airline, PaidOnce
  <2>2. CASE m \notin settled
      BY <1>2, <2>2, LandsPaidOnce DEF WatchSettles
  <2> QED
      BY <2>1, <2>2
<1>3. ASSUME NEW m \in Missions, Cancel(m) PROVE PaidOnce'
    BY <1>3 DEF Cancel, Landing, PaidOnce
<1>4. CASE UNCHANGED airline
    BY <1>4 DEF airline, PaidOnce
<1> QED
    BY <1>1, <1>2, <1>3, <1>4
       DEF Next, RequestStep, Ask, ReadCut, ReadHome, SettleAgain,
           SettleRefused, HomeWrite, Credit, Record, Fails, Crash, Dropped,
           SetCut, vars

\* However often a settlement is sent, a flight is paid once, and a cancelled
\* one never.  (executeSettleFlight)
THEOREM FlightsPaidOnce == Spec => []PaidOnce
<1>1. Init => PaidOnce
    BY DEF Init, PaidOnce
<1> QED
    BY <1>1, SagaTypeCorrect, PaidOnceNext, PTL DEF Spec

-----------------------------------------------------------------------------
(* What leaves the airline arrives.  Written for one mission and one       *)
(* request at a time, CutConserved is Balanced; it is kept because only    *)
(* the request that settled a flight is ever owed to (OwedSettled).        *)

\* No rider of a mission pays a cut: the loop over the co-settled ones does
\* not keep what is due to their pilots.
RidersAtHome == \A m \in Missions : \A n \in Riders[m] : ~Crossing(n)

Owes(r, m) == req[r].m = m /\ req[r].due > 0

OwedSettled == \A r \in Requests : req[r].applied => req[r].m \in settled

Balanced(m) ==
    /\ (\A r \in Requests : ~Owes(r, m)) => debit[m] = credit[m] + lost[m]
    /\ \A r \in Requests : Owes(r, m) =>
           /\ \A s \in Requests : Owes(s, m) => s = r
           /\ debit[m] = req[r].due /\ credit[m] = 0 /\ lost[m] = 0

Money == Untouched /\ OwedSettled /\ \A m \in Missions : Balanced(m)

LEMMA MoneyInit == Init => Money
<1> SUFFICES ASSUME Init PROVE Money
    OBVIOUS
<1>1. \A r \in Requests : req[r].applied = FALSE /\ req[r].due = 0
    BY IdleTyped DEF Init
<1>2. \A m \in Missions : debit[m] = 0 /\ credit[m] = 0 /\ lost[m] = 0
    BY DEF Init
<1>3. \A m \in Missions : Balanced(m)
    BY <1>1, <1>2 DEF Balanced, Owes
<1> QED
    BY <1>1, <1>2, <1>3 DEF Money, Untouched, OwedSettled

LEMMA MoneyCut == Money => CutConserved
BY DEF Money, Balanced, Owes, CutConserved

\* A step of a request that moves no money and owes what it owed.
LEMMA MoneyKept ==
    ASSUME TypeOK, Money, UNCHANGED <<settled, debit, credit, lost>>,
           \A r \in Requests :
               /\ req'[r].due = req[r].due
               /\ req[r].due > 0 => req'[r].m = req[r].m
               /\ req'[r].applied => req[r].applied /\ req'[r].m = req[r].m
    PROVE  Money'
<1>1. \A r \in Requests, m \in Missions : Owes(r, m)' <=> Owes(r, m)
  <2>1. \A r \in Requests : req'[r].due > 0 => req'[r].m = req[r].m
      OBVIOUS
  <2> QED
      BY <2>1 DEF Owes
<1>2. \A m \in Missions : Balanced(m)'
    BY <1>1 DEF Money, Balanced
<1> QED
    BY <1>2 DEF Money, Untouched, OwedSettled

LEMMA GoesTo ==
    ASSUME TypeOK, NEW r \in Requests, NEW q, Goes(r, q)
    PROVE  req'[r] = q /\ \A s \in Requests \ {r} : req'[s] = req[s]
BY DEF TypeOK, Goes

\* Nothing is owed before a settlement was applied, nor by what is over.
LEMMA OwesNothing ==
    ASSUME TypeOK, NEW r \in Requests,
           req[r].pc \in {"idle", "asked", "peek", "write", "stats"}
    PROVE  /\ req[r].due = 0
           /\ req[r].pc # "stats" => req[r].applied = FALSE
<1>1. req[r] \in Request /\ Holding(req[r])
    BY DEF TypeOK
<1>2. req[r].applied \in BOOLEAN /\ req[r].due \in 0..MaxCut /\ MaxCut \in Nat
    BY <1>1, SagaAssumption DEF Request
<1> QED
    BY <1>1, <1>2 DEF Holding

\* Riders at home leave the airline's account alone.
LEMMA LandsDebit ==
    ASSUME TypeOK, RidersAtHome, NEW m \in Missions, NEW share \in Nat,
           m \notin settled \cup closed, Lands(m, share)
    PROVE  /\ settled' = settled \cup Landing(m) /\ m \in settled'
           /\ \A n \in Missions \ {m} : debit'[n] = debit[n]
           /\ debit'[m] = debit[m] + IF Crossing(m) THEN share ELSE 0
<1>1. \A n \in Missions : debit[n] \in Nat
    BY DEF TypeOK, Counts
<1>2. m \in Landing(m)
    BY DEF Landing
<1>3. \A n \in Landing(m) \ {m} : ~Crossing(n)
    BY DEF Landing, RidersAtHome
<1>4. \A n \in Missions : debit'[n] = debit[n] +
          IF n \in Landing(m) /\ Crossing(n) THEN share ELSE 0
    BY DEF Lands
<1>5. ASSUME NEW n \in Missions \ {m} PROVE debit'[n] = debit[n]
    BY <1>1, <1>3, <1>4
<1>6. debit'[m] = debit[m] + IF Crossing(m) THEN share ELSE 0
    BY <1>2, <1>4
<1> QED
    BY <1>2, <1>5, <1>6 DEF Lands

\* Write 1: the flight had no money moved, and this request owes its cut.
LEMMA SettleMoney ==
    ASSUME TypeOK, Money, RidersAtHome, NEW r \in Requests, Settle(r)
    PROVE  Money'
<1>0. ~At(r, "idle") /\ req[r].pc = "write"
    BY DEF Settle, At
<1>a. PICK m \in Missions : m = req[r].m
    BY <1>0, HasMission
<1>b. PICK share : share = IF Crossing(m) THEN req[r].cut ELSE 0
    OBVIOUS
<1> DEFINE q == [req[r] EXCEPT !.pc = "home", !.applied = TRUE,
                               !.bag = @ \cup {m}, !.due = share]
<1>1. req[r] \in Request
    BY <1>0, HasMission
<1>2. req[r].cut \in Nat /\ share \in Nat
    BY <1>1, <1>b, SagaAssumption DEF Request
<1>3. /\ settled' = settled \cup Landing(m) /\ m \in settled' /\ m \notin settled
      /\ \A n \in Missions \ {m} : debit'[n] = debit[n]
      /\ debit'[m] = debit[m] + share
    BY <1>a, <1>b, <1>2, LandsDebit DEF Settle
<1>4. req'[r] = q /\ \A s \in Requests \ {r} : req'[s] = req[s]
    BY <1>a, <1>b, GoesTo DEF Settle
<1>5. req'[r].m = m /\ req'[r].due = share /\ req[r].due = 0
    BY <1>0, <1>1, <1>4, <1>a, OwesNothing DEF Request
<1>6. credit' = credit /\ lost' = lost
    BY DEF Settle, home
<1>7. debit[m] = 0 /\ credit[m] = 0 /\ lost[m] = 0
    BY <1>3 DEF Money, Untouched
<1> HIDE DEF q
<1>c. ASSUME NEW s \in Requests PROVE ~Owes(s, m)
    BY <1>3 DEF Money, OwedSettled, Owes, TypeOK, Holding
<1>8. \A s \in Requests \ {r} : ~Owes(s, m)'
    BY <1>4, <1>c DEF Owes
<1>9. Balanced(m)'
  <2>1. debit'[m] = share /\ credit'[m] = 0 /\ lost'[m] = 0
      BY <1>2, <1>3, <1>6, <1>7
  <2>2. CASE share > 0
      BY <1>5, <1>8, <2>1, <2>2 DEF Balanced, Owes
  <2>3. CASE ~(share > 0)
      BY <1>2, <1>5, <1>8, <2>1, <2>3 DEF Balanced, Owes
  <2> QED
      BY <2>2, <2>3
<1>10. ASSUME NEW n \in Missions \ {m} PROVE Balanced(n)'
  <2>1. ~Owes(r, n) /\ ~Owes(r, n)'
      BY <1>5, <1>a DEF Owes
  <2>2. \A s \in Requests : Owes(s, n)' <=> Owes(s, n)
      BY <1>4, <2>1 DEF Owes
  <2>3. debit'[n] = debit[n] /\ credit'[n] = credit[n] /\ lost'[n] = lost[n]
      BY <1>3, <1>6
  <2> QED
      BY <1>4, <2>1, <2>2, <2>3 DEF Money, Balanced
<1>11. OwedSettled'
    BY <1>3, <1>4, <1>5 DEF Money, OwedSettled
<1>12. Untouched'
    BY <1>3, <1>6 DEF Money, Untouched
<1> QED
    BY <1>9, <1>10, <1>11, <1>12 DEF Money

\* Write 3: what is owed moves to the home.
LEMMA CreditMoney ==
    ASSUME TypeOK, Money, NEW r \in Requests, Credit(r)
    PROVE  Money'
<1> DEFINE q == [req[r] EXCEPT !.pc = "stats", !.due = 0]
<1>0. ~At(r, "idle")
    BY DEF Credit, At
<1>a. PICK m \in Missions : m = req[r].m
    BY <1>0, HasMission
<1>1. req[r] \in Request /\ req[r].due \in Nat
    BY <1>0, HasMission, SagaAssumption DEF Request
<1>2. req'[r] = q /\ \A s \in Requests \ {r} : req'[s] = req[s]
    BY GoesTo DEF Credit
<1>3. req'[r].m = m /\ req'[r].due = 0 /\ req'[r].applied = req[r].applied
    BY <1>1, <1>2, <1>a DEF Request
<1>4. settled' = settled /\ debit' = debit /\ lost' = lost
    BY DEF Credit, airline
<1>5. \A n \in Missions : credit[n] \in Nat /\ debit[n] \in Nat /\ lost[n] \in Nat
    BY DEF TypeOK, Counts
<1>6. /\ credit'[m] = credit[m] + req[r].due
      /\ \A n \in Missions \ {m} : credit'[n] = credit[n]
  <2>1. credit' = [credit EXCEPT ![m] = @ + req[r].due]
      BY <1>a DEF Credit
  <2>2. credit \in [Missions -> Nat]
      BY DEF TypeOK, Counts
  <2> QED
      BY <2>1, <2>2
<1> HIDE DEF q
<1>7. ASSUME NEW s \in Requests
      PROVE  req'[s].m = req[s].m /\ (Owes(s, m)' <=> Owes(s, m) /\ s # r)
  <2>1. ~(req'[r].due > 0)
      BY <1>3
  <2>2. req'[r].m = req[r].m
      BY <1>3, <1>a
  <2>3. req'[s].m = req[s].m
      BY <1>2, <2>2
  <2>5. CASE s = r
      BY <2>1, <2>3, <2>5 DEF Owes
  <2>6. CASE s # r
      BY <1>2, <2>3, <2>6 DEF Owes
  <2> QED
      BY <2>5, <2>6
<1>8. ASSUME NEW n \in Missions \ {m} PROVE Balanced(n)'
  <2>2. ~Owes(r, n) /\ ~Owes(r, n)'
      BY <1>3, <1>a DEF Owes
  <2>1. \A s \in Requests : Owes(s, n)' <=> Owes(s, n)
      BY <1>2, <2>2 DEF Owes
  <2> QED
      BY <1>2, <1>4, <1>6, <2>1, <2>2 DEF Money, Balanced
<1>9. Balanced(m)'
  <2>1. CASE Owes(r, m)
    <3>1. /\ \A s \in Requests : Owes(s, m) => s = r
          /\ debit[m] = req[r].due /\ credit[m] = 0 /\ lost[m] = 0
        BY <1>1, <2>1 DEF Money, Balanced
    <3>2. \A s \in Requests : ~Owes(s, m)'
        BY <1>7, <3>1
    <3>3. debit'[m] = credit'[m] + lost'[m]
        BY <1>1, <1>4, <1>6, <3>1
    <3> QED
        BY <3>2, <3>3 DEF Balanced
  <2>2. CASE ~Owes(r, m)
    <3>1. req[r].due = 0
        BY <1>1, <1>a, <2>2 DEF Owes
    <3>2. credit'[m] = credit[m]
        BY <1>1, <1>5, <1>6, <3>1
    <3>3. \A s \in Requests : Owes(s, m)' <=> Owes(s, m)
        BY <1>7, <2>2
    <3> QED
        BY <1>1, <1>2, <1>4, <2>2, <3>2, <3>3 DEF Money, Balanced
  <2> QED
      BY <2>1, <2>2
<1>10. Untouched'
  <2>1. CASE m \in settled
      BY <1>4, <1>6, <2>1 DEF Money, Untouched
  <2>2. CASE m \notin settled
    <3>1. req[r].due = 0
        BY <1>0, <1>1, <1>a, <2>2, HasMission DEF Money, OwedSettled, Holding
    <3>2. credit'[m] = credit[m]
        BY <1>5, <1>6, <3>1
    <3> QED
        BY <1>4, <1>6, <3>2 DEF Money, Untouched
  <2> QED
      BY <2>1, <2>2
<1>11. OwedSettled'
    BY <1>2, <1>3, <1>4, <1>7 DEF Money, OwedSettled
<1> QED
    BY <1>8, <1>9, <1>10, <1>11 DEF Money

\* Requests end without an answer: what they owed went with them.
LEMMA DroppedMoney ==
    ASSUME TypeOK, Money, NEW rs \in SUBSET Requests, Dropped(rs)
    PROVE  Money'
<1>1. settled' = settled /\ debit' = debit /\ credit' = credit
    BY DEF Dropped, airline, home
<1>2. \A s \in Requests : req'[s] = IF s \in rs THEN Idle ELSE req[s]
    BY DEF Dropped
<1>3. \A s \in rs : req'[s].due = 0 /\ req'[s].applied = FALSE /\ ~(req'[s].due > 0)
    BY <1>2, IdleTyped
<1>4. \A s \in Requests, n \in Missions : Owes(s, n)' <=> Owes(s, n) /\ s \notin rs
    BY <1>2, <1>3 DEF Owes
<1>5. \A n \in Missions :
          lost'[n] = IF \E s \in rs : Owes(s, n) THEN debit[n] ELSE lost[n]
    BY DEF Dropped, Owes
<1>6. \A n \in Missions : credit[n] \in Nat /\ debit[n] \in Nat /\ lost[n] \in Nat
    BY DEF TypeOK, Counts
<1>7. ASSUME NEW n \in Missions PROVE Balanced(n)'
  <2>1. CASE \E s \in rs : Owes(s, n)
    <3>1. PICK s \in rs : Owes(s, n)
        BY <2>1
    <3>2. credit[n] = 0 /\ \A t \in Requests : Owes(t, n) => t = s
        BY <3>1 DEF Money, Balanced
    <3>3. debit'[n] = credit'[n] + lost'[n]
        BY <1>1, <1>5, <1>6, <3>1, <3>2
    <3>4. \A t \in Requests : ~Owes(t, n)'
        BY <1>4, <3>1, <3>2
    <3> QED
        BY <3>3, <3>4 DEF Balanced
  <2>2. CASE ~\E s \in rs : Owes(s, n)
    <3>1. lost'[n] = lost[n]
        BY <1>5, <2>2
    <3>2. \A s \in Requests : Owes(s, n)' <=> Owes(s, n)
        BY <1>4, <2>2
    <3>3. \A s \in Requests : Owes(s, n)' => req'[s] = req[s]
        BY <1>2, <1>4
    <3> QED
        BY <1>1, <3>1, <3>2, <3>3 DEF Money, Balanced
  <2> QED
      BY <2>1, <2>2
<1>8. Untouched'
    BY <1>1, <1>5 DEF Money, Untouched
<1>9. OwedSettled'
    BY <1>1, <1>2, <1>3 DEF Money, OwedSettled
<1> QED
    BY <1>7, <1>8, <1>9 DEF Money

LEMMA MoneyNext ==
    RidersAtHome /\ TypeOK /\ Money /\ [Next]_vars => Money'
<1> SUFFICES ASSUME RidersAtHome, TypeOK, Money, [Next]_vars PROVE Money'
    OBVIOUS
<1>1. ASSUME NEW r \in Requests, NEW m \in Missions, Ask(r, m) PROVE Money'
  <2> DEFINE q == [Idle EXCEPT !.pc = "asked", !.m = m]
  <2>a. q.due = 0 /\ q.applied = FALSE
      BY DEF Idle
  <2>b. req'[r] = q /\ req[r].pc = "idle"
      BY <1>1, GoesTo DEF Ask, At
  <2>1. req'[r].due = 0 /\ req'[r].applied = FALSE /\ req[r].due = 0
      BY <2>a, <2>b, OwesNothing
  <2>2. \A s \in Requests \ {r} : req'[s] = req[s]
      BY <1>1, GoesTo DEF Ask
  <2>3. UNCHANGED <<settled, debit, credit, lost>>
      BY <1>1 DEF Ask, airline, home
  <2> QED
      BY <2>1, <2>2, <2>3, MoneyKept
<1>2. ASSUME NEW r \in Requests,
             ReadCut(r) \/ ReadHome(r) \/ SettleAgain(r) \/ HomeWrite(r)
      PROVE  Money'
  <2>1. req[r] \in Request
      BY DEF TypeOK
  <2>2. /\ req'[r].due = req[r].due /\ req'[r].m = req[r].m
        /\ req'[r].applied = req[r].applied
        /\ \A s \in Requests \ {r} : req'[s] = req[s]
    <3>1. CASE ReadCut(r)
      <4>1. req'[r] = [req[r] EXCEPT !.pc = "peek", !.cut = cut[Ops[req[r].m]]]
          BY <3>1, GoesTo DEF ReadCut
      <4> QED
          BY <2>1, <3>1, <4>1, GoesTo DEF ReadCut, Request
    <3>2. CASE ReadHome(r)
      <4>1. req'[r] = [req[r] EXCEPT !.pc = "write",
                !.bag = IF Crossing(req[r].m) THEN xp[Home[req[r].m]] ELSE {}]
          BY <3>2, GoesTo DEF ReadHome
      <4>2. \A s \in Requests \ {r} : req'[s] = req[s]
          BY <3>2, GoesTo DEF ReadHome
      <4> QED
          BY <2>1, <4>1, <4>2 DEF Request
    <3>3. CASE SettleAgain(r)
        BY <2>1, <3>3, GoesTo DEF SettleAgain, Request
    <3>4. CASE HomeWrite(r)
        BY <2>1, <3>4, GoesTo DEF HomeWrite, Request
    <3> QED
        BY <1>2, <3>1, <3>2, <3>3, <3>4
  <2>3. UNCHANGED <<settled, debit, credit, lost>>
      BY <1>2 DEF ReadCut, ReadHome, SettleAgain, HomeWrite, airline, home
  <2> QED
      BY <2>2, <2>3, MoneyKept
<1>3. ASSUME NEW r \in Requests, SettleRefused(r) \/ Record(r) PROVE Money'
  <2>1. req[r].due = 0
      BY <1>3, OwesNothing DEF SettleRefused, Record, At
  <2>2. req'[r] = Idle /\ \A s \in Requests \ {r} : req'[s] = req[s]
      BY <1>3, GoesTo DEF SettleRefused, Record
  <2>3. req'[r].due = 0 /\ req'[r].applied = FALSE
      BY <2>2, IdleTyped
  <2>4. UNCHANGED <<settled, debit, credit, lost>>
      BY <1>3 DEF SettleRefused, Record, airline, home
  <2> QED
      BY <2>1, <2>2, <2>3, <2>4, MoneyKept
<1>4. ASSUME NEW m \in Missions, WatchSettles(m), m \notin settled PROVE Money'
  <2>1. m \notin settled \cup closed /\ ~Crossing(m) /\ Lands(m, 0)
      BY <1>4 DEF WatchSettles
  <2>2. credit' = credit /\ lost' = lost /\ req' = req
      BY <1>4 DEF WatchSettles
  <2>3. \A n \in Missions : debit'[n] = debit[n] /\ settled \subseteq settled'
      BY <2>1, LandsDebit DEF TypeOK, Counts
  <2>4. \A n \in Missions : Balanced(n)'
      BY <2>2, <2>3 DEF Money, Balanced, Owes
  <2>5. Untouched' /\ OwedSettled'
      BY <2>2, <2>3 DEF Money, Untouched, OwedSettled
  <2> QED
      BY <2>4, <2>5 DEF Money
<1>5. ASSUME UNCHANGED <<settled, debit, credit, lost, req>> PROVE Money'
    BY <1>5, MoneyKept
<1> QED
    BY <1>1, <1>2, <1>3, <1>4, <1>5, SettleMoney, CreditMoney, DroppedMoney
       DEF Next, RequestStep, Fails, Crash, WatchSettles, Cancel, SetCut, vars,
           airline, home

\* What an airline gave up for a flight is what the home of its pilot got, or
\* is owed, or lost with a request, if the contracts beside it owe no cut.
\* (applySettleWalletDeltas)
THEOREM NoCutLost == ASSUME RidersAtHome PROVE Spec => []CutConserved
<1>1. TypeOK /\ Money /\ [Next]_vars => (TypeOK /\ Money)'
    BY SagaTypeNext, MoneyNext
<1>2. Init => TypeOK /\ Money
    BY SagaTypeInit, MoneyInit
<1> QED
    BY <1>1, <1>2, MoneyCut, PTL DEF Spec

-----------------------------------------------------------------------------
(* The ladder of a pilot's home.  It is read before any lock and written   *)
(* back two critical sections later; between the two the flight is only in *)
(* the bag of the request that settled it (Carries).                       *)

\* Whatever is in a ladder, or on its way to one, was settled.
LadderSettled ==
    /\ \A c \in Companies : xp[c] \subseteq settled
    /\ \A r \in Requests : req[r].bag \subseteq settled

\* The contracts beside a flight are the same pilot's, at home.
RidersSameHome ==
    \A m \in Missions : \A n \in Riders[m] : ~Crossing(m) /\ Home[n] = Home[m]

Serial == ~overlapped /\ faults = 0

\* One settlement of a home at a time.
Alone ==
    \A r, s \in Requests :
        ~At(r, "idle") /\ ~At(s, "idle") /\ Home[req[r].m] = Home[req[s].m] => r = s

\* The bag that will replace a ladder holds all of it.
BagFresh ==
    \A r \in Requests :
        req[r].pc \in {"write", "home"} /\ Crossing(req[r].m)
            => xp[Home[req[r].m]] \subseteq req[r].bag

\* The request r is about to write the flight m into the ladder of its home.
Carries(r, m) ==
    /\ At(r, "home") /\ req[r].applied /\ Crossing(req[r].m)
    /\ Home[req[r].m] = Home[m] /\ m \in req[r].bag

Counted ==
    \A m \in settled : m \in xp[Home[m]] \/ \E r \in Requests : Carries(r, m)

Ladders == LadderSettled /\ (Serial => Alone /\ BagFresh /\ Counted)

\* A landing puts what it lands in the ladder of the company that flew it.
LEMMA LandsLadder ==
    ASSUME TypeOK, NEW m \in Missions, NEW share, Lands(m, share)
    PROVE  /\ settled' = settled \cup Landing(m)
           /\ xp'[Ops[m]] = xp[Ops[m]] \cup {n \in Landing(m) : n # m \/ ~Crossing(m)}
           /\ \A c \in Companies \ {Ops[m]} : xp'[c] = xp[c]
BY SagaAssumption DEF Lands, TypeOK

\* What each step of a request does to its place, its flight and its bag.
LEMMA Reads ==
    ASSUME TypeOK, NEW r \in Requests, ReadCut(r) \/ SettleAgain(r) \/ Credit(r)
    PROVE  /\ req'[r].m = req[r].m /\ req'[r].bag = req[r].bag
           /\ req[r].pc # "idle" /\ req[r].pc # "home" /\ req'[r].pc # "idle"
           /\ req'[r].pc \in {"write", "home"} => req[r].pc = "write"
           /\ \A s \in Requests \ {r} : req'[s] = req[s]
           /\ UNCHANGED <<settled, xp, overlapped, faults>>
<1>0. req[r] \in Request
    BY DEF TypeOK
<1>1. CASE ReadCut(r)
  <2>1. req'[r] = [req[r] EXCEPT !.pc = "peek", !.cut = cut[Ops[req[r].m]]]
      BY <1>1, GoesTo DEF ReadCut
  <2>2. \A s \in Requests \ {r} : req'[s] = req[s]
      BY <1>1, GoesTo DEF ReadCut
  <2> QED
      BY <1>0, <1>1, <2>1, <2>2 DEF Request, ReadCut, At, airline, ladders, bounds
<1>2. CASE SettleAgain(r)
    BY <1>0, <1>2, GoesTo DEF Request, SettleAgain, At, airline, ladders, bounds
<1>3. CASE Credit(r)
  <2>1. req'[r] = [req[r] EXCEPT !.pc = "stats", !.due = 0]
      BY <1>3, GoesTo DEF Credit
  <2>2. \A s \in Requests \ {r} : req'[s] = req[s]
      BY <1>3, GoesTo DEF Credit
  <2> QED
      BY <1>0, <1>3, <2>1, <2>2 DEF Request, Credit, At, airline, ladders, bounds
<1> QED
    BY <1>1, <1>2, <1>3

LEMMA TakesBag ==
    ASSUME TypeOK, NEW r \in Requests, ReadHome(r)
    PROVE  /\ req[r].pc = "peek" /\ req'[r].pc = "write" /\ req'[r].m = req[r].m
           /\ req'[r].bag = IF Crossing(req[r].m) THEN xp[Home[req[r].m]] ELSE {}
           /\ \A s \in Requests \ {r} : req'[s] = req[s]
           /\ UNCHANGED <<settled, xp, overlapped, faults>>
<1> DEFINE q == [req[r] EXCEPT !.pc = "write",
                    !.bag = IF Crossing(req[r].m) THEN xp[Home[req[r].m]] ELSE {}]
<1>1. req[r] \in Request
    BY DEF TypeOK
<1>2. req'[r] = q /\ \A s \in Requests \ {r} : req'[s] = req[s]
    BY GoesTo DEF ReadHome
<1> QED
    BY <1>1, <1>2 DEF Request, ReadHome, At, airline, ladders, bounds

LEMMA FillsBag ==
    ASSUME TypeOK, NEW r \in Requests, Settle(r)
    PROVE  /\ req[r].pc = "write" /\ req'[r].pc = "home" /\ req'[r].m = req[r].m
           /\ req'[r].applied /\ req'[r].bag = req[r].bag \cup {req[r].m}
           /\ \A s \in Requests \ {r} : req'[s] = req[s]
           /\ UNCHANGED <<overlapped, faults>>
<1> DEFINE q == [req[r] EXCEPT !.pc = "home", !.applied = TRUE,
                    !.bag = @ \cup {req[r].m},
                    !.due = IF Crossing(req[r].m) THEN req[r].cut ELSE 0]
<1>1. req[r] \in Request
    BY DEF TypeOK
<1>2. req'[r] = q /\ \A s \in Requests \ {r} : req'[s] = req[s]
    BY GoesTo DEF Settle
<1> QED
    BY <1>1, <1>2 DEF Request, Settle, At, bounds

LEMMA EmptiesBag ==
    ASSUME TypeOK, NEW r \in Requests, HomeWrite(r)
    PROVE  /\ req[r].pc = "home" /\ req'[r].pc \in {"credit", "stats"}
           /\ req'[r].m = req[r].m /\ req'[r].bag = req[r].bag
           /\ \A s \in Requests \ {r} : req'[s] = req[s]
           /\ UNCHANGED <<settled, overlapped, faults>>
           /\ \A c \in Companies \ {Home[req[r].m]} : xp'[c] = xp[c]
           /\ xp'[Home[req[r].m]] = IF Crossing(req[r].m) /\ req[r].applied
                                    THEN req[r].bag ELSE xp[Home[req[r].m]]
<1> DEFINE q == [req[r] EXCEPT !.pc = IF req[r].due > 0 THEN "credit" ELSE "stats"]
<1>1. req[r] \in Request /\ Home[req[r].m] \in Companies
    BY HasMission DEF TypeOK, HomeWrite, At
<1>2. req'[r] = q /\ \A s \in Requests \ {r} : req'[s] = req[s]
    BY GoesTo DEF HomeWrite
<1>3. /\ \A c \in Companies \ {Home[req[r].m]} : xp'[c] = xp[c]
      /\ xp'[Home[req[r].m]] = IF Crossing(req[r].m) /\ req[r].applied
                               THEN req[r].bag ELSE xp[Home[req[r].m]]
    BY <1>1 DEF HomeWrite, Homecoming, TypeOK
<1> QED
    BY <1>1, <1>2, <1>3 DEF Request, HomeWrite, At, airline, bounds

LEMMA Answers ==
    ASSUME TypeOK, NEW r \in Requests, SettleRefused(r) \/ Record(r)
    PROVE  /\ req[r].pc \in {"write", "stats"} /\ req'[r] = Idle
           /\ \A s \in Requests \ {r} : req'[s] = req[s]
           /\ UNCHANGED <<settled, xp, overlapped, faults>>
BY GoesTo DEF SettleRefused, Record, At, airline, ladders, bounds

LEMMA Asks ==
    ASSUME TypeOK, NEW r \in Requests, NEW m \in Missions, Ask(r, m)
    PROVE  /\ req[r].pc = "idle" /\ req'[r].pc = "asked" /\ req'[r].m = m
           /\ req'[r].bag = {}
           /\ \A s \in Requests \ {r} : req'[s] = req[s]
           /\ UNCHANGED <<settled, xp, faults>>
           /\ overlapped' = (overlapped \/ Busy(m))
<1>1. req'[r] = [Idle EXCEPT !.pc = "asked", !.m = m]
    BY GoesTo DEF Ask
<1>2. \A s \in Requests \ {r} : req'[s] = req[s]
    BY GoesTo DEF Ask
<1> QED
    BY <1>1, <1>2 DEF Ask, Begins, At, Idle, airline, ladders

\* Every step keeps what is in a ladder, or on its way there, settled.
LEMMA LadderSettledNext ==
    ASSUME TypeOK, LadderSettled, [Next]_vars
    PROVE  LadderSettled'
<1>1. ASSUME NEW r \in Requests, NEW m \in Missions, Ask(r, m) PROVE LadderSettled'
    BY <1>1, Asks DEF LadderSettled
<1>2. ASSUME NEW r \in Requests, ReadCut(r) \/ SettleAgain(r) \/ Credit(r)
      PROVE  LadderSettled'
    BY <1>2, Reads DEF LadderSettled
<1>3. ASSUME NEW r \in Requests, ReadHome(r) PROVE LadderSettled'
  <2>1. Home[req[r].m] \in Companies
      BY <1>3, TakesBag, HasMission DEF At
  <2>2. req'[r].bag \subseteq settled
      BY <1>3, <2>1, TakesBag DEF LadderSettled
  <2> QED
      BY <1>3, <2>2, TakesBag DEF LadderSettled
<1>4. ASSUME NEW r \in Requests, Settle(r) PROVE LadderSettled'
  <2>1. req[r].m \in Missions
      BY <1>4, HasMission DEF Settle, At
  <2>2. req[r].m \in Landing(req[r].m) /\ Lands(req[r].m, req[r].cut)
      BY <1>4 DEF Settle, Landing
  <2>3. /\ settled' = settled \cup Landing(req[r].m)
        /\ \A c \in Companies : xp'[c] \subseteq xp[c] \cup Landing(req[r].m)
      BY <2>1, <2>2, LandsLadder
  <2> QED
      BY <1>4, <2>2, <2>3, FillsBag DEF LadderSettled
<1>5. ASSUME NEW r \in Requests, HomeWrite(r) PROVE LadderSettled'
  <2>1. \A c \in Companies : xp'[c] = xp[c] \/ xp'[c] = req[r].bag
      BY <1>5, EmptiesBag
  <2> QED
      BY <1>5, <2>1, EmptiesBag DEF LadderSettled
<1>6. ASSUME NEW r \in Requests, SettleRefused(r) \/ Record(r) PROVE LadderSettled'
    BY <1>6, Answers, IdleTyped DEF LadderSettled
<1>7. ASSUME NEW m \in Missions, WatchSettles(m), m \notin settled
      PROVE  LadderSettled'
  <2>1. Lands(m, 0) /\ req' = req
      BY <1>7 DEF WatchSettles
  <2>2. /\ settled' = settled \cup Landing(m)
        /\ \A c \in Companies : xp'[c] \subseteq xp[c] \cup Landing(m)
      BY <2>1, LandsLadder
  <2> QED
      BY <2>1, <2>2 DEF LadderSettled
<1>8. ASSUME NEW rs \in SUBSET Requests, Dropped(rs) PROVE LadderSettled'
  <2>1. \A r \in Requests : req'[r] = Idle \/ req'[r] = req[r]
      BY <1>8 DEF Dropped
  <2> QED
      BY <1>8, <2>1, IdleTyped DEF Dropped, LadderSettled, airline, ladders
<1>9. ASSUME UNCHANGED <<settled, xp, req>> PROVE LadderSettled'
    BY <1>9 DEF LadderSettled
<1> QED
    BY <1>1, <1>2, <1>3, <1>4, <1>5, <1>6, <1>7, <1>8, <1>9
       DEF Next, RequestStep, Fails, Crash, WatchSettles, Cancel, SetCut, vars,
           airline, home, ladders

InTurn == Alone /\ BagFresh /\ Counted

\* Nobody else's request is at the home of the one that moves.
LEMMA HomeAlone ==
    ASSUME TypeOK, Alone, NEW r \in Requests, req[r].pc # "idle",
           NEW s \in Requests, s # r, req[s].pc # "idle"
    PROVE  Home[req[s].m] # Home[req[r].m]
BY DEF Alone, At

\* One request moves on under way, for the flight it has.
LEMMA AloneKept ==
    ASSUME TypeOK, Alone, NEW r \in Requests, req[r].pc # "idle",
           req'[r].m = req[r].m \/ req'[r].pc = "idle",
           \A s \in Requests \ {r} : req'[s] = req[s]
    PROVE  Alone'
BY DEF Alone, At

LEMMA ReadsInTurn ==
    ASSUME TypeOK, InTurn, NEW r \in Requests,
           ReadCut(r) \/ SettleAgain(r) \/ Credit(r)
    PROVE  InTurn'
<1>1. /\ req'[r].m = req[r].m /\ req'[r].bag = req[r].bag
      /\ req[r].pc # "idle" /\ req[r].pc # "home" /\ req'[r].pc # "idle"
      /\ req'[r].pc \in {"write", "home"} => req[r].pc = "write"
      /\ \A s \in Requests \ {r} : req'[s] = req[s]
      /\ settled' = settled /\ xp' = xp
    BY Reads
<1>2. Alone'
    BY <1>1, AloneKept DEF InTurn
<1>3. BagFresh'
    BY <1>1 DEF InTurn, BagFresh
<1>4. \A s \in Requests, m \in Missions : Carries(s, m) => Carries(s, m)'
    BY <1>1 DEF Carries, At
<1>5. Counted'
    BY <1>1, <1>4 DEF InTurn, Counted, TypeOK
<1> QED
    BY <1>2, <1>3, <1>5 DEF InTurn

LEMMA TakesInTurn ==
    ASSUME TypeOK, InTurn, NEW r \in Requests, ReadHome(r)
    PROVE  InTurn'
<1>1. /\ req[r].pc = "peek" /\ req'[r].pc = "write" /\ req'[r].m = req[r].m
      /\ req'[r].bag = IF Crossing(req[r].m) THEN xp[Home[req[r].m]] ELSE {}
      /\ \A s \in Requests \ {r} : req'[s] = req[s]
      /\ settled' = settled /\ xp' = xp
    BY TakesBag
<1>2. Alone'
    BY <1>1, AloneKept DEF InTurn
<1>3. BagFresh'
    BY <1>1 DEF InTurn, BagFresh
<1>4. \A s \in Requests, m \in Missions : Carries(s, m) => Carries(s, m)'
    BY <1>1 DEF Carries, At
<1>5. Counted'
    BY <1>1, <1>4 DEF InTurn, Counted, TypeOK
<1> QED
    BY <1>2, <1>3, <1>5 DEF InTurn

\* A flight for an airline goes into the bag, one at home into the ladder.
LEMMA SettlesInTurn ==
    ASSUME RidersSameHome, TypeOK, InTurn, NEW r \in Requests, Settle(r)
    PROVE  InTurn'
<1>1. /\ req[r].pc = "write" /\ req'[r].pc = "home" /\ req'[r].m = req[r].m
      /\ req'[r].applied /\ req'[r].bag = req[r].bag \cup {req[r].m}
      /\ \A s \in Requests \ {r} : req'[s] = req[s]
    BY FillsBag
<1>a. PICK m \in Missions : m = req[r].m
    BY <1>1, HasMission DEF At
<1>2. /\ settled' = settled \cup Landing(m)
      /\ xp'[Ops[m]] = xp[Ops[m]] \cup {n \in Landing(m) : n # m \/ ~Crossing(m)}
      /\ \A c \in Companies \ {Ops[m]} : xp'[c] = xp[c]
    BY <1>a, LandsLadder DEF Settle
<1>3. Alone'
    BY <1>1, AloneKept DEF InTurn
<1>4. \A s \in Requests, n \in Missions : Carries(s, n) => Carries(s, n)'
    BY <1>1 DEF Carries, At
<1>5. \A n \in Missions : Home[n] \in Companies /\ Ops[n] \in Companies
    BY SagaAssumption
<1>6. \A s \in Requests : req[s].pc \in {"write", "home"} => req[s].m \in Missions
    BY HasMission DEF At
<1>7. CASE Crossing(m)
  <2>1. Landing(m) = {m}
      BY <1>7, <1>a DEF RidersSameHome, Landing, Settle
  <2>2. \A c \in Companies : xp'[c] = xp[c]
      BY <1>2, <1>7, <2>1
  <2>3. BagFresh'
    <3> SUFFICES ASSUME NEW s \in Requests,
                        req'[s].pc \in {"write", "home"}, Crossing(req'[s].m)
                 PROVE  xp'[Home[req'[s].m]] \subseteq req'[s].bag
        BY DEF BagFresh
    <3>1. /\ req[s].pc \in {"write", "home"} /\ req'[s].m = req[s].m
          /\ req[s].bag \subseteq req'[s].bag
        BY <1>1
    <3>2. xp'[Home[req[s].m]] = xp[Home[req[s].m]]
        BY <1>5, <1>6, <2>2, <3>1
    <3> QED
        BY <3>1, <3>2 DEF InTurn, BagFresh
  <2>4. Carries(r, m)'
      BY <1>1, <1>7, <1>a DEF Carries, At
  <2>5. Counted'
      BY <1>2, <1>4, <1>5, <2>1, <2>2, <2>4 DEF InTurn, Counted, TypeOK
  <2> QED
      BY <1>3, <2>3, <2>5 DEF InTurn
<1>8. CASE ~Crossing(m)
  <2>1. /\ Ops[m] = Home[m] /\ \A n \in Landing(m) : n \in Missions /\ Home[n] = Home[m]
      BY <1>8, SagaAssumption DEF Crossing, RidersSameHome, Landing
  <2>2. xp'[Home[m]] = xp[Home[m]] \cup Landing(m)
      BY <1>2, <1>8, <2>1
  <2>3. BagFresh'
    <3> SUFFICES ASSUME NEW s \in Requests,
                        req'[s].pc \in {"write", "home"}, Crossing(req'[s].m)
                 PROVE  xp'[Home[req'[s].m]] \subseteq req'[s].bag
        BY DEF BagFresh
    <3>1. s # r
        BY <1>1, <1>8, <1>a
    <3>2. Home[req[s].m] # Home[m] /\ req'[s] = req[s]
        BY <1>1, <1>a, <3>1, HomeAlone DEF InTurn
    <3>3. xp'[Home[req[s].m]] = xp[Home[req[s].m]]
        BY <1>2, <1>5, <1>6, <2>1, <3>2
    <3> QED
        BY <3>2, <3>3 DEF InTurn, BagFresh
  <2>4. \A c \in Companies : xp[c] \subseteq xp'[c]
      BY <1>2, <2>1, <2>2, <1>5
  <2>5. Counted'
      BY <1>2, <1>4, <1>5, <2>1, <2>2, <2>4 DEF InTurn, Counted, TypeOK
  <2> QED
      BY <1>3, <2>3, <2>5 DEF InTurn
<1> QED
    BY <1>7, <1>8

\* The bag replaces the ladder it was read from, which nobody has written since.
LEMMA EmptiesInTurn ==
    ASSUME TypeOK, InTurn, NEW r \in Requests, HomeWrite(r)
    PROVE  InTurn'
<1>1. /\ req[r].pc = "home" /\ req'[r].pc \in {"credit", "stats"}
      /\ req'[r].m = req[r].m
      /\ \A s \in Requests \ {r} : req'[s] = req[s]
      /\ settled' = settled
      /\ \A c \in Companies \ {Home[req[r].m]} : xp'[c] = xp[c]
      /\ xp'[Home[req[r].m]] = IF Crossing(req[r].m) /\ req[r].applied
                               THEN req[r].bag ELSE xp[Home[req[r].m]]
    BY EmptiesBag
<1>2. Alone'
    BY <1>1, AloneKept DEF InTurn
<1>3. \A n \in Missions : Home[n] \in Companies
    BY SagaAssumption
<1>4. \A s \in Requests : req[s].pc \in {"write", "home"} => req[s].m \in Missions
    BY HasMission DEF At
<1>5. BagFresh'
  <2> SUFFICES ASSUME NEW s \in Requests,
                      req'[s].pc \in {"write", "home"}, Crossing(req'[s].m)
               PROVE  xp'[Home[req'[s].m]] \subseteq req'[s].bag
      BY DEF BagFresh
  <2>1. s # r /\ req'[s] = req[s]
      BY <1>1
  <2>2. Home[req[s].m] # Home[req[r].m]
      BY <1>1, <2>1, HomeAlone DEF InTurn
  <2>3. xp'[Home[req[s].m]] = xp[Home[req[s].m]]
      BY <1>1, <1>3, <1>4, <2>1, <2>2
  <2> QED
      BY <2>1, <2>3 DEF InTurn, BagFresh
<1>6. ASSUME NEW n \in settled
      PROVE  n \in xp'[Home[n]] \/ \E s \in Requests : Carries(s, n)'
  <2>0. n \in Missions /\ Home[n] \in Companies
      BY <1>3 DEF TypeOK
  <2>1. CASE n \in xp[Home[n]]
    <3>1. xp[Home[n]] \subseteq xp'[Home[n]]
      <4>1. CASE Home[n] # Home[req[r].m]
          BY <1>1, <2>0, <4>1
      <4>2. CASE Home[n] = Home[req[r].m]
          BY <1>1, <4>2 DEF InTurn, BagFresh
      <4> QED
          BY <4>1, <4>2
    <3> QED
        BY <2>1, <3>1
  <2>2. CASE Carries(r, n)
      BY <1>1, <2>2 DEF Carries
  <2>3. ASSUME NEW s \in Requests \ {r}, Carries(s, n) PROVE Carries(s, n)'
      BY <1>1, <2>3 DEF Carries, At
  <2> QED
      BY <2>1, <2>2, <2>3 DEF InTurn, Counted
<1>7. Counted'
    BY <1>1, <1>6 DEF Counted
<1> QED
    BY <1>2, <1>5, <1>7 DEF InTurn

LEMMA AnswersInTurn ==
    ASSUME TypeOK, InTurn, NEW r \in Requests, SettleRefused(r) \/ Record(r)
    PROVE  InTurn'
<1>1. /\ req[r].pc \in {"write", "stats"} /\ req'[r].pc = "idle"
      /\ \A s \in Requests \ {r} : req'[s] = req[s]
      /\ settled' = settled /\ xp' = xp
    BY Answers, IdleTyped
<1>2. Alone'
    BY <1>1, AloneKept DEF InTurn
<1>3. BagFresh'
    BY <1>1 DEF InTurn, BagFresh
<1>4. \A s \in Requests, m \in Missions : Carries(s, m) => Carries(s, m)'
    BY <1>1 DEF Carries, At
<1>5. Counted'
    BY <1>1, <1>4 DEF InTurn, Counted, TypeOK
<1> QED
    BY <1>2, <1>3, <1>5 DEF InTurn

\* A request that meets no other begins.
LEMMA AsksInTurn ==
    ASSUME TypeOK, InTurn, NEW r \in Requests, NEW m \in Missions, Ask(r, m), ~Busy(m)
    PROVE  InTurn'
<1>1. /\ req[r].pc = "idle" /\ req'[r].pc = "asked" /\ req'[r].m = m
      /\ \A s \in Requests \ {r} : req'[s] = req[s]
      /\ settled' = settled /\ xp' = xp
    BY Asks
<1>2. Alone'
    BY <1>1 DEF InTurn, Alone, At, Busy
<1>3. BagFresh'
    BY <1>1 DEF InTurn, BagFresh
<1>4. \A s \in Requests, n \in Missions : Carries(s, n) => Carries(s, n)'
    BY <1>1 DEF Carries, At
<1>5. Counted'
    BY <1>1, <1>4 DEF InTurn, Counted, TypeOK
<1> QED
    BY <1>2, <1>3, <1>5 DEF InTurn

\* Watch settles a flight at home while no request of that home is under way.
LEMMA WatchInTurn ==
    ASSUME RidersSameHome, TypeOK, InTurn, NEW m \in Missions, m \notin settled,
           WatchSettles(m), ~Busy(m)
    PROVE  InTurn'
<1>1. /\ settled' = settled \cup Landing(m)
      /\ xp'[Ops[m]] = xp[Ops[m]] \cup {n \in Landing(m) : n # m \/ ~Crossing(m)}
      /\ \A c \in Companies \ {Ops[m]} : xp'[c] = xp[c]
    BY LandsLadder DEF WatchSettles
<1>2. ~Crossing(m) /\ req' = req
    BY DEF WatchSettles
<1>3. /\ Ops[m] = Home[m] /\ \A n \in Landing(m) : n \in Missions /\ Home[n] = Home[m]
    BY <1>2, SagaAssumption DEF Crossing, RidersSameHome, Landing
<1>4. xp'[Home[m]] = xp[Home[m]] \cup Landing(m)
    BY <1>1, <1>2, <1>3
<1>5. \A n \in Missions : Home[n] \in Companies
    BY SagaAssumption
<1>6. BagFresh'
  <2> SUFFICES ASSUME NEW s \in Requests,
                      req[s].pc \in {"write", "home"}, Crossing(req[s].m)
               PROVE  xp'[Home[req[s].m]] \subseteq req[s].bag
      BY <1>2 DEF BagFresh
  <2>1. Home[req[s].m] \in Companies /\ Home[req[s].m] # Home[m]
      BY HasMission DEF At, Busy
  <2> QED
      BY <1>1, <1>3, <2>1 DEF InTurn, BagFresh
<1>7. \A c \in Companies : xp[c] \subseteq xp'[c]
    BY <1>1
<1>8. \A s \in Requests, n \in Missions : Carries(s, n)' <=> Carries(s, n)
    BY <1>2 DEF Carries, At
<1>9. Counted'
    BY <1>1, <1>3, <1>4, <1>5, <1>7, <1>8 DEF InTurn, Counted, TypeOK
<1>10. Alone'
    BY <1>2 DEF InTurn, Alone, At
<1> QED
    BY <1>6, <1>9, <1>10 DEF InTurn

\* Every step of a behaviour in which settlements of one home take turns keeps
\* every settled flight in its ladder or in the bag of the one that settled it.
LEMMA InTurnNext ==
    ASSUME RidersSameHome, TypeOK, InTurn, Serial', [Next]_vars
    PROVE  InTurn'
<1>1. ASSUME NEW r \in Requests, NEW m \in Missions, Ask(r, m) PROVE InTurn'
  <2>1. ~Busy(m)
      BY <1>1, Asks DEF Serial
  <2> QED
      BY <1>1, <2>1, AsksInTurn
<1>2. ASSUME NEW r \in Requests, RequestStep(r) PROVE InTurn'
    BY <1>2, ReadsInTurn, TakesInTurn, SettlesInTurn, EmptiesInTurn, AnswersInTurn
       DEF RequestStep
<1>3. ASSUME NEW m \in Missions, WatchSettles(m), m \notin settled PROVE InTurn'
  <2>1. ~Busy(m)
      BY <1>3 DEF Serial, WatchSettles, Begins
  <2> QED
      BY <1>3, <2>1, WatchInTurn
<1>4. ASSUME NEW rs \in SUBSET Requests, Dropped(rs) PROVE InTurn'
  <2>1. faults \in Nat /\ faults' = faults + 1 /\ faults' = 0
      BY <1>4, SagaAssumption DEF Dropped, TypeOK, Serial
  <2> QED
      BY <2>1
<1>5. ASSUME UNCHANGED <<settled, xp, req>> PROVE InTurn'
    BY <1>5 DEF InTurn, Alone, At, BagFresh, Counted, Carries
<1> QED
    BY <1>1, <1>2, <1>3, <1>4, <1>5
       DEF Next, Fails, Crash, WatchSettles, Cancel, SetCut, vars,
           airline, home, ladders

\* What met once has met; faults are not forgotten.
LEMMA SerialBack ==
    ASSUME TypeOK, [Next]_vars, Serial'
    PROVE  Serial
<1>1. ASSUME UNCHANGED <<overlapped, faults>> PROVE Serial
    BY <1>1 DEF Serial
<1>2. ASSUME NEW m \in Missions, Begins(m), UNCHANGED faults PROVE Serial
    BY <1>2 DEF Begins, Serial
<1>3. ASSUME NEW rs \in SUBSET Requests, Dropped(rs) PROVE Serial
  <2>1. faults \in Nat /\ faults' = faults + 1 /\ faults' = 0
      BY <1>3, SagaAssumption DEF Dropped, TypeOK, Serial
  <2> QED
      BY <2>1
<1> QED
    BY <1>1, <1>2, <1>3
       DEF Next, RequestStep, Ask, ReadCut, ReadHome, Settle, SettleAgain,
           SettleRefused, HomeWrite, Credit, Record, WatchSettles, Cancel,
           SetCut, Fails, Crash, vars, bounds

LEMMA LaddersInit == Init => Ladders
<1> SUFFICES ASSUME Init PROVE Ladders
    OBVIOUS
<1>1. \A r \in Requests : req[r].pc = "idle" /\ req[r].bag = {}
    BY IdleTyped DEF Init
<1> QED
    BY <1>1 DEF Init, Ladders, LadderSettled, Alone, BagFresh, Counted, At

LEMMA LaddersNext == RidersSameHome /\ TypeOK /\ Ladders /\ [Next]_vars => Ladders'
<1> SUFFICES ASSUME RidersSameHome, TypeOK, Ladders, [Next]_vars PROVE Ladders'
    OBVIOUS
<1>1. LadderSettled'
    BY LadderSettledNext DEF Ladders
<1>2. ASSUME Serial' PROVE InTurn'
    BY <1>2, SerialBack, InTurnNext DEF Ladders, InTurn
<1> QED
    BY <1>1, <1>2 DEF Ladders, InTurn

\* The home's ladder counts no flight that was not settled, and every one that
\* was once its requests are over, as long as settlements of one home take
\* turns, none fails, and what lies beside a flight is the same pilot's own.
\* (progressionBag)
THEOREM LadderCounts == ASSUME RidersSameHome PROVE Spec => []Progression
<1>1. ASSUME TypeOK, Ladders PROVE Progression
  <2>1. ASSUME NEW m \in Missions, m \in settled, ~Busy(m), Serial
        PROVE  m \in xp[Home[m]]
      BY <1>1, <2>1 DEF Ladders, Counted, Carries, Busy, At
  <2>2. \A m \in Missions, c \in Companies : m \in xp[c] => m \in settled
      BY <1>1 DEF Ladders, LadderSettled
  <2> QED
      BY <2>1, <2>2 DEF Progression, Serial
<1>2. TypeOK /\ Ladders /\ [Next]_vars => (TypeOK /\ Ladders)'
    BY SagaTypeNext, LaddersNext
<1>3. Init => TypeOK /\ Ladders
    BY SagaTypeInit, LaddersInit
<1> QED
    BY <1>1, <1>2, <1>3, PTL DEF Spec
=============================================================================
