------------------------------ MODULE SettleSaga ------------------------------
(***************************************************************************)
(* POST /api/settle of a flight that a member flew for a virtual airline.  *)
(* It reads the member's cut and the ladder of the pilot's home company    *)
(* outside any lock, and then writes two company rows in separate critical *)
(* sections: the airline is paid and the cut leaves it, the home gets its  *)
(* ladder, its hours and its place, the home gets the cut, and the airline *)
(* its statistics.  Clients send the request again, other settlements run  *)
(* in between, and a write may fail or the host die after any of them.     *)
(*                                                                         *)
(* An action is one read, or one critical section with its save.  A ladder *)
(* is the set of flights that counted in it; a place is the flight whose   *)
(* destination it is.  What a settlement does to lots and aircraft is      *)
(* CargoTrip's subject.                                                    *)
(***************************************************************************)
EXTENDS Naturals, FiniteSets

CONSTANTS
    Missions, Companies, Requests,
    Ops, Home,    \* of a mission: the company it is flown for, the pilot's
    Riders,       \* the contracts its aircraft carries to the same place
    Listed,       \* the companies that are virtual airlines
    NoMission,
    MaxCut,       \* the largest cut that an owner may set
    MaxAsks,      \* bound: requests sent and Watch settlements
    MaxFaults,    \* bound: failed writes and crashes
    MaxChanges    \* bound: changes of a cut

ASSUME SagaAssumption ==
    /\ Ops \in [Missions -> Companies] /\ Home \in [Missions -> Companies]
    /\ Riders \in [Missions -> SUBSET Missions]
    /\ \A m \in Missions : m \notin Riders[m]
    /\ Listed \subseteq Companies
    /\ NoMission \notin Missions
    /\ MaxCut \in Nat \ {0}
    /\ {MaxAsks, MaxFaults, MaxChanges} \subseteq Nat

VARIABLES
    settled, closed,       \* missions, by their status
    paid, debit,           \* of a mission: payouts, cut that left the airline
    credit, hours,         \* cut that reached the home, times it counted
    stats,                 \* times it counted for the airline
    xp, place,             \* of a company: its ladder, where its pilot is
    cut,                   \* what its members get of a flight
    req,                   \* of a request: where it is and what it holds
    lost,                  \* history: cut that a request took with it
    overlapped,            \* history: two settlements of one home met
    asks, faults, changes

airline == <<settled, closed, paid, debit>>
home == <<credit, hours>>
ladders == <<xp, place>>
bounds == <<asks, faults, changes>>
vars == <<airline, home, ladders, stats, cut, req, lost, overlapped, bounds>>

Idle == [pc |-> "idle", m |-> NoMission, cut |-> 0, bag |-> {},
         applied |-> FALSE, due |-> 0]

Crossing(m) == Home[m] # Ops[m]

Init ==
    /\ settled = {} /\ closed = {}
    /\ paid = [m \in Missions |-> 0] /\ debit = [m \in Missions |-> 0]
    /\ credit = [m \in Missions |-> 0] /\ hours = [m \in Missions |-> 0]
    /\ stats = [m \in Missions |-> 0]
    /\ xp = [c \in Companies |-> {}]
    /\ place = [c \in Companies |-> NoMission]
    /\ cut = [c \in Companies |-> 1]
    /\ req = [r \in Requests |-> Idle]
    /\ lost = [m \in Missions |-> 0] /\ overlapped = FALSE
    /\ asks = 0 /\ faults = 0 /\ changes = 0
-----------------------------------------------------------------------------
At(r, pc) == req[r].pc = pc
Goes(r, fields) == req' = [req EXCEPT ![r] = fields]

\* A settlement for the home of m is under way.
Busy(m) ==
    \E r \in Requests : ~At(r, "idle") /\ Home[req[r].m] = Home[m]

\* Another settlement of a flight of that pilot, or the same once more.
Begins(m) ==
    /\ asks < MaxAsks /\ asks' = asks + 1
    /\ overlapped' = (overlapped \/ Busy(m))

Ask(r, m) ==
    /\ At(r, "idle") /\ Begins(m)
    /\ Goes(r, [Idle EXCEPT !.pc = "asked", !.m = m])
    /\ UNCHANGED <<airline, home, ladders, stats, cut, lost, faults, changes>>

\* vaGetMemberRouteCutPct, before any lock.
ReadCut(r) ==
    /\ At(r, "asked")
    /\ Goes(r, [req[r] EXCEPT !.pc = "peek", !.cut = cut[Ops[req[r].m]]])
    /\ UNCHANGED <<airline, home, ladders, stats, cut, lost, overlapped, bounds>>

\* Mutant: the ladder read is the airline's.
ReadHomeOfOps(r) ==
    /\ At(r, "peek")
    /\ Goes(r, [req[r] EXCEPT !.pc = "write",
                   !.bag = IF Crossing(req[r].m) THEN xp[Ops[req[r].m]] ELSE {}])
    /\ UNCHANGED <<airline, home, ladders, stats, cut, lost, overlapped, bounds>>

\* progressionBag: the home's ladder, before any lock.
ReadHome(r) ==
    /\ At(r, "peek")
    /\ Goes(r, [req[r] EXCEPT !.pc = "write",
                   !.bag = IF Crossing(req[r].m) THEN xp[Home[req[r].m]] ELSE {}])
    /\ UNCHANGED <<airline, home, ladders, stats, cut, lost, overlapped, bounds>>

\* It cannot depart, nor be settled, by itself.
Riding(m) == \E n \in Missions \ (settled \cup closed) : m \in Riders[n]

\* What executeSettleFlight settles with m.
Landing(m) == {n \in {m} \cup Riders[m] : n \notin settled \cup closed}

\* It pays for each, and takes the cut of each from the company; only m's
\* ladder is the bag.
Lands(m, share) ==
    /\ settled' = settled \cup Landing(m)
    /\ paid' = [n \in Missions |-> paid[n] + IF n \in Landing(m) THEN 1 ELSE 0]
    /\ debit' = [n \in Missions |-> debit[n] +
                    IF n \in Landing(m) /\ Crossing(n) THEN share ELSE 0]
    /\ xp' = [xp EXCEPT ![Ops[m]] =
                 @ \cup {n \in Landing(m) : n # m \/ ~Crossing(m)}]
    /\ place' = [place EXCEPT ![Ops[m]] = m]
    /\ UNCHANGED closed

\* Mutant: a mission that is already settled is settled again.
SettleTwice(r) ==
    LET m == req[r].m IN
    /\ At(r, "write") /\ m \notin closed
    /\ settled' = settled \cup {m} /\ paid' = [paid EXCEPT ![m] = @ + 1]
    /\ Goes(r, [req[r] EXCEPT !.pc = "home", !.applied = TRUE])
    /\ UNCHANGED <<closed, debit, home, ladders, stats, cut, lost, overlapped,
                   bounds>>

\* Write 1, first time: what is due to the pilot of m goes with the request,
\* what is due to the pilots of its riders does not.
Settle(r) ==
    LET m == req[r].m
        share == IF Crossing(m) THEN req[r].cut ELSE 0
    IN  /\ At(r, "write") /\ m \notin settled \cup closed /\ ~Riding(m)
        /\ Lands(m, req[r].cut)
        /\ Goes(r, [req[r] EXCEPT !.pc = "home", !.applied = TRUE,
                                  !.bag = @ \cup {m}, !.due = share])
        /\ UNCHANGED <<home, stats, cut, lost, overlapped, bounds>>

\* Write 1, replayed: nothing is paid, and the rest of the route runs.
SettleAgain(r) ==
    /\ At(r, "write") /\ req[r].m \in settled
    /\ Goes(r, [req[r] EXCEPT !.pc = "home"])
    /\ UNCHANGED <<airline, home, ladders, stats, cut, lost, overlapped, bounds>>

\* 409, 400.
SettleRefused(r) ==
    /\ At(r, "write") /\ req[r].m \notin settled
    /\ req[r].m \in closed \/ Riding(req[r].m)
    /\ Goes(r, Idle)
    /\ UNCHANGED <<airline, home, ladders, stats, cut, lost, overlapped, bounds>>

\* The home's row in write 2.
Homecoming(r) ==
    LET m == req[r].m IN
    /\ hours' = [hours EXCEPT ![m] = @ + 1]
    /\ place' = [place EXCEPT ![Home[m]] = IF Crossing(m) THEN m ELSE @]
    /\ xp' = [xp EXCEPT ![Home[m]] =
                 IF Crossing(m) /\ req[r].applied THEN req[r].bag ELSE @]

\* Mutant: the pilot's pay is skipped with the rest of a home write.
HomeWriteLast(r) ==
    /\ At(r, "home") /\ Homecoming(r)
    /\ Goes(r, [req[r] EXCEPT !.pc = "stats"])
    /\ UNCHANGED <<airline, credit, stats, cut, lost, overlapped, bounds>>

\* Write 2: the bag replaces the ladder.
HomeWrite(r) ==
    /\ At(r, "home") /\ Homecoming(r)
    /\ Goes(r, [req[r] EXCEPT !.pc = IF req[r].due > 0 THEN "credit" ELSE "stats"])
    /\ UNCHANGED <<airline, credit, stats, cut, lost, overlapped, bounds>>

\* Mutant: what is credited is the cut of now.
CreditNow(r) ==
    /\ At(r, "credit")
    /\ credit' = [credit EXCEPT ![req[r].m] = @ + cut[Ops[req[r].m]]]
    /\ Goes(r, [req[r] EXCEPT !.pc = "stats", !.due = 0])
    /\ UNCHANGED <<airline, hours, ladders, stats, cut, lost, overlapped, bounds>>

\* Write 3.
Credit(r) ==
    /\ At(r, "credit")
    /\ credit' = [credit EXCEPT ![req[r].m] = @ + req[r].due]
    /\ Goes(r, [req[r] EXCEPT !.pc = "stats", !.due = 0])
    /\ UNCHANGED <<airline, hours, ladders, stats, cut, lost, overlapped, bounds>>

\* vaRecordHaulStats, vaRecordFlightQuality; the answer.
Record(r) ==
    /\ At(r, "stats")
    /\ stats' = [stats EXCEPT ![req[r].m] =
                    @ + IF Ops[req[r].m] \in Listed THEN 1 ELSE 0]
    /\ Goes(r, Idle)
    /\ UNCHANGED <<airline, home, ladders, cut, lost, overlapped, bounds>>

RequestStep(r) ==
    \/ ReadCut(r) \/ ReadHome(r)
    \/ Settle(r) \/ SettleAgain(r) \/ SettleRefused(r)
    \/ HomeWrite(r) \/ Credit(r) \/ Record(r)

\* Watch on a local host settles by itself, in one write and without a cut.
WatchSettles(m) ==
    /\ ~Crossing(m) /\ m \notin closed /\ ~Riding(m) /\ Begins(m)
    /\ IF m \in settled THEN UNCHANGED <<airline, ladders>> ELSE Lands(m, 0)
    /\ hours' = [hours EXCEPT ![m] = @ + 1]
    /\ UNCHANGED <<credit, stats, cut, req, lost, faults, changes>>

\* The mission and its riders are cancelled.
Cancel(m) ==
    /\ m \notin settled \cup closed
    /\ closed' = closed \cup Landing(m)
    /\ UNCHANGED <<settled, paid, debit, home, ladders, stats, cut, req, lost,
                   overlapped, bounds>>

\* The owner changes the cut: clampMemberRouteCutPct.
SetCut(c, p) ==
    /\ changes < MaxChanges /\ changes' = changes + 1
    /\ cut' = [cut EXCEPT ![c] =
                  IF p < 1 THEN 1 ELSE IF p > MaxCut THEN MaxCut ELSE p]
    /\ UNCHANGED <<airline, home, ladders, stats, req, lost, overlapped, asks,
                   faults>>

\* The requests of rs end without an answer, what they had still to do undone.
Dropped(rs) ==
    /\ faults < MaxFaults /\ faults' = faults + 1
    /\ req' = [r \in Requests |-> IF r \in rs THEN Idle ELSE req[r]]
    /\ lost' = [m \in Missions |->
                   IF \E r \in rs : req[r].m = m /\ req[r].due > 0
                   THEN debit[m] ELSE lost[m]]
    /\ UNCHANGED <<airline, home, ladders, stats, cut, overlapped, asks,
                   changes>>

\* A read, a critical section, or the slice's transaction after it throws.
Fails(r) == ~At(r, "idle") /\ Dropped({r})

Crash == Dropped(Requests)
-----------------------------------------------------------------------------
Next ==
    \/ \E r \in Requests, m \in Missions : Ask(r, m)
    \/ \E r \in Requests : RequestStep(r) \/ Fails(r)
    \/ \E m \in Missions : WatchSettles(m) \/ Cancel(m)
    \/ \E c \in Listed, p \in 0..(MaxCut + 1) : SetCut(c, p)
    \/ Crash

Spec == Init /\ [][Next]_vars

\* A promise that is awaited is settled in the end.
Fairness == \A r \in Requests : WF_vars(RequestStep(r))

FairSpec == Spec /\ Fairness
-----------------------------------------------------------------------------
(* Properties.                                                             *)

Stages == {"idle", "asked", "peek", "write", "home", "credit", "stats"}

Request == [pc : Stages, m : Missions \cup {NoMission}, cut : 0..MaxCut,
            bag : SUBSET Missions, applied : BOOLEAN, due : 0..MaxCut]

Holding(q) ==
    /\ q.pc = "idle" <=> q.m = NoMission
    /\ q.applied => q.pc \in {"home", "credit", "stats"}
    /\ q.due > 0 => q.applied /\ q.pc # "stats"

Counts == [Missions -> Nat]

\* A request holds a mission while it is under way, and a cut is due only
\* once the settlement was applied.
TypeOK ==
    /\ settled \subseteq Missions /\ closed \subseteq Missions
    /\ paid \in Counts /\ debit \in Counts /\ credit \in Counts
    /\ hours \in Counts /\ stats \in Counts /\ lost \in Counts
    /\ xp \in [Companies -> SUBSET Missions]
    /\ place \in [Companies -> Missions \cup {NoMission}]
    /\ cut \in [Companies -> 1..MaxCut]
    /\ req \in [Requests -> Request] /\ \A r \in Requests : Holding(req[r])
    /\ overlapped \in BOOLEAN
    /\ asks \in 0..MaxAsks /\ faults \in 0..MaxFaults
    /\ changes \in 0..MaxChanges

\* However often a client sends a settlement, and whatever it races, a flight
\* is paid when it is settled and never again, and a cancelled one never.
\* (executeSettleFlight)
PaidOnce ==
    \A m \in Missions :
        /\ paid[m] = IF m \in settled THEN 1 ELSE 0
        /\ ~(m \in settled /\ m \in closed)

\* What the airline gave up for a flight is exactly what the home company of
\* its pilot got, or what one request under way still owes it, or what went
\* with a request that failed: whatever the owner changes meanwhile, none of
\* it is lost otherwise, paid twice or made up.  (applySettleWalletDeltas)
CutConserved ==
    \A m \in Missions :
        LET due == {r \in Requests : req[r].m = m /\ req[r].due > 0} IN
        /\ due = {} => debit[m] = credit[m] + lost[m]
        /\ \A r \in due : /\ due = {r} /\ debit[m] = req[r].due
                          /\ credit[m] = 0 /\ lost[m] = 0

\* The pilot gets it in the end, unless that request failed.
\* (POST /api/settle, write 3)
CutArrives ==
    \A m \in Missions :
        debit[m] > 0 ~> (credit[m] = debit[m] \/ lost[m] = debit[m])

\* The home's ladder counts no flight that was not settled; and as long as no
\* two settlements for one home overlap and none fails, it counts every one
\* when it is their last write's turn no more.  (progressionBag)
Progression ==
    \A m \in Missions :
        /\ \A c \in Companies : m \in xp[c] => m \in settled
        /\ m \in settled /\ ~Busy(m) /\ ~overlapped /\ faults = 0
               => m \in xp[Home[m]]

\* A settlement that is sent again counts nothing a second time.
\* (career-persist-commands.ts: "Replay if the mission is already `settled`")
NothingTwice == \A m \in Missions : hours[m] <= 1 /\ stats[m] <= 1
=============================================================================
