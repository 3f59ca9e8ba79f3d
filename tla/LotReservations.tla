--------------------------- MODULE LotReservations ---------------------------
(***************************************************************************)
(* Kilograms of shipment lots against those who hold them: the companies'  *)
(* open missions and the NPC carriers' flights and crew-needed offers.     *)
(*                                                                         *)
(* A lot keeps a single number, reservedKg, for all of its holders; nothing*)
(* but reconcileLotReservations ever compares it with them.  A command     *)
(* runs on a clone of the planet and publishes only the lots of its slice  *)
(* into live RAM; once the locks are free the slice is committed and put   *)
(* into RAM again, and the NPC roster of a contract mission follows.  The  *)
(* pulse may run in between.                                               *)
(***************************************************************************)
EXTENDS Naturals, FiniteSets

CONSTANTS
    Companies,
    Missions,      \* mission ids, reused once a mission is closed
    Owner,         \* the company each mission belongs to
    Lots,
    Size,          \* kilograms of each lot when it is formed
    MaxKg,         \* bound: kilograms one mission may hold of one lot
    Free,          \* no company: claimedByCompanyId is not set
    NoRoster,      \* no roster waits to be saved
    MaxFlown,      \* bound: the history flown counts no further
    MaxLost,       \* bound: kilograms impacts may take from one lot
    Editing        \* manifests may be replaced

ASSUME LotAssumption ==
    /\ IsFiniteSet(Missions)
    /\ Owner \in [Missions -> Companies]
    /\ MaxKg \in Nat
    /\ MaxFlown \in Nat /\ MaxFlown > MaxKg
    /\ MaxLost \in Nat
    /\ Size \in [Lots -> 1..MaxKg]
    /\ Free \notin Companies
    /\ Editing \in BOOLEAN

Kilo == 1..MaxKg
Lines == [Lots -> 0..MaxKg]
NoLines == [l \in Lots |-> 0]

LotStates ==
    {"available", "reserved", "in_transit", "delivered", "expired", "gone"}
Lot == [st : LotStates, qty : Nat, res : Nat, claim : Companies \cup {Free}]
Flight == [st : {"none", "awaiting_pilot", "in_flight"}, kg : Nat]
Mission == [st : {"closed", "accepted", "in_flight"},
            contract : BOOLEAN, kg : Lines]

ASSUME NoRosterAssumption == NoRoster \notin [Lots -> Flight]

VARIABLES
    lots,          \* world.lots in RAM; "gone" is pruned from the array
    flight,        \* the NPC flight that holds the lot, if any
    book,          \* the companies' missions
    flown,         \* history: kilograms carried away from each lot
    lost,          \* history: kilograms lost to impacts
    piloted,       \* <<c, l>>: c's list of missions has a contract one on l
    deferred       \* what the last command still has to acknowledge

vars == <<lots, flight, book, flown, lost, piloted, deferred>>

Closed == [st |-> "closed", contract |-> FALSE, kg |-> NoLines]
NoFlight == [st |-> "none", kg |-> 0]
NoDeferred == [slice |-> {}, roster |-> NoRoster, fresh |-> {}]

Init ==
    /\ lots = [l \in Lots |-> [st |-> "available", qty |-> Size[l],
                               res |-> 0, claim |-> Free]]
    /\ flight = [l \in Lots |-> NoFlight]
    /\ book = [m \in Missions |-> Closed]
    /\ flown = [l \in Lots |-> 0]
    /\ lost = [l \in Lots |-> 0]
    /\ piloted = {}
    /\ deferred = NoDeferred
-----------------------------------------------------------------------------
(* One lot.                                                                *)

Lesser(a, b) == IF a < b THEN a ELSE b
Minus(a, b) == IF a < b THEN 0 ELSE a - b

Present(lot) == lot.st # "gone"

\* lotAvailableKg
Avail(lot) == IF lot.st \in {"available", "reserved"}
              THEN Minus(lot.qty, lot.res) ELSE 0

\* reserveShipmentLot, past its refusals; Free when no companyId is passed.
Reserved(lot, k, c) ==
    [lot EXCEPT !.res = @ + k,
                !.st = IF lot.res + k >= lot.qty THEN "reserved" ELSE @,
                !.claim = IF c = Free THEN @ ELSE c]

\* releaseShipmentReservation
Released(lot, k) ==
    LET r == Minus(lot.res, k)
        reopened == lot.st \in {"reserved", "in_transit"} /\ r < lot.qty
    IN  [lot EXCEPT !.res = r,
                    !.st = IF reopened
                           THEN (IF r > 0 THEN "reserved" ELSE "available")
                           ELSE IF r = 0 /\ @ = "reserved" THEN "available"
                           ELSE @,
                    !.claim = IF r = 0 THEN Free ELSE @]

\* shrinkLotAfterDelivery; a remainder not worth a hop is retired (scrap).
Shrunk(lot, k, scrap) ==
    LET take == Lesser(k, lot.qty)
        q == lot.qty - take
        r == Minus(lot.res, take)
    IN  IF k = 0 THEN lot
        ELSE [lot EXCEPT !.qty = q,
                         !.res = IF q = 0 THEN 0 ELSE r,
                         !.st = IF q = 0 THEN "delivered"
                                ELSE IF r > 0 THEN "reserved"
                                ELSE IF scrap THEN "expired"
                                ELSE "available"]

\* Mutant: only a lot that was pruned is made again.
HealedWhenGone(lot, fl) ==
    IF fl.st = "awaiting_pilot" /\ ~Present(lot)
    THEN [lot EXCEPT !.st = "reserved", !.qty = fl.kg, !.res = fl.kg,
                     !.claim = Free]
    ELSE lot

\* healAwaitingPilotBoardLots: an offer whose lot left the board gets a new one.
Healed(lot, fl) ==
    IF fl.st = "awaiting_pilot" /\ lot.st \notin {"available", "reserved"}
    THEN [lot EXCEPT !.st = "reserved", !.qty = fl.kg, !.res = fl.kg,
                     !.claim = IF Present(lot) THEN @ ELSE Free]
    ELSE lot

\* A carrier or a mission leaves with the whole lot.
Full(lot) == lot.res >= lot.qty /\ lot.qty > 0
Airborne(lot) == IF Full(lot) THEN [lot EXCEPT !.st = "in_transit"] ELSE lot
-----------------------------------------------------------------------------
(* The planet: w is [lots, flight, book], live or a command's clone.        *)

Live == [lots |-> lots, flight |-> flight, book |-> book]

Open(w) == {m \in Missions : w.book[m].st # "closed"}
Of(c) == {m \in Missions : Owner[m] = c}

\* Kilograms of lot l on the manifests of missions S, counted one by one.
KgOn(w, S, l) == Cardinality({u \in S \X Kilo : u[2] <= w.book[u[1]].kg[l]})

\* expectedLotReservationKg: the carrier and one company's open missions.
Expected(w, c, l) == w.flight[l].kg + KgOn(w, Open(w) \cap Of(c), l)

\* Mutant: a lot that nobody is expected to hold is passed over.
ReconciledWhenHeld(w, c) ==
    [w EXCEPT !.lots = [l \in Lots |->
        LET lot == w.lots[l]
            expected == Expected(w, c, l)
        IN  IF lot.res <= expected \/ expected = 0 THEN lot
            ELSE [lot EXCEPT !.res = expected, !.st = "reserved"]]]

\* reconcileLotReservations: what exceeds the expectation is released.  The
\* claim stays.
Reconciled(w, c) ==
    [w EXCEPT !.lots = [l \in Lots |->
        LET lot == w.lots[l]
            expected == Expected(w, c, l)
        IN  IF lot.res <= expected THEN lot
            ELSE IF lot.qty = 0 THEN [lot EXCEPT !.res = 0, !.st = "delivered"]
            ELSE [lot EXCEPT !.res = expected,
                             !.st = IF expected = 0 THEN "available"
                                    ELSE "reserved"]]]

Healing(w) ==
    [w EXCEPT !.lots = [l \in Lots |-> Healed(w.lots[l], w.flight[l])]]

\* Lines of a manifest booked on their lots, for c or without a claim.
Booking(w, lines, c) ==
    [w EXCEPT !.lots = [l \in Lots |->
        IF lines[l] > 0 THEN Reserved(w.lots[l], lines[l], c) ELSE w.lots[l]]]

\* Mutant: the lines are compared with the lot, not with what is left of it.
FitsTheLot(w, lines) == \A l \in Lots : lines[l] <= w.lots[l].qty

Fits(w, lines) == \A l \in Lots : lines[l] <= Avail(w.lots[l])

Releasing(w, kg) ==
    [w EXCEPT !.lots = [l \in Lots |->
        IF kg[l] > 0 /\ Present(w.lots[l])
        THEN Released(w.lots[l], kg[l]) ELSE w.lots[l]]]

\* returnContractSliceToOpenOffer: a contract slice goes back to the offer
\* still open on its lot.
FoldsBack(w, m, live, l) ==
    /\ w.book[m].contract
    /\ w.book[m].kg[l] > 0
    /\ Present(w.lots[l])
    /\ w.flight[l].st = "awaiting_pilot"
    /\ live

\* cancelMission for all of S; live: the offers' windows have not ended.
Cancelling(w, S, live) ==
    LET back(l) == {m \in S : FoldsBack(w, m, live, l)}
        out == Releasing(w, [l \in Lots |-> KgOn(w, S \ back(l), l)]).lots
    IN  [lots |-> [l \in Lots |->
                    IF /\ back(l) # {}
                       /\ out[l].st \in {"in_transit", "available"}
                    THEN [out[l] EXCEPT !.st = "reserved"] ELSE out[l]],
         flight |-> [l \in Lots |->
                    [w.flight[l] EXCEPT !.kg = @ + KgOn(w, back(l), l)]],
         book |-> [m \in Missions |-> IF m \in S THEN Closed ELSE w.book[m]]]

\* departMission: the lots are off the market, unless a remainder is on offer.
Departing(w, m) ==
    [w EXCEPT !.lots = [l \in Lots |->
                IF w.book[m].kg[l] > 0 /\ Full(w.lots[l])
                THEN IF w.flight[l].st = "awaiting_pilot"
                     THEN [w.lots[l] EXCEPT
                             !.st = IF @ = "in_transit" THEN "reserved" ELSE @]
                     ELSE Airborne(w.lots[l])
                ELSE w.lots[l]],
              !.book[m].st = "in_flight"]

LinesPresent(w, m) ==
    \A l \in Lots : w.book[m].kg[l] > 0 => Present(w.lots[l])

\* settleMission: every line shrinks its lot; scrap: which remainders retire.
Delivering(w, m, scrap) ==
    [w EXCEPT !.lots = [l \in Lots |->
                IF Present(w.lots[l])
                THEN Shrunk(w.lots[l], w.book[m].kg[l], l \in scrap)
                ELSE w.lots[l]],
              !.book[m] = Closed]
-----------------------------------------------------------------------------
(* Publication: what of a clone reaches live RAM, and when.                *)

LotsOf(lines) == {l \in Lots : lines[l] > 0}

\* applyCommandWorldSliceToRam
Merged(w, slice) == [l \in Lots |-> IF l \in slice THEN w.lots[l] ELSE lots[l]]

\* The end of a command: its missions and the lots of its slice are
\* published under the locks; the acknowledgement of the slice and the NPC
\* roster follow off the locks.  fresh is the mission the command has
\* accepted: its deadline is far away.
Publish(w, slice, roster, fresh) ==
    /\ deferred = NoDeferred
    /\ book' = w.book
    /\ lots' = Merged(w, slice)
    /\ deferred' = [slice |-> {l \in slice : Present(w.lots[l])},
                    roster |-> roster, fresh |-> fresh]
    /\ UNCHANGED flight

\* The roster is saved when the command's mission is a contract one.
RosterOf(w, m) == IF book[m].contract THEN w.flight ELSE NoRoster

\* A slice named by lots takes the first mission on one of them, closed ones
\* included, which may be a contract one.
AnyRoster(w, c, slice) ==
    {NoRoster} \cup {r \in {w.flight} : \E l \in slice : <<c, l>> \in piloted}

\* persistCommandWorldSlice, once committed, applies the slice again.  The
\* clone's lot objects have been live since they were published, so only a lot
\* pruned meanwhile changes: it is back as it was, dead.
AckSlice ==
    /\ deferred.slice # {}
    /\ lots' = [l \in Lots |->
           IF l \in deferred.slice /\ ~Present(lots[l])
           THEN [lots[l] EXCEPT !.st = IF lots[l].qty = 0 THEN "delivered"
                                       ELSE "expired"]
           ELSE lots[l]]
    /\ deferred' = IF deferred.roster = NoRoster THEN NoDeferred
                   ELSE [deferred EXCEPT !.slice = {}]
    /\ UNCHANGED <<flight, book, flown, lost, piloted>>

\* persistNpcLiveWorld of a deferred slice puts the clone's roster into RAM.
AckRoster ==
    /\ deferred.slice = {}
    /\ deferred.roster # NoRoster
    /\ flight' = deferred.roster
    /\ deferred' = NoDeferred
    /\ UNCHANGED <<lots, book, flown, lost, piloted>>
-----------------------------------------------------------------------------
(* Commands of the companies.                                              *)

Quiet == deferred = NoDeferred

\* Missions of c that may be past their deadline and its grace.
Overdue(c) == (Open(Live) \cap Of(c)) \ deferred.fresh

Unloaded(l, k) == Lesser(MaxFlown, flown[l] + k)

\* Claimed by another company than c.
Foreign(lot, c) == lot.claim \notin {Free, c}

\* findOpenMissionHoldingLots: one open mission of c holds all of S.
HeldTogether(w, S, c) ==
    \E m \in Open(w) \cap Of(c) : \A l \in S : w.book[m].kg[l] > 0

\* The new lines join the manifest of m, closed or accepted.
Manifested(w, m, lines) ==
    [w EXCEPT !.book[m].st = "accepted",
              !.book[m].kg = [l \in Lots |-> @[l] + lines[l]]]

WithinBound(m, lines) == \A l \in Lots : book[m].kg[l] + lines[l] <= MaxKg

OneLine(l, k) == [NoLines EXCEPT ![l] = k]

\* POST /api/accept: executeAcceptLot.
Accept(m, l, k) ==
    LET lines == OneLine(l, k)
        c == Owner[m]
    IN  /\ Quiet
        /\ book[m].st \in {"closed", "accepted"}
        /\ WithinBound(m, lines)
        /\ ~Foreign(lots[l], c)
        /\ ~HeldTogether(Live, {l}, c)
        /\ k <= Avail(lots[l])
        /\ \E roster \in AnyRoster(Live, c, {l}) :
               Publish(Manifested(Booking(Live, lines, c), m, lines), {l},
                       roster, {m})
        /\ UNCHANGED <<flown, lost, piloted>>

\* POST /api/staging/commit: reconcile, then executeAcceptManifest.  A
\* conflict or a replay publishes the reconciled lots and nothing else.
Stage(m, lines) ==
    LET c == Owner[m]
        w == Reconciled(Live, c)
        slice == LotsOf(lines)
    IN  /\ Quiet
        /\ book[m].st \in {"closed", "accepted"}
        /\ IF \/ \E l \in slice : Foreign(lots[l], c)
              \/ HeldTogether(w, slice, c)
           THEN Publish(w, slice, NoRoster, {})
           ELSE /\ WithinBound(m, lines)
                /\ Fits(w, lines)
                /\ \E roster \in AnyRoster(w, c, slice) :
                       Publish(Manifested(Booking(w, lines, c), m, lines),
                               slice, roster, {m})
        /\ UNCHANGED <<flown, lost, piloted>>

\* The replace branch of the same route: replaceMissionManifest releases the
\* old lines and books the new ones without a company.  Only the lots of the
\* new lines are published.
Edit(m, lines) ==
    LET w == Reconciled(Live, Owner[m])
        emptied == Releasing(w, book[m].kg)
        edited == Booking(emptied, lines, Free)
    IN  /\ Editing
        /\ Quiet
        /\ book[m].st = "accepted"
        /\ Fits(emptied, lines)
        /\ \E roster \in AnyRoster(w, Owner[m], LotsOf(lines)) :
               Publish([edited EXCEPT !.book[m].kg = lines], LotsOf(lines),
                       roster, {})
        /\ UNCHANGED <<flown, lost, piloted>>

\* trimMissionCargoToKg drops the last lines first, in an order the manifest
\* has and this model does not: at most one line is trimmed and not dropped.
Trims(kg, keep) ==
    /\ keep # NoLines
    /\ \A l \in Lots : keep[l] <= kg[l]
    /\ \A l, k \in Lots :
           /\ keep[l] \notin {0, kg[l]}
           /\ keep[k] \notin {0, kg[k]}
           => l = k

\* Dispatch (openDispatch, OFP cargo): housekeeping on the clone cancels the
\* company's stale missions, the manifest is trimmed to what the aircraft
\* lifts; only the lots of m are published.
Dispatch(m, keep, stale, live) ==
    LET c == Owner[m]
        tidy == Cancelling(Reconciled(Live, c), stale, live)
        dropped == [l \in Lots |-> book[m].kg[l] - keep[l]]
        w == [Releasing(tidy, dropped) EXCEPT !.book[m].kg = keep]
    IN  /\ Quiet
        /\ book[m].st = "accepted"
        /\ m \notin stale
        /\ stale \subseteq Overdue(c)
        /\ Trims(book[m].kg, keep)
        /\ Publish(w, LotsOf(book[m].kg), RosterOf(w, m), {})
        /\ UNCHANGED <<flown, lost, piloted>>

\* Whether a dispatch trims is judged before the locks, from a manifest that may
\* have grown since; the write then saves the trimmed mission and not the lots.
DispatchGrown(m, keep) ==
    /\ Quiet
    /\ book[m].st = "accepted"
    /\ Trims(book[m].kg, keep)
    /\ book' = [book EXCEPT ![m].kg = keep]
    /\ UNCHANGED <<lots, flight, flown, lost, piloted, deferred>>

\* executeDepartFlight
Depart(m) ==
    LET w == Departing(Live, m)
    IN  /\ Quiet
        /\ book[m].st = "accepted"
        /\ LinesPresent(Live, m)
        /\ Publish(w, LotsOf(book[m].kg), RosterOf(w, m), {})
        /\ UNCHANGED <<flown, lost, piloted>>

\* revertFalseDepartMission, by the watch session.
RevertDepart(m) ==
    LET w == [Live EXCEPT
                !.lots = [l \in Lots |->
                    IF /\ book[m].kg[l] > 0
                       /\ lots[l].st = "in_transit" /\ lots[l].res > 0
                    THEN [lots[l] EXCEPT !.st = "reserved"] ELSE lots[l]],
                !.book[m].st = "accepted"]
    IN  /\ Quiet
        /\ book[m].st = "in_flight"
        /\ Publish(w, LotsOf(book[m].kg), RosterOf(w, m), {})
        /\ UNCHANGED <<flown, lost, piloted>>

\* leaveFreightAtHub: the mission is accepted again, its lots are untouched.
LeaveAtHub(m) ==
    LET w == [Live EXCEPT !.book[m].st = "accepted"]
    IN  /\ Quiet
        /\ book[m].st = "in_flight"
        /\ Publish(w, LotsOf(book[m].kg), RosterOf(w, m), {})
        /\ UNCHANGED <<flown, lost, piloted>>

\* executeSettleFlight; an accepted mission departs first, which needs its
\* lots.  The destination receives the whole manifest whatever the lot had.
Settle(m, scrap) ==
    LET w == Delivering(Live, m, scrap)
    IN  /\ Quiet
        /\ \/ book[m].st = "in_flight"
           \/ book[m].st = "accepted" /\ LinesPresent(Live, m)
        /\ scrap \subseteq LotsOf(book[m].kg)
        /\ Publish(w, LotsOf(book[m].kg), RosterOf(w, m), {})
        /\ flown' = [l \in Lots |-> Unloaded(l, book[m].kg[l])]
        /\ UNCHANGED <<lost, piloted>>

\* POST /api/cancel: executeCancelMission, then reconcile.
Cancel(m, live) ==
    LET w == Reconciled(Cancelling(Live, {m}, live), Owner[m])
    IN  /\ Quiet
        /\ book[m].st # "closed"
        /\ Publish(w, LotsOf(book[m].kg), RosterOf(w, m), {})
        /\ UNCHANGED <<flown, lost, piloted>>

WithinLosses(m) == \A l \in Lots : lost[l] + book[m].kg[l] <= MaxLost

\* applyImpactFail: failMissionImpact shrinks the lots of the clone, and the
\* write's persist 'company' saves the mission and drops the clone.
Impact(m) ==
    /\ Quiet
    /\ book[m].st = "in_flight"
    /\ WithinLosses(m)
    /\ book' = [book EXCEPT ![m] = Closed]
    /\ lost' = [l \in Lots |-> lost[l] + book[m].kg[l]]
    /\ UNCHANGED <<lots, flight, flown, piloted, deferred>>

\* acceptContractPilotOffer, saved with persist 'npcLive': the clone becomes
\* the planet under the locks.  k is what the pilot's aircraft lifts.
TakeOffer(m, l, k) ==
    LET w == Healing(Live)
        left == flight[l].kg - k
    IN  /\ Quiet
        /\ book[m].st = "closed"
        /\ flight[l].st = "awaiting_pilot"
        /\ k <= flight[l].kg
        /\ w.lots[l].res >= flight[l].kg
        /\ book' = [book EXCEPT ![m] = [st |-> "accepted", contract |-> TRUE,
                                        kg |-> OneLine(l, k)]]
        /\ flight' = [flight EXCEPT ![l] =
                        IF left > 0 THEN [@ EXCEPT !.kg = left] ELSE NoFlight]
        /\ lots' = w.lots
        /\ piloted' = piloted \cup {<<Owner[m], l>>}
        /\ UNCHANGED <<flown, lost, deferred>>

\* expireStaleActiveMissions in the fee settlement of the mission's company,
\* on the live planet.
ExpireStale(m, live) ==
    LET w == Cancelling(Live, {m}, live)
    IN  /\ m \in Overdue(Owner[m])
        /\ lots' = w.lots
        /\ flight' = w.flight
        /\ book' = w.book
        /\ UNCHANGED <<flown, lost, piloted, deferred>>
-----------------------------------------------------------------------------
(* The world pulse: one chunk of catch-up, then the housekeeping of the    *)
(* company c whose missions the loop has loaded.                           *)

\* What a chunk may do to a lot: at most one of these.
Fate == [what : {"none", "due", "scrap", "retire", "prune"}, kg : {0}]
        \cup [what : {"carry", "offer"}, kg : Kilo]

CanMeet(lot, fl, f) ==
    /\ f.what = "due" => fl.st # "none"
    /\ f.what = "scrap" => fl.st = "in_flight" /\ Present(lot)
    /\ f.what = "retire" => lot.st = "available" /\ lot.res = 0
    /\ f.what = "prune" => lot.st \in {"delivered", "expired"}
    /\ f.what \in {"carry", "offer"} =>
           fl.st = "none" /\ f.kg <= Avail(lot)

\* promoteAwaitingPilotFlight: the window of an offer has ended.
\* settleNpcFlight: the carrier has arrived, whatever became of its lot.
\* retireLotToOrigin, pruneDeadLots.
\* claimLotForNpc: a bid that departs at once, or waits for a crew.
LotAfter(lot, fl, f) ==
    CASE f.what = "due" /\ fl.st = "awaiting_pilot" -> Airborne(lot)
      [] f.what \in {"due", "scrap"} /\ fl.st = "in_flight" ->
             IF Present(lot) THEN Shrunk(lot, fl.kg, f.what = "scrap") ELSE lot
      [] f.what = "retire" -> [lot EXCEPT !.st = "expired"]
      [] f.what = "prune" -> [lot EXCEPT !.st = "gone"]
      [] f.what = "carry" -> Airborne(Reserved(lot, f.kg, Free))
      [] f.what = "offer" -> Reserved(lot, f.kg, Free)
      [] OTHER -> lot

\* Mutant: flights that have arrived stay in the roster.
FlightKept(fl, f) ==
    CASE f.what = "due" /\ fl.st = "awaiting_pilot" ->
             [fl EXCEPT !.st = "in_flight"]
      [] f.what \in {"due", "scrap"} /\ fl.st = "in_flight" ->
             [fl EXCEPT !.st = "completed"]
      [] f.what = "carry" -> [st |-> "in_flight", kg |-> f.kg]
      [] f.what = "offer" -> [st |-> "awaiting_pilot", kg |-> f.kg]
      [] OTHER -> fl

FlightAfter(fl, f) ==
    CASE f.what = "due" /\ fl.st = "awaiting_pilot" ->
             [fl EXCEPT !.st = "in_flight"]
      [] f.what \in {"due", "scrap"} /\ fl.st = "in_flight" -> NoFlight
      [] f.what = "carry" -> [st |-> "in_flight", kg |-> f.kg]
      [] f.what = "offer" -> [st |-> "awaiting_pilot", kg |-> f.kg]
      [] OTHER -> fl

\* advanceEconomyCatchUp, reconcileLotReservations, then the cancellation of
\* the company's orphan and stale missions, all on the live planet.
Pulse(c) ==
    LET begun == Healing(Live)
    IN  \E fate \in [Lots -> Fate] :
        /\ \A l \in Lots : CanMeet(begun.lots[l], flight[l], fate[l])
        /\ \E stale \in SUBSET Overdue(c), live \in BOOLEAN :
           /\ stale = {} => live
           /\ LET ticked == [lots |-> [l \in Lots |->
                                  LotAfter(begun.lots[l], flight[l], fate[l])],
                              flight |-> [l \in Lots |->
                                  FlightAfter(flight[l], fate[l])],
                              book |-> book]
                   w == Cancelling(Reconciled(Healing(ticked), c), stale, live)
               IN  /\ lots' = w.lots
                   /\ flight' = w.flight
                   /\ book' = w.book
                   /\ flown' = [l \in Lots |->
                          IF /\ fate[l].what \in {"due", "scrap"}
                             /\ flight[l].st = "in_flight"
                          THEN Unloaded(l, flight[l].kg) ELSE flown[l]]
        /\ UNCHANGED <<lost, piloted, deferred>>
-----------------------------------------------------------------------------
Next ==
    \/ \E m \in Missions :
          \/ \E l \in Lots, k \in Kilo : Accept(m, l, k) \/ TakeOffer(m, l, k)
          \/ \E lines \in Lines \ {NoLines} : Stage(m, lines) \/ Edit(m, lines)
          \/ \E keep \in Lines, stale \in SUBSET Missions, live \in BOOLEAN :
                 Dispatch(m, keep, stale, live)
          \/ \E keep \in Lines : DispatchGrown(m, keep)
          \/ Depart(m)
          \/ RevertDepart(m)
          \/ LeaveAtHub(m)
          \/ \E scrap \in SUBSET Lots : Settle(m, scrap)
          \/ \E live \in BOOLEAN : Cancel(m, live) \/ ExpireStale(m, live)
          \/ Impact(m)
    \/ \E c \in Companies : Pulse(c)
    \/ AckSlice
    \/ AckRoster

Spec == Init /\ [][Next]_vars

\* The pulse loop runs on a timer; nothing else has to happen.
FairSpec == Spec /\ WF_vars(\E c \in Companies : Pulse(c))
-----------------------------------------------------------------------------
(* Properties.                                                             *)

TypeOK ==
    /\ lots \in [Lots -> Lot]
    /\ flight \in [Lots -> Flight]
    /\ book \in [Missions -> Mission]
    /\ flown \in [Lots -> Nat]
    /\ lost \in [Lots -> Nat]
    /\ piloted \subseteq Companies \X Lots
    /\ deferred.slice \subseteq Lots
    /\ deferred.roster \in [Lots -> Flight] \cup {NoRoster}
    /\ deferred.fresh \subseteq Missions

\* Kilograms of the lot that someone counts on.
Held(l) == flight[l].kg + KgOn(Live, Open(Live), l)

OnTheMarket(l) == lots[l].st \in {"available", "reserved", "in_transit"}
OnBoard(l) == lots[l].st \in {"available", "reserved"}
Offered(l) == flight[l].st = "awaiting_pilot"

\* No lot is booked beyond the kilograms it has, and one leaves the board with
\* a carrier or a pilot only when all of it is booked, so that nothing of it
\* that could be accepted is hidden: whatever is cancelled, trimmed, edited,
\* delivered, healed, reconciled with the wrong company or acknowledged late.
BookingFits ==
    \A l \in Lots : /\ lots[l].res <= lots[l].qty
                    /\ lots[l].st = "in_transit" => lots[l].res = lots[l].qty

\* What of a reservation nobody holds any more (the slice did not name the lot,
\* the impact's lots were dropped, a roster came late) is given back.
LeakRepaired ==
    \A l \in Lots : lots[l].res > Held(l) ~> lots[l].res <= Held(l)

\* A crew-needed offer is invisible until the next pulse at most: the board
\* lists lots and not flights, and a roster that comes late may restore an
\* offer whose lot has flown, was delivered or is gone.  The pulse puts the lot
\* back, and what it reconciles and cancels afterwards leaves it there.
OfferSurfaces ==
    [][\A c \in Companies :
           Pulse(c) => \A l \in Lots : Offered(l)' => OnBoard(l)']_vars

-----------------------------------------------------------------------------
(* What the code says of itself and does not keep.                         *)

\* career-mission.ts:1264: reconcileLotReservations releases reservations that
\* no longer match open missions or NPC flights, so that what the carrier and
\* the open missions hold of a lot on the market stays booked.
ReservationCovers ==
    \A l \in Lots : OnTheMarket(l) => Held(l) <= lots[l].res

\* career-mission.ts:2461: cargo lost in an impact is not available again.
LostStaysLost ==
    \A l \in Lots : flown[l] + lost[l] + Avail(lots[l]) <= Size[l]

\* career-npc.ts:2979 asserts of an offer a pilot takes that its lot, put back
\* on the board if need be, has the offer's kilograms booked.
OfferBooked ==
    \A l \in Lots : Offered(l) => Healing(Live).lots[l].res >= flight[l].kg

\* No kilogram is carried twice.
CarriedOnce == \A l \in Lots : flown[l] <= Size[l]

\* A lot that was delivered, retired or pruned never returns to the market.
NoResurrection ==
    [][\A l \in Lots : ~OnTheMarket(l) => ~OnTheMarket(l)']_vars
=============================================================================
