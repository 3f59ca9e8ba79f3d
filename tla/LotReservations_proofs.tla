----------------------- MODULE LotReservations_proofs -----------------------
(***************************************************************************)
(* Proofs about LotReservations, for any companies, missions, lots and     *)
(* sizes, and whatever a command's late saves overtake: the types, that no *)
(* lot is booked beyond what it has, and that a pulse leaves every offer   *)
(* on the board.                                                           *)
(***************************************************************************)
EXTENDS LotReservations, FiniteSetTheorems, TLAPS

-----------------------------------------------------------------------------
(* Kilograms, counted.                                                     *)

\* A lot that is booked for no more than it has, and for all of it when it has
\* left the board.
Fit(lot) == lot.res <= lot.qty /\ (lot.st = "in_transit" => lot.res = lot.qty)
FitLot == {lot \in Lot : Fit(lot)}

World == [lots : [Lots -> FitLot], flight : [Lots -> Flight],
          book : [Missions -> Mission]]

Units(w, S, l) == {u \in S \X Kilo : u[2] <= w.book[u[1]].kg[l]}

\* Counting over missions is counting a finite set.
LEMMA UnitsFinite ==
    ASSUME NEW w, NEW S \in SUBSET Missions, NEW l
    PROVE  /\ IsFiniteSet(Units(w, S, l))
           /\ KgOn(w, S, l) = Cardinality(Units(w, S, l))
           /\ KgOn(w, S, l) \in Nat
<1>1. IsFiniteSet(S)
    BY LotAssumption, FS_Subset
<1>2. IsFiniteSet(Kilo)
    BY LotAssumption, FS_Interval DEF Kilo
<1>3. IsFiniteSet(S \X Kilo)
    BY <1>1, <1>2, FS_Product
<1>4. Units(w, S, l) \in SUBSET (S \X Kilo)
    BY DEF Units
<1>5. IsFiniteSet(Units(w, S, l))
    BY <1>3, <1>4, FS_Subset
<1> QED
    BY <1>5, FS_CardinalityType DEF KgOn, Units

\* Manifests that are no longer hold no more.
LEMMA KgLess ==
    ASSUME NEW v, NEW w, NEW S \in SUBSET Missions, NEW l,
           \A m \in S : /\ v.book[m].kg[l] \in Nat /\ w.book[m].kg[l] \in Nat
                        /\ v.book[m].kg[l] <= w.book[m].kg[l]
    PROVE  KgOn(v, S, l) <= KgOn(w, S, l)
<1>1. Units(v, S, l) \in SUBSET Units(w, S, l)
    BY DEF Units, Kilo
<1> QED
    BY <1>1, UnitsFinite, FS_Subset

\* Only the manifests of S count.
LEMMA KgSame ==
    ASSUME NEW v, NEW w, NEW S \in SUBSET Missions, NEW l,
           \A m \in S : v.book[m].kg[l] = w.book[m].kg[l]
    PROVE  KgOn(v, S, l) = KgOn(w, S, l)
<1>1. Units(v, S, l) = Units(w, S, l)
    BY DEF Units
<1> QED
    BY <1>1, UnitsFinite

\* Missions apart from each other add up.
LEMMA KgSplit ==
    ASSUME NEW w, NEW S \in SUBSET Missions, NEW T \in SUBSET Missions,
           S \cap T = {}, NEW l
    PROVE  KgOn(w, S \cup T, l) = KgOn(w, S, l) + KgOn(w, T, l)
<1>1. /\ Units(w, S \cup T, l) = Units(w, S, l) \cup Units(w, T, l)
      /\ Units(w, S, l) \cap Units(w, T, l) = {}
    BY DEF Units
<1>2. Cardinality({}) = 0
    BY FS_EmptySet
<1>3. IsFiniteSet(Units(w, S, l)) /\ IsFiniteSet(Units(w, T, l))
    BY UnitsFinite
<1>4. Cardinality(Units(w, S \cup T, l))
          = Cardinality(Units(w, S, l)) + Cardinality(Units(w, T, l)) - 0
    BY <1>1, <1>2, <1>3, FS_Union
<1> QED
    BY <1>4, UnitsFinite

\* Missions without the lot on board hold nothing of it.
LEMMA KgNone ==
    ASSUME NEW w, NEW S \in SUBSET Missions, NEW l,
           \A m \in S : w.book[m].kg[l] = 0
    PROVE  KgOn(w, S, l) = 0
<1>1. Units(w, S, l) = {}
    BY DEF Units, Kilo
<1> QED
    BY <1>1, UnitsFinite, FS_EmptySet

\* One mission holds what its manifest says.
LEMMA KgOne ==
    ASSUME NEW w, NEW m \in Missions, NEW l, w.book[m].kg[l] \in 0..MaxKg
    PROVE  KgOn(w, {m}, l) = w.book[m].kg[l]
<1> DEFINE k == w.book[m].kg[l]
           f == [i \in 1..k |-> <<m, i>>]
<1>1. k \in Nat /\ k <= MaxKg /\ MaxKg \in Nat
    BY LotAssumption
<1>2. Units(w, {m}, l) = {<<m, i>> : i \in 1..k}
    BY <1>1 DEF Units, Kilo
<1>3. f \in Bijection(1..k, Units(w, {m}, l))
    BY <1>2 DEF Bijection, Injection, Surjection, IsInjective
<1>4. IsFiniteSet(1..k) /\ Cardinality(1..k) = k
    <2> HIDE DEF k
    <2>1. 1 \in Int /\ k \in Int
        BY <1>1
    <2>2. Cardinality(1..k) = IF 1 > k THEN 0 ELSE k - 1 + 1
        BY <2>1, FS_Interval
    <2> QED
        BY <1>1, <2>1, <2>2, FS_Interval
<1>5. Cardinality(Units(w, {m}, l)) = k
    BY <1>3, <1>4, FS_Bijection DEF ExistsBijection
<1> QED
    BY <1>5, UnitsFinite

\* Part of the missions holds part of the kilograms.
LEMMA KgPart ==
    ASSUME NEW w, NEW S \in SUBSET Missions, NEW T \in SUBSET S, NEW l
    PROVE  KgOn(w, T, l) + KgOn(w, S \ T, l) = KgOn(w, S, l)
<1>1. T \cup (S \ T) = S /\ T \cap (S \ T) = {}
      /\ T \in SUBSET Missions /\ S \ T \in SUBSET Missions
    OBVIOUS
<1>2. KgOn(w, T \cup (S \ T), l) = KgOn(w, T, l) + KgOn(w, S \ T, l)
    BY <1>1, KgSplit
<1> QED
    BY <1>1, <1>2

-----------------------------------------------------------------------------
(* Types of the operators.                                                 *)

\* What is left of a number is one.
LEMMA MinusNat ==
    ASSUME NEW a \in Nat, NEW b \in Nat
    PROVE  Minus(a, b) \in Nat /\ Lesser(a, b) \in Nat /\ a - Lesser(b, a) \in Nat
BY DEF Minus, Lesser

\* A lot that is reserved for what is left of it, released, shrunk, healed,
\* put aboard or taken back to the board stays fit.
LEMMA LotTypes ==
    ASSUME NEW lot \in FitLot, NEW k \in Nat
    PROVE  /\ 0 < k /\ k <= Avail(lot) =>
                 \A c \in Companies \cup {Free} : Reserved(lot, k, c) \in FitLot
           /\ Released(lot, k) \in FitLot
           /\ \A scrap \in BOOLEAN : Shrunk(lot, k, scrap) \in FitLot
           /\ \A fl \in Flight : Healed(lot, fl) \in FitLot
           /\ Airborne(lot) \in FitLot
           /\ [lot EXCEPT !.st = "reserved"] \in FitLot
<1>1. /\ lot.qty \in Nat /\ lot.res \in Nat /\ lot.res <= lot.qty
      /\ lot.st \in LotStates /\ lot.claim \in Companies \cup {Free}
      /\ lot.st = "in_transit" => lot.res = lot.qty
    BY DEF FitLot, Fit, Lot
<1>2. ASSUME 0 < k, k <= Avail(lot), NEW c \in Companies \cup {Free}
      PROVE  Reserved(lot, k, c) \in FitLot
    <2>1. lot.st \in {"available", "reserved"} /\ k <= lot.qty - lot.res
        BY <1>1, <1>2 DEF Avail, Minus
    <2>2. lot.res + k \in Nat /\ lot.res + k <= lot.qty
        BY <1>1, <2>1
    <2>3. (IF c = Free THEN lot.claim ELSE c) \in Companies \cup {Free}
        BY <1>1
    <2>4. (IF lot.res + k >= lot.qty THEN "reserved" ELSE lot.st)
              \in {"available", "reserved"}
        BY <2>1
    <2> QED
        BY <1>1, <2>2, <2>3, <2>4 DEF Reserved, FitLot, Fit, Lot, LotStates
<1>3. Released(lot, k) \in FitLot
    <2> DEFINE r == Minus(lot.res, k)
    <2>1. r \in Nat /\ r <= lot.qty
        BY <1>1 DEF Minus
    <2> HIDE DEF r
    <2> DEFINE st == IF lot.st \in {"reserved", "in_transit"} /\ r < lot.qty
                     THEN (IF r > 0 THEN "reserved" ELSE "available")
                     ELSE IF r = 0 /\ lot.st = "reserved" THEN "available"
                     ELSE lot.st
               claim == IF r = 0 THEN Free ELSE lot.claim
    <2>2. st \in LotStates /\ (st = "in_transit" => r = lot.qty)
        BY <1>1, <2>1 DEF LotStates
    <2>3. claim \in Companies \cup {Free}
        BY <1>1
    <2>4. Released(lot, k) = [lot EXCEPT !.res = r, !.st = st, !.claim = claim]
        BY DEF Released, r, Lot, FitLot
    <2> HIDE DEF st, claim
    <2> QED
        BY <1>1, <2>1, <2>2, <2>3, <2>4 DEF FitLot, Fit, Lot
<1>4. ASSUME NEW scrap \in BOOLEAN PROVE Shrunk(lot, k, scrap) \in FitLot
    <2> DEFINE q == lot.qty - Lesser(k, lot.qty)
               r == IF q = 0 THEN 0 ELSE Minus(lot.res, Lesser(k, lot.qty))
               st == IF q = 0 THEN "delivered"
                     ELSE IF Minus(lot.res, Lesser(k, lot.qty)) > 0
                          THEN "reserved"
                     ELSE IF scrap THEN "expired" ELSE "available"
    <2>1. q \in Nat /\ r \in Nat /\ r <= q
        BY <1>1 DEF Lesser, Minus
    <2>2. st \in LotStates \ {"in_transit"}
        BY DEF LotStates
    <2>3. k # 0 => Shrunk(lot, k, scrap) = [lot EXCEPT !.qty = q, !.res = r, !.st = st]
        BY DEF Shrunk
    <2> HIDE DEF q, r, st
    <2>4. CASE k = 0
        BY <2>4 DEF Shrunk
    <2>5. CASE k # 0
        BY <1>1, <2>1, <2>2, <2>3, <2>5 DEF FitLot, Fit, Lot
    <2> QED
        BY <2>4, <2>5
<1>5. ASSUME NEW fl \in Flight PROVE Healed(lot, fl) \in FitLot
    <2> DEFINE claim == IF Present(lot) THEN lot.claim ELSE Free
               back == [lot EXCEPT !.st = "reserved", !.qty = fl.kg,
                                   !.res = fl.kg, !.claim = claim]
    <2>1. fl.kg \in Nat /\ claim \in Companies \cup {Free}
        BY <1>1 DEF Flight
    <2>2. Healed(lot, fl) \in {lot, back}
        BY DEF Healed
    <2> HIDE DEF claim
    <2>3. back \in Lot
        BY <2>1 DEF FitLot, Lot, LotStates
    <2>4. Fit(back)
        BY <2>1 DEF Fit, FitLot, Lot
    <2> QED
        BY <2>2, <2>3, <2>4 DEF FitLot
<1>6. Airborne(lot) \in FitLot
    BY <1>1 DEF Airborne, Full, FitLot, Fit, Lot, LotStates
<1>7. [lot EXCEPT !.st = "reserved"] \in FitLot
    BY <1>1 DEF FitLot, Fit, Lot, LotStates
<1> QED
    BY <1>2, <1>3, <1>4, <1>5, <1>6, <1>7

\* Fit lots are lots.
LEMMA FitLots == [Lots -> FitLot] \subseteq [Lots -> Lot]
BY DEF FitLot

\* What is left of a lot is a number.
LEMMA AvailNat == \A lot \in Lot : Avail(lot) \in Nat
BY MinusNat DEF Avail, Lot

\* What is released of a lot leaves a lot, on the board if it was there.
LEMMA ReleasedShape ==
    ASSUME NEW lot \in Lot, NEW k \in Nat
    PROVE  /\ Released(lot, k) \in Lot
           /\ lot.st \in {"available", "reserved"} =>
                 Released(lot, k).st \in {"available", "reserved"}
<1>1. Minus(lot.res, k) \in Nat
    BY MinusNat DEF Lot
<1> QED
    BY <1>1 DEF Released, Lot, LotStates

\* A planet with other lots is a planet.
LEMMA WithLots ==
    ASSUME NEW w \in World, NEW f \in [Lots -> FitLot]
    PROVE  [w EXCEPT !.lots = f] \in World
BY DEF World

\* And so is one with another mission.
LEMMA WithMission ==
    ASSUME NEW w \in World, NEW m \in Missions, NEW b \in Mission
    PROVE  [w EXCEPT !.book[m] = b] \in World
BY DEF World

\* No manifest.
LEMMA NoLinesType == NoLines \in Lines /\ Closed \in Mission
BY LotAssumption DEF NoLines, Lines, Closed, Mission

\* What a company is expected to hold.
LEMMA ExpectedNat ==
    ASSUME NEW w \in World, NEW c, NEW l \in Lots
    PROVE  Expected(w, c, l) \in Nat
<1>1. Open(w) \cap Of(c) \in SUBSET Missions
    BY DEF Open, Of
<1>2. KgOn(w, Open(w) \cap Of(c), l) \in Nat
    BY <1>1, UnitsFinite
<1> QED
    BY <1>2 DEF Expected, World, Flight

\* Reconciling keeps the types.
LEMMA ReconciledType ==
    ASSUME NEW w \in World, NEW c
    PROVE  Reconciled(w, c) \in World
<1> DEFINE f == [l \in Lots |->
        LET lot == w.lots[l]
            expected == Expected(w, c, l)
        IN  IF lot.res <= expected THEN lot
            ELSE IF lot.qty = 0 THEN [lot EXCEPT !.res = 0, !.st = "delivered"]
            ELSE [lot EXCEPT !.res = expected,
                             !.st = IF expected = 0 THEN "available"
                                    ELSE "reserved"]]
<1>1. ASSUME NEW l \in Lots PROVE f[l] \in FitLot
    <2> DEFINE lot == w.lots[l]
               expected == Expected(w, c, l)
               st == IF expected = 0 THEN "available" ELSE "reserved"
    <2>1. lot \in FitLot /\ expected \in Nat
        BY ExpectedNat DEF World
    <2>2. f[l] = IF lot.res <= expected THEN lot
                 ELSE IF lot.qty = 0
                      THEN [lot EXCEPT !.res = 0, !.st = "delivered"]
                      ELSE [lot EXCEPT !.res = expected, !.st = st]
        OBVIOUS
    <2>3. st \in LotStates \ {"in_transit"}
        BY DEF LotStates
    <2> HIDE DEF lot, expected, st
    <2>4. lot \in Lot /\ lot.res \in Nat /\ lot.qty \in Nat /\ lot.res <= lot.qty
        BY <2>1 DEF FitLot, Fit, Lot
    <2>5. lot.res > expected =>
              [lot EXCEPT !.res = expected, !.st = st] \in FitLot
        <3> SUFFICES ASSUME lot.res > expected
                     PROVE  [lot EXCEPT !.res = expected, !.st = st] \in FitLot
            OBVIOUS
        <3>1. expected <= lot.qty
            BY <2>1, <2>4
        <3>2. [lot EXCEPT !.res = expected, !.st = st] \in Lot
            BY <2>1, <2>3, <2>4 DEF Lot
        <3>3. Fit([lot EXCEPT !.res = expected, !.st = st])
            BY <2>3, <2>4, <3>1 DEF Fit, Lot
        <3> QED
            BY <3>2, <3>3 DEF FitLot
    <2>6. [lot EXCEPT !.res = 0, !.st = "delivered"] \in FitLot
        <3>1. [lot EXCEPT !.res = 0, !.st = "delivered"] \in Lot
            BY <2>4 DEF Lot, LotStates
        <3>2. Fit([lot EXCEPT !.res = 0, !.st = "delivered"])
            BY <2>4 DEF Fit, Lot
        <3> QED
            BY <3>1, <3>2 DEF FitLot
    <2>7. lot.res > expected \/ lot.res <= expected
        BY <2>1, <2>4
    <2> QED
        BY <2>1, <2>2, <2>5, <2>6, <2>7
<1>2. f \in [Lots -> FitLot]
    BY <1>1
<1> QED
    BY <1>2, WithLots DEF Reconciled

\* Healing does.
LEMMA HealingType ==
    ASSUME NEW w \in World
    PROVE  Healing(w) \in World
<1>1. [l \in Lots |-> Healed(w.lots[l], w.flight[l])] \in [Lots -> FitLot]
    BY LotTypes DEF World
<1> QED
    BY <1>1, WithLots DEF Healing

\* Booking lines that fit does, and so does releasing lines.
LEMMA BookingType ==
    ASSUME NEW w \in World, NEW lines \in [Lots -> Nat],
           NEW c \in Companies \cup {Free}
    PROVE  /\ Fits(w, lines) => Booking(w, lines, c) \in World
           /\ Releasing(w, lines) \in World
<1>1. \A l \in Lots : w.lots[l] \in FitLot /\ lines[l] \in Nat
    BY DEF World
<1>2. ASSUME Fits(w, lines)
      PROVE  [l \in Lots |-> IF lines[l] > 0 THEN Reserved(w.lots[l], lines[l], c)
                             ELSE w.lots[l]] \in [Lots -> FitLot]
    BY <1>1, <1>2, LotTypes DEF Fits
<1>3. [l \in Lots |-> IF lines[l] > 0 /\ Present(w.lots[l])
                      THEN Released(w.lots[l], lines[l])
                      ELSE w.lots[l]] \in [Lots -> FitLot]
    BY <1>1, LotTypes
<1> QED
    BY <1>2, <1>3, WithLots DEF Booking, Releasing

\* Cancelling does.
LEMMA CancellingType ==
    ASSUME NEW w \in World, NEW S \in SUBSET Missions, NEW live
    PROVE  Cancelling(w, S, live) \in World
<1> DEFINE back(l) == {m \in S : FoldsBack(w, m, live, l)}
           kg == [l \in Lots |-> KgOn(w, S \ back(l), l)]
           out == Releasing(w, kg).lots
<1>1. \A l \in Lots : KgOn(w, back(l), l) \in Nat /\ KgOn(w, S \ back(l), l) \in Nat
    <2> SUFFICES ASSUME NEW l \in Lots
                 PROVE  KgOn(w, back(l), l) \in Nat
                        /\ KgOn(w, S \ back(l), l) \in Nat
        OBVIOUS
    <2>1. back(l) \in SUBSET Missions /\ S \ back(l) \in SUBSET Missions
        OBVIOUS
    <2> QED
        BY <2>1, UnitsFinite
<1> HIDE DEF back
<1>2. kg \in [Lots -> Nat]
    BY <1>1
<1> HIDE DEF kg
<1>3. out \in [Lots -> FitLot]
    <2>1. Releasing(w, kg) \in World
        BY <1>2, BookingType
    <2> QED
        BY <2>1 DEF World
<1> HIDE DEF out
<1>4. [l \in Lots |-> IF back(l) # {} /\ out[l].st \in {"in_transit", "available"}
                      THEN [out[l] EXCEPT !.st = "reserved"] ELSE out[l]]
          \in [Lots -> FitLot]
    BY <1>3, LotTypes
<1>5. [l \in Lots |-> [w.flight[l] EXCEPT !.kg = @ + KgOn(w, back(l), l)]]
          \in [Lots -> Flight]
    <2> SUFFICES ASSUME NEW l \in Lots
                 PROVE  [w.flight[l] EXCEPT !.kg = @ + KgOn(w, back(l), l)] \in Flight
        OBVIOUS
    <2>1. w.flight[l] \in Flight
        BY DEF World
    <2> DEFINE n == KgOn(w, back(l), l)
    <2>2. n \in Nat
        BY <1>1
    <2> HIDE DEF n
    <2>3. [w.flight[l] EXCEPT !.kg = @ + n] \in Flight
        BY <2>1, <2>2 DEF Flight
    <2> QED
        BY <2>3 DEF n
<1>6. [m \in Missions |-> IF m \in S THEN Closed ELSE w.book[m]]
          \in [Missions -> Mission]
    BY NoLinesType DEF World
<1> QED
    BY <1>4, <1>5, <1>6 DEF Cancelling, World, back, out, kg

\* A departure does.
LEMMA DepartingType ==
    ASSUME NEW w \in World, NEW m \in Missions
    PROVE  Departing(w, m) \in World
<1> DEFINE f == [l \in Lots |->
                IF w.book[m].kg[l] > 0 /\ Full(w.lots[l])
                THEN IF w.flight[l].st = "awaiting_pilot"
                     THEN [w.lots[l] EXCEPT
                             !.st = IF @ = "in_transit" THEN "reserved" ELSE @]
                     ELSE Airborne(w.lots[l])
                ELSE w.lots[l]]
<1>1. ASSUME NEW l \in Lots PROVE f[l] \in FitLot
    <2>1. w.lots[l] \in FitLot
        BY DEF World
    <2>2. /\ Airborne(w.lots[l]) \in FitLot
          /\ [w.lots[l] EXCEPT !.st = "reserved"] \in FitLot
        BY <2>1, LotTypes
    <2>3. [w.lots[l] EXCEPT !.st = w.lots[l].st] = w.lots[l]
        BY <2>1 DEF FitLot, Lot
    <2> QED
        BY <2>1, <2>2, <2>3
<1>2. f \in [Lots -> FitLot]
    BY <1>1
<1>3. [w.book[m] EXCEPT !.st = "in_flight"] \in Mission
    BY DEF World, Mission
<1> HIDE DEF f
<1>4. [w EXCEPT !.lots = f, !.book[m].st = "in_flight"] \in World
    BY <1>2, <1>3 DEF World
<1> QED
    BY <1>4 DEF Departing, f

\* A settlement does.
LEMMA DeliveringType ==
    ASSUME NEW w \in World, NEW m \in Missions, NEW scrap
    PROVE  Delivering(w, m, scrap) \in World
<1> DEFINE f == [l \in Lots |->
                IF Present(w.lots[l])
                THEN Shrunk(w.lots[l], w.book[m].kg[l], l \in scrap)
                ELSE w.lots[l]]
<1>1. ASSUME NEW l \in Lots PROVE f[l] \in FitLot
    <2>1. w.lots[l] \in FitLot /\ w.book[m].kg[l] \in Nat /\ (l \in scrap) \in BOOLEAN
        BY LotAssumption DEF World, Mission, Lines
    <2> QED
        BY <2>1, LotTypes
<1>2. f \in [Lots -> FitLot]
    BY <1>1
<1> HIDE DEF f
<1>3. [w EXCEPT !.lots = f, !.book[m] = Closed] \in World
    BY <1>2, NoLinesType DEF World
<1> QED
    BY <1>3 DEF Delivering, f

-----------------------------------------------------------------------------
(* The invariant: types, and lots that are fit.                            *)

Roster == [Lots -> Flight]

LotInv ==
    /\ TypeOK
    /\ lots \in [Lots -> FitLot]
    /\ deferred \in [slice : SUBSET Lots, roster : Roster \cup {NoRoster},
                     fresh : SUBSET Missions]

\* The live planet is one.
LEMMA LiveType == ASSUME LotInv PROVE Live \in World
BY DEF LotInv, TypeOK, Live, World

\* The roster a command may save.
LEMMA RosterType ==
    ASSUME NEW w \in World, NEW m, NEW c, NEW slice
    PROVE  /\ RosterOf(w, m) \in Roster \cup {NoRoster}
           /\ AnyRoster(w, c, slice) \subseteq Roster \cup {NoRoster}
BY DEF RosterOf, AnyRoster, Roster, World

\* The end of a command.
LEMMA PublishType ==
    ASSUME LotInv, NEW w \in World, NEW slice \in SUBSET Lots,
           NEW roster \in Roster \cup {NoRoster}, NEW fresh \in SUBSET Missions,
           Publish(w, slice, roster, fresh),
           flown' \in [Lots -> Nat], UNCHANGED <<lost, piloted>>
    PROVE  LotInv'
<1>1. /\ book' \in [Missions -> Mission] /\ lots' \in [Lots -> FitLot]
      /\ lots' \in [Lots -> Lot]
    BY DEF Publish, Merged, World, LotInv, FitLot
<1>2. /\ flight' \in Roster
      /\ deferred' \in [slice : SUBSET Lots, roster : Roster \cup {NoRoster},
                        fresh : SUBSET Missions]
    BY DEF Publish, LotInv, TypeOK, Roster
<1>3. /\ lost' \in [Lots -> Nat] /\ piloted' \subseteq Companies \X Lots
    BY DEF LotInv, TypeOK
<1> QED
    BY <1>1, <1>2, <1>3 DEF LotInv, TypeOK, Roster

\* What the history counts is a number.
LEMMA UnloadedNat ==
    ASSUME LotInv, NEW l \in Lots, NEW k \in Nat
    PROVE  Unloaded(l, k) \in Nat
<1>1. flown[l] + k \in Nat /\ MaxFlown \in Nat
    BY LotAssumption DEF LotInv, TypeOK
<1> QED
    BY <1>1, MinusNat DEF Unloaded

\* A manifest in the book.
LEMMA BookLine ==
    ASSUME NEW w \in World, NEW m \in Missions, NEW l \in Lots
    PROVE  w.book[m].kg \in Lines /\ w.book[m].kg[l] \in 0..MaxKg
           /\ w.book[m].kg[l] \in Nat /\ MaxKg \in Nat
BY LotAssumption DEF World, Mission, Lines

\* Lines that fit the bound join a manifest.
LEMMA ManifestedType ==
    ASSUME LotInv, NEW w \in World, w.book = book, NEW m \in Missions,
           NEW lines \in Lines, WithinBound(m, lines)
    PROVE  Manifested(w, m, lines) \in World
<1> DEFINE sum == [l \in Lots |-> w.book[m].kg[l] + lines[l]]
<1>1. sum \in Lines
    <2> SUFFICES ASSUME NEW l \in Lots PROVE sum[l] \in 0..MaxKg
        BY DEF Lines
    <2> QED
        BY BookLine DEF WithinBound, Lines
<1>2. DOMAIN w.book[m].kg = Lots
    BY DEF World, Mission, Lines
<1>3. [w.book[m] EXCEPT !.st = "accepted", !.kg = sum] \in Mission
    BY <1>1 DEF World, Mission
<1> HIDE DEF sum
<1>4. [w EXCEPT !.book[m] = [w.book[m] EXCEPT !.st = "accepted", !.kg = sum]]
          \in World
    BY <1>3, WithMission
<1>5. Manifested(w, m, lines)
          = [w EXCEPT !.book[m] = [w.book[m] EXCEPT !.st = "accepted", !.kg = sum]]
    BY DEF Manifested, World, Mission, sum
<1> QED
    BY <1>4, <1>5

\* One line is a manifest.
LEMMA OneLineType ==
    ASSUME NEW l \in Lots, NEW k \in Kilo
    PROVE  OneLine(l, k) \in Lines
BY LotAssumption DEF OneLine, NoLines, Lines, Kilo

\* Manifests are numbers of kilograms.
LEMMA LinesNat == Lines \subseteq [Lots -> Nat]
BY LotAssumption DEF Lines

\* What an action does to the book of the clone.
LEMMA BooksKept ==
    ASSUME NEW w \in World, NEW c, NEW lines
    PROVE  /\ Reconciled(w, c).book = w.book
           /\ Booking(w, lines, c).book = w.book
           /\ Releasing(w, lines).book = w.book
BY DEF Reconciled, Booking, Releasing, World

-----------------------------------------------------------------------------
(* Every step keeps the types.                                             *)

\* A mission accepts a lot.
LEMMA AcceptType ==
    ASSUME LotInv, NEW m \in Missions, NEW l \in Lots, NEW k \in Kilo,
           Accept(m, l, k)
    PROVE  LotInv'
<1> DEFINE lines == OneLine(l, k)
           c == Owner[m]
           booked == Booking(Live, lines, c)
           w == Manifested(booked, m, lines)
<1>1. lines \in Lines /\ lines \in [Lots -> Nat]
    BY OneLineType, LinesNat
<1>2. c \in Companies
    BY LotAssumption
<1>3. Live \in World /\ Live.book = book
    BY LiveType DEF Live
<1>4. PICK roster \in AnyRoster(Live, c, {l}) : Publish(w, {l}, roster, {m})
    BY DEF Accept
<1>5. WithinBound(m, lines) /\ Fits(Live, lines)
    <2>1. k <= Avail(lots[l]) /\ WithinBound(m, lines)
        BY DEF Accept
    <2>2. \A i \in Lots : lines[i] = IF i = l THEN k ELSE 0
        BY DEF OneLine, NoLines
    <2>3. \A i \in Lots : 0 <= Avail(lots[i])
        BY AvailNat, FitLots DEF LotInv
    <2> QED
        BY <2>1, <2>2, <2>3 DEF Fits, Live
<1> HIDE DEF lines, c
<1>6. booked \in World /\ booked.book = book
    BY <1>1, <1>2, <1>3, <1>5, BookingType, BooksKept
<1> HIDE DEF booked
<1>7. w \in World
    BY <1>1, <1>5, <1>6, ManifestedType
<1> HIDE DEF w
<1>8. roster \in Roster \cup {NoRoster}
    BY <1>3, <1>4, RosterType
<1>9. flown' \in [Lots -> Nat] /\ UNCHANGED <<lost, piloted>>
    BY DEF Accept, LotInv, TypeOK
<1>10. {l} \in SUBSET Lots /\ {m} \in SUBSET Missions
    OBVIOUS
<1> QED
    BY <1>4, <1>7, <1>8, <1>9, <1>10, PublishType

\* A manifest is staged.
LEMMA StageType ==
    ASSUME LotInv, NEW m \in Missions, NEW lines \in Lines, Stage(m, lines)
    PROVE  LotInv'
<1> DEFINE c == Owner[m]
           w == Reconciled(Live, c)
           slice == LotsOf(lines)
           booked == Booking(w, lines, c)
           v == Manifested(booked, m, lines)
<1>1. lines \in [Lots -> Nat] /\ slice \in SUBSET Lots
    BY LinesNat DEF LotsOf
<1>2. c \in Companies
    BY LotAssumption
<1>3. Live \in World /\ Live.book = book
    BY LiveType DEF Live
<1>4. flown' \in [Lots -> Nat] /\ UNCHANGED <<lost, piloted>>
    BY DEF Stage, LotInv, TypeOK
<1>5. \/ Publish(w, slice, NoRoster, {})
      \/ /\ WithinBound(m, lines)
         /\ Fits(w, lines)
         /\ \E roster \in AnyRoster(w, c, slice) : Publish(v, slice, roster, {m})
    BY DEF Stage
<1> HIDE DEF c, slice
<1>6. w \in World /\ w.book = book
    BY <1>3, ReconciledType, BooksKept
<1> HIDE DEF w
<1>7. CASE Publish(w, slice, NoRoster, {})
    BY <1>1, <1>4, <1>6, <1>7, PublishType
<1>8. ASSUME WithinBound(m, lines), Fits(w, lines),
             NEW roster \in AnyRoster(w, c, slice), Publish(v, slice, roster, {m})
      PROVE  LotInv'
    <2>1. booked \in World /\ booked.book = book
        BY <1>1, <1>2, <1>6, <1>8, BookingType, BooksKept
    <2> HIDE DEF booked
    <2>2. v \in World
        BY <1>8, <2>1, ManifestedType
    <2> HIDE DEF v
    <2>3. roster \in Roster \cup {NoRoster} /\ {m} \in SUBSET Missions
        BY <1>6, <1>8, RosterType
    <2> QED
        BY <1>1, <1>4, <1>8, <2>2, <2>3, PublishType
<1> QED
    BY <1>5, <1>7, <1>8

\* A manifest is replaced.
LEMMA EditType ==
    ASSUME LotInv, NEW m \in Missions, NEW lines \in Lines, Edit(m, lines)
    PROVE  LotInv'
<1> DEFINE w == Reconciled(Live, Owner[m])
           emptied == Releasing(w, book[m].kg)
           edited == Booking(emptied, lines, Free)
           v == [edited EXCEPT !.book[m].kg = lines]
<1>1. lines \in [Lots -> Nat] /\ LotsOf(lines) \in SUBSET Lots
    BY LinesNat DEF LotsOf
<1>2. Live \in World /\ book[m].kg \in [Lots -> Nat]
    BY LiveType, LinesNat DEF Live, World, Mission
<1>3. flown' \in [Lots -> Nat] /\ UNCHANGED <<lost, piloted>>
    BY DEF Edit, LotInv, TypeOK
<1>4. /\ Fits(emptied, lines)
      /\ \E roster \in AnyRoster(w, Owner[m], LotsOf(lines)) :
             Publish(v, LotsOf(lines), roster, {})
    BY DEF Edit
<1>5. w \in World
    BY <1>2, ReconciledType
<1> HIDE DEF w
<1>6. emptied \in World
    BY <1>2, <1>5, BookingType
<1> HIDE DEF emptied
<1>7. edited \in World
    BY <1>1, <1>4, <1>6, BookingType
<1> HIDE DEF edited
<1>8. v \in World
    BY <1>7 DEF World, Mission
<1> HIDE DEF v
<1>9. PICK roster \in AnyRoster(w, Owner[m], LotsOf(lines)) :
          Publish(v, LotsOf(lines), roster, {})
    BY <1>4
<1>10. roster \in Roster \cup {NoRoster}
    BY <1>5, <1>9, RosterType
<1> QED
    BY <1>1, <1>3, <1>8, <1>9, <1>10, PublishType

\* A dispatch trims.
LEMMA DispatchType ==
    ASSUME LotInv, NEW m \in Missions, NEW keep \in Lines,
           NEW stale \in SUBSET Missions, NEW live \in BOOLEAN,
           Dispatch(m, keep, stale, live)
    PROVE  LotInv'
<1> DEFINE c == Owner[m]
           r == Reconciled(Live, c)
           tidy == Cancelling(r, stale, live)
           dropped == [l \in Lots |-> book[m].kg[l] - keep[l]]
           rel == Releasing(tidy, dropped)
           w == [rel EXCEPT !.book[m].kg = keep]
<1>1. Live \in World /\ LotsOf(book[m].kg) \in SUBSET Lots
    BY LiveType DEF LotsOf
<1>2. dropped \in [Lots -> Nat]
    <2> SUFFICES ASSUME NEW l \in Lots PROVE dropped[l] \in Nat
        OBVIOUS
    <2>1. Live.book[m].kg[l] \in Nat /\ keep[l] \in Nat
        BY <1>1, BookLine, LinesNat
    <2>2. keep[l] <= book[m].kg[l]
        BY DEF Dispatch, Trims
    <2> QED
        BY <2>1, <2>2 DEF Live
<1>3. flown' \in [Lots -> Nat] /\ UNCHANGED <<lost, piloted>>
    BY DEF Dispatch, LotInv, TypeOK
<1>4. Publish(w, LotsOf(book[m].kg), RosterOf(w, m), {})
    BY DEF Dispatch
<1> HIDE DEF dropped
<1>5. r \in World
    BY <1>1, ReconciledType
<1> HIDE DEF r
<1>6. tidy \in World
    BY <1>5, CancellingType
<1> HIDE DEF tidy
<1>7. rel \in World
    BY <1>2, <1>6, BookingType
<1> HIDE DEF rel
<1>8. w \in World
    BY <1>7, SMTT(30) DEF World, Mission
<1> HIDE DEF w
<1>9. RosterOf(w, m) \in Roster \cup {NoRoster}
    BY <1>8, RosterType
<1> QED
    BY <1>1, <1>3, <1>4, <1>8, <1>9, PublishType

\* It trims a manifest that has grown.
LEMMA DispatchGrownType ==
    ASSUME LotInv, NEW m \in Missions, NEW keep \in Lines, DispatchGrown(m, keep)
    PROVE  LotInv'
<1>1. book' \in [Missions -> Mission]
    BY DEF DispatchGrown, LotInv, TypeOK, Mission
<1> QED
    BY <1>1 DEF DispatchGrown, LotInv, TypeOK

\* A planet saved from w with the slice of one mission.
LEMMA MissionSliceType ==
    ASSUME LotInv, NEW m \in Missions, NEW w \in World,
           Publish(w, LotsOf(book[m].kg), RosterOf(w, m), {}),
           flown' \in [Lots -> Nat], UNCHANGED <<lost, piloted>>
    PROVE  LotInv'
<1>1. LotsOf(book[m].kg) \in SUBSET Lots
    BY DEF LotsOf
<1>2. RosterOf(w, m) \in Roster \cup {NoRoster}
    BY RosterType
<1> QED
    BY <1>1, <1>2, PublishType

\* Departures, and what is taken back of them.
LEMMA DepartType ==
    ASSUME LotInv, NEW m \in Missions,
           Depart(m) \/ RevertDepart(m) \/ LeaveAtHub(m)
    PROVE  LotInv'
<1>1. Live \in World
    BY LiveType
<1>2. flown' \in [Lots -> Nat] /\ UNCHANGED <<lost, piloted>>
    BY DEF Depart, RevertDepart, LeaveAtHub, LotInv, TypeOK
<1>3. CASE Depart(m)
    BY <1>1, <1>2, <1>3, DepartingType, MissionSliceType DEF Depart
<1>4. CASE RevertDepart(m)
    <2> DEFINE f == [l \in Lots |->
                    IF /\ book[m].kg[l] > 0
                       /\ lots[l].st = "in_transit" /\ lots[l].res > 0
                    THEN [lots[l] EXCEPT !.st = "reserved"] ELSE lots[l]]
               w == [Live EXCEPT !.lots = f, !.book[m].st = "accepted"]
    <2>1. f \in [Lots -> FitLot]
        BY LotTypes DEF LotInv
    <2>2. Publish(w, LotsOf(book[m].kg), RosterOf(w, m), {})
        BY <1>4 DEF RevertDepart
    <2> HIDE DEF f
    <2>3. w \in World
        BY <1>1, <2>1, ZenonT(30) DEF World, Mission
    <2> HIDE DEF w
    <2> QED
        BY <1>2, <2>2, <2>3, MissionSliceType
<1>5. CASE LeaveAtHub(m)
    <2> DEFINE w == [Live EXCEPT !.book[m].st = "accepted"]
    <2>1. Publish(w, LotsOf(book[m].kg), RosterOf(w, m), {})
        BY <1>5 DEF LeaveAtHub
    <2>2. w \in World
        BY <1>1 DEF World, Mission
    <2> HIDE DEF w
    <2> QED
        BY <1>2, <2>1, <2>2, MissionSliceType
<1> QED
    BY <1>3, <1>4, <1>5

\* A settlement.
LEMMA SettleType ==
    ASSUME LotInv, NEW m \in Missions, NEW scrap, Settle(m, scrap)
    PROVE  LotInv'
<1>1. Live \in World
    BY LiveType
<1>2. flown' \in [Lots -> Nat]
    <2> SUFFICES ASSUME NEW l \in Lots PROVE Unloaded(l, book[m].kg[l]) \in Nat
        BY DEF Settle
    <2>1. Live.book[m].kg[l] \in Nat
        BY <1>1, BookLine
    <2> QED
        BY <2>1, UnloadedNat DEF Live
<1>3. /\ Publish(Delivering(Live, m, scrap), LotsOf(book[m].kg),
                 RosterOf(Delivering(Live, m, scrap), m), {})
      /\ UNCHANGED <<lost, piloted>>
    BY DEF Settle
<1>4. Delivering(Live, m, scrap) \in World
    BY <1>1, DeliveringType
<1> QED
    BY <1>2, <1>3, <1>4, MissionSliceType

\* A cancellation.
LEMMA CancelType ==
    ASSUME LotInv, NEW m \in Missions, NEW live \in BOOLEAN, Cancel(m, live)
    PROVE  LotInv'
<1> DEFINE v == Cancelling(Live, {m}, live)
           w == Reconciled(v, Owner[m])
<1>1. {m} \in SUBSET Missions /\ Live \in World
    BY LiveType
<1>2. v \in World
    BY <1>1, CancellingType
<1>3. Publish(w, LotsOf(book[m].kg), RosterOf(w, m), {})
    BY DEF Cancel
<1> HIDE DEF v
<1>4. w \in World
    BY <1>2, ReconciledType
<1> HIDE DEF w
<1>5. flown' \in [Lots -> Nat] /\ UNCHANGED <<lost, piloted>>
    BY DEF Cancel, LotInv, TypeOK
<1> QED
    BY <1>3, <1>4, <1>5, MissionSliceType

\* An impact.
LEMMA ImpactType ==
    ASSUME LotInv, NEW m \in Missions, Impact(m)
    PROVE  LotInv'
<1>1. book' \in [Missions -> Mission]
    BY NoLinesType DEF Impact, LotInv, TypeOK
<1>2. lost' \in [Lots -> Nat]
    <2> SUFFICES ASSUME NEW l \in Lots PROVE lost[l] + book[m].kg[l] \in Nat
        BY DEF Impact
    <2>1. Live.book[m].kg[l] \in Nat /\ lost[l] \in Nat
        BY LiveType, BookLine DEF LotInv, TypeOK
    <2> QED
        BY <2>1 DEF Live
<1> QED
    BY <1>1, <1>2 DEF Impact, LotInv, TypeOK

\* A pilot takes an offer.
LEMMA TakeOfferType ==
    ASSUME LotInv, NEW m \in Missions, NEW l \in Lots, NEW k \in Kilo,
           TakeOffer(m, l, k)
    PROVE  LotInv'
<1>1. lots' \in [Lots -> FitLot] /\ lots' \in [Lots -> Lot]
    <2>1. Healing(Live) \in World /\ lots' = Healing(Live).lots
        BY LiveType, HealingType DEF TakeOffer
    <2> QED
        BY <2>1, FitLots DEF World
<1>2. book' \in [Missions -> Mission]
    <2>1. [st |-> "accepted", contract |-> TRUE, kg |-> OneLine(l, k)] \in Mission
        BY OneLineType DEF Mission
    <2> QED
        BY <2>1 DEF TakeOffer, LotInv, TypeOK
<1>3. flight' \in [Lots -> Flight]
    <2>1. flight[l] \in Flight /\ NoFlight \in Flight
        BY DEF LotInv, TypeOK, NoFlight, Flight
    <2>2. flight[l].kg - k \in Nat
        BY <2>1 DEF TakeOffer, Flight, Kilo
    <2>3. [flight[l] EXCEPT !.kg = flight[l].kg - k] \in Flight
        BY <2>1, <2>2 DEF Flight
    <2>4. flight' = [flight EXCEPT ![l] =
              IF flight[l].kg - k > 0
              THEN [flight[l] EXCEPT !.kg = flight[l].kg - k] ELSE NoFlight]
        BY DEF TakeOffer, LotInv, TypeOK
    <2> QED
        BY <2>1, <2>3, <2>4 DEF LotInv, TypeOK
<1>4. piloted' \subseteq Companies \X Lots
    <2>1. <<Owner[m], l>> \in Companies \X Lots
        BY LotAssumption
    <2>2. piloted' = piloted \cup {<<Owner[m], l>>} /\ piloted \subseteq Companies \X Lots
        BY DEF TakeOffer, LotInv, TypeOK
    <2> QED
        BY <2>1, <2>2
<1> QED
    BY <1>1, <1>2, <1>3, <1>4 DEF TakeOffer, LotInv, TypeOK

\* A stale mission is cancelled on the live planet.
LEMMA ExpireStaleType ==
    ASSUME LotInv, NEW m \in Missions, NEW live \in BOOLEAN, ExpireStale(m, live)
    PROVE  LotInv'
<1>1. Cancelling(Live, {m}, live) \in World
    <2>1. {m} \in SUBSET Missions
        OBVIOUS
    <2> QED
        BY <2>1, LiveType, CancellingType
<1> QED
    BY <1>1, FitLots DEF ExpireStale, LotInv, TypeOK, World

\* What a chunk does to a lot and to its flight.
LEMMA FateType ==
    ASSUME NEW lot \in FitLot, NEW fl \in Flight, NEW f \in Fate,
           CanMeet(lot, fl, f)
    PROVE  LotAfter(lot, fl, f) \in FitLot /\ FlightAfter(fl, f) \in Flight
<1>1. /\ f.kg \in Nat /\ fl.kg \in Nat
      /\ f.what \in {"carry", "offer"} => 0 < f.kg
    BY LotAssumption DEF Fate, Flight, Kilo
<1>2. f.what \in {"carry", "offer"} => Reserved(lot, f.kg, Free) \in FitLot
    BY <1>1, LotTypes DEF CanMeet
<1>3. /\ Airborne(lot) \in FitLot
      /\ f.what = "carry" => Airborne(Reserved(lot, f.kg, Free)) \in FitLot
      /\ (f.what = "scrap") \in BOOLEAN
    BY <1>1, <1>2, LotTypes
<1>4. Shrunk(lot, fl.kg, f.what = "scrap") \in FitLot
    BY <1>1, <1>3, LotTypes
<1>5. [lot EXCEPT !.st = "expired"] \in FitLot /\ [lot EXCEPT !.st = "gone"] \in FitLot
    BY DEF FitLot, Fit, Lot, LotStates
<1>6. LotAfter(lot, fl, f) \in FitLot
    BY <1>2, <1>3, <1>4, <1>5 DEF LotAfter
<1>7. FlightAfter(fl, f) \in Flight
    BY <1>1 DEF FlightAfter, Flight, NoFlight
<1> QED
    BY <1>6, <1>7

\* The planet after a chunk.
Ticked(begun, fate) ==
    [lots |-> [l \in Lots |-> LotAfter(begun.lots[l], flight[l], fate[l])],
     flight |-> [l \in Lots |-> FlightAfter(flight[l], fate[l])],
     book |-> book]

LEMMA TickedType ==
    ASSUME LotInv, NEW begun \in World, NEW fate \in [Lots -> Fate],
           \A l \in Lots : CanMeet(begun.lots[l], flight[l], fate[l])
    PROVE  Ticked(begun, fate) \in World
<1>1. \A l \in Lots : begun.lots[l] \in FitLot /\ flight[l] \in Flight
    BY DEF World, LotInv, TypeOK
<1> QED
    BY <1>1, FateType DEF Ticked, World, LotInv, TypeOK

\* A pulse, with what it ticks and whom it cancels.
LEMMA PulsePicks ==
    ASSUME NEW c, Pulse(c)
    PROVE  \E fate \in [Lots -> Fate], stale \in SUBSET Overdue(c),
              live \in BOOLEAN :
               LET begun == Healing(Live)
                   w == Cancelling(Reconciled(Healing(Ticked(begun, fate)), c),
                                   stale, live)
               IN  /\ \A l \in Lots : CanMeet(begun.lots[l], flight[l], fate[l])
                   /\ lots' = w.lots /\ flight' = w.flight /\ book' = w.book
                   /\ flown' = [l \in Lots |->
                          IF /\ fate[l].what \in {"due", "scrap"}
                             /\ flight[l].st = "in_flight"
                          THEN Unloaded(l, flight[l].kg) ELSE flown[l]]
                   /\ UNCHANGED <<lost, piloted, deferred>>
BY DEF Pulse, Ticked

LEMMA PulseType ==
    ASSUME LotInv, NEW c \in Companies, Pulse(c)
    PROVE  LotInv'
<1> DEFINE begun == Healing(Live)
           W(fate, stale, live) ==
               Cancelling(Reconciled(Healing(Ticked(begun, fate)), c), stale, live)
<1>1. PICK fate \in [Lots -> Fate], stale \in SUBSET Overdue(c), live \in BOOLEAN :
          LET w == W(fate, stale, live)
          IN  /\ \A l \in Lots : CanMeet(begun.lots[l], flight[l], fate[l])
              /\ lots' = w.lots /\ flight' = w.flight /\ book' = w.book
              /\ flown' = [l \in Lots |->
                     IF /\ fate[l].what \in {"due", "scrap"}
                        /\ flight[l].st = "in_flight"
                     THEN Unloaded(l, flight[l].kg) ELSE flown[l]]
              /\ UNCHANGED <<lost, piloted, deferred>>
    BY PulsePicks
<1>2. stale \in SUBSET Missions
    BY DEF Overdue, Open
<1>3. begun \in World
    BY LiveType, HealingType
<1> HIDE DEF begun
<1>4. W(fate, stale, live) \in World
    BY <1>1, <1>2, <1>3, TickedType, HealingType, ReconciledType, CancellingType
<1>5. flown' \in [Lots -> Nat]
    <2>1. \A l \in Lots : Unloaded(l, flight[l].kg) \in Nat /\ flown[l] \in Nat
        BY UnloadedNat DEF LotInv, TypeOK, Flight
    <2> QED
        BY <1>1, <2>1
<1> HIDE DEF W
<1> QED
    BY <1>1, <1>4, <1>5, FitLots DEF LotInv, TypeOK, World

\* The acknowledgements of a command.
LEMMA AckType ==
    ASSUME LotInv, AckSlice \/ AckRoster
    PROVE  LotInv'
<1>1. CASE AckSlice
    <2>1. lots' \in [Lots -> FitLot] /\ lots' \in [Lots -> Lot]
        BY <1>1 DEF AckSlice, LotInv, FitLot, Fit, Lot, LotStates
    <2>2. deferred' \in [slice : SUBSET Lots, roster : Roster \cup {NoRoster},
                         fresh : SUBSET Missions]
        BY <1>1 DEF AckSlice, LotInv, NoDeferred
    <2> QED
        BY <1>1, <2>1, <2>2 DEF AckSlice, LotInv, TypeOK, Roster
<1>2. CASE AckRoster
    BY <1>2 DEF AckRoster, LotInv, TypeOK, NoDeferred, Roster
<1> QED
    BY <1>1, <1>2

\* A new planet has the types.
LEMMA InitType == Init => LotInv
<1> SUFFICES ASSUME Init PROVE LotInv
    OBVIOUS
<1>1. lots \in [Lots -> FitLot] /\ lots \in [Lots -> Lot]
    <2>1. \A l \in Lots : Size[l] \in Nat
        BY LotAssumption
    <2> QED
        BY <2>1 DEF Init, FitLot, Fit, Lot, LotStates
<1>2. /\ flight \in [Lots -> Flight] /\ book \in [Missions -> Mission]
      /\ flown \in [Lots -> Nat] /\ lost \in [Lots -> Nat]
    BY NoLinesType DEF Init, Flight, NoFlight
<1> QED
    BY <1>1, <1>2 DEF Init, LotInv, TypeOK, NoDeferred

\* Every step keeps them.
LEMMA NextType == LotInv /\ [Next]_vars => LotInv'
<1> SUFFICES ASSUME LotInv, [Next]_vars PROVE LotInv'
    OBVIOUS
<1>1. CASE UNCHANGED vars
    BY <1>1 DEF LotInv, TypeOK, vars
<1>2. ASSUME NEW m \in Missions,
             \/ \E l \in Lots, k \in Kilo : Accept(m, l, k) \/ TakeOffer(m, l, k)
             \/ \E lines \in Lines \ {NoLines} : Stage(m, lines) \/ Edit(m, lines)
             \/ \E keep \in Lines, stale \in SUBSET Missions, live \in BOOLEAN :
                    Dispatch(m, keep, stale, live)
             \/ \E keep \in Lines : DispatchGrown(m, keep)
      PROVE  LotInv'
    BY <1>2, AcceptType, TakeOfferType, StageType, EditType, DispatchType,
       DispatchGrownType
<1>3. ASSUME NEW m \in Missions,
             \/ Depart(m)
             \/ RevertDepart(m)
             \/ LeaveAtHub(m)
             \/ \E scrap \in SUBSET Lots : Settle(m, scrap)
             \/ \E live \in BOOLEAN : Cancel(m, live) \/ ExpireStale(m, live)
             \/ Impact(m)
      PROVE  LotInv'
    BY <1>3, DepartType, SettleType, CancelType, ExpireStaleType, ImpactType
<1>4. ASSUME NEW c \in Companies, Pulse(c) PROVE LotInv'
    BY <1>4, PulseType
<1>5. CASE AckSlice \/ AckRoster
    BY <1>5, AckType
<1> QED
    BY <1>1, <1>2, <1>3, <1>4, <1>5 DEF Next

\* Whatever saves are overtaken, the invariant holds.
THEOREM LotInvariant == Spec => []LotInv
BY InitType, NextType, PTL DEF Spec

\* Every variable holds a value of its kind whatever overtakes a command's
\* saves: no reservation, remainder or offer ever goes below zero, and no
\* manifest holds more than a lot can have.
THEOREM LotsTypeCorrect == Spec => []TypeOK
<1>1. LotInv => TypeOK
    BY DEF LotInv
<1> QED
    BY <1>1, LotInvariant, PTL

\* No step of any company, of the pulse or of a late save books a lot beyond
\* what it has, or takes one off the board with part of it still to be had.
THEOREM LotsBookingFits == Spec => []BookingFits
<1>1. LotInv => BookingFits
    BY DEF LotInv, FitLot, Fit, BookingFits
<1> QED
    BY <1>1, LotInvariant, PTL

-----------------------------------------------------------------------------
(* Offers and the board.                                                   *)

Board == {"available", "reserved"}
Listed(w) ==
    \A l \in Lots : w.flight[l].st = "awaiting_pilot" => w.lots[l].st \in Board

\* Healing lists every offer.
LEMMA HealingLists ==
    ASSUME NEW w \in World
    PROVE  Listed(Healing(w))
<1> SUFFICES ASSUME NEW l \in Lots, w.flight[l].st = "awaiting_pilot"
             PROVE  Healed(w.lots[l], w.flight[l]).st \in Board
    BY DEF Healing, Listed, World
<1>1. w.lots[l] \in Lot
    BY DEF World, FitLot
<1> QED
    BY <1>1 DEF Healed, Board, Lot

\* Reconciling leaves it there: a lot that loses a booking had something of it,
\* so it is not empty.
LEMMA ReconcilingLists ==
    ASSUME NEW w \in World, Listed(w), NEW c
    PROVE  Listed(Reconciled(w, c))
<1> SUFFICES ASSUME NEW l \in Lots, w.flight[l].st = "awaiting_pilot"
             PROVE  Reconciled(w, c).lots[l].st \in Board
    BY DEF Reconciled, Listed, World
<1> DEFINE lot == w.lots[l]
           expected == Expected(w, c, l)
           st == IF expected = 0 THEN "available" ELSE "reserved"
<1>1. /\ expected \in Nat /\ lot.res \in Nat /\ lot.qty \in Nat
      /\ lot.res <= lot.qty
    BY ExpectedNat DEF World, FitLot, Fit, Lot
<1>2. lot \in Lot /\ lot.st \in Board
    BY DEF Listed, World, FitLot
<1>3. Reconciled(w, c).lots[l]
          = IF lot.res <= expected THEN lot
            ELSE IF lot.qty = 0 THEN [lot EXCEPT !.res = 0, !.st = "delivered"]
            ELSE [lot EXCEPT !.res = expected, !.st = st]
    BY DEF Reconciled, World
<1>4. st \in Board
    BY DEF Board
<1> HIDE DEF lot, expected, st
<1>5. [lot EXCEPT !.res = expected, !.st = st].st = st
    BY <1>2 DEF Lot
<1> QED
    BY <1>1, <1>2, <1>3, <1>4, <1>5

\* So does cancelling.
LEMMA CancellingLists ==
    ASSUME NEW w \in World, Listed(w), NEW S \in SUBSET Missions, NEW live
    PROVE  Listed(Cancelling(w, S, live))
<1> DEFINE back(l) == {m \in S : FoldsBack(w, m, live, l)}
           kg == [l \in Lots |-> KgOn(w, S \ back(l), l)]
           out == Releasing(w, kg).lots
<1> SUFFICES ASSUME NEW l \in Lots,
                    Cancelling(w, S, live).flight[l].st = "awaiting_pilot"
             PROVE  Cancelling(w, S, live).lots[l].st \in Board
    BY DEF Listed
<1>1. w.lots[l] \in Lot /\ w.flight[l] \in Flight
    BY DEF World, FitLot
<1>2. w.flight[l].st = "awaiting_pilot"
    BY <1>1 DEF Cancelling, Flight
<1>3. w.lots[l].st \in Board
    BY <1>2 DEF Listed
<1>4. out[l] \in {w.lots[l], Released(w.lots[l], kg[l])}
    <2> HIDE DEF kg
    <2> QED
        BY DEF Releasing, World
<1>5. kg[l] \in Nat
    <2>1. S \ back(l) \in SUBSET Missions
        OBVIOUS
    <2> QED
        BY <2>1, UnitsFinite
<1>6. Cancelling(w, S, live).lots[l]
          = IF back(l) # {} /\ out[l].st \in {"in_transit", "available"}
            THEN [out[l] EXCEPT !.st = "reserved"] ELSE out[l]
    BY DEF Cancelling
<1>7. out[l] \in Lot /\ out[l].st \in Board
    <2> HIDE DEF kg
    <2> QED
        BY <1>1, <1>3, <1>4, <1>5, ReleasedShape DEF Board
<1> HIDE DEF out, back
<1> QED
    BY <1>6, <1>7 DEF Board, Lot

\* Whatever a late roster has restored, a pulse leaves every offer on the board.
THEOREM LotsOfferSurfaces == Spec => OfferSurfaces
<1>1. ASSUME LotInv, NEW c \in Companies, Pulse(c), NEW l \in Lots, Offered(l)'
      PROVE  OnBoard(l)'
    <2> DEFINE begun == Healing(Live)
               healed(fate) == Healing(Ticked(begun, fate))
               W(fate, stale, live) ==
                   Cancelling(Reconciled(healed(fate), c), stale, live)
    <2>1. PICK fate \in [Lots -> Fate], stale \in SUBSET Overdue(c),
               live \in BOOLEAN :
              /\ \A i \in Lots : CanMeet(begun.lots[i], flight[i], fate[i])
              /\ lots' = W(fate, stale, live).lots
              /\ flight' = W(fate, stale, live).flight
        BY <1>1, PulsePicks
    <2>2. stale \in SUBSET Missions
        BY DEF Overdue, Open
    <2>3. begun \in World
        BY <1>1, LiveType, HealingType
    <2> HIDE DEF begun
    <2>4. Ticked(begun, fate) \in World
        BY <1>1, <2>1, <2>3, TickedType
    <2>5. healed(fate) \in World /\ Listed(healed(fate))
        BY <2>4, HealingType, HealingLists
    <2> HIDE DEF healed
    <2>6. Reconciled(healed(fate), c) \in World /\ Listed(Reconciled(healed(fate), c))
        BY <2>5, ReconciledType, ReconcilingLists
    <2>7. Listed(W(fate, stale, live))
        BY <2>2, <2>6, CancellingLists
    <2> HIDE DEF W
    <2> QED
        BY <1>1, <2>1, <2>7 DEF Listed, Offered, OnBoard, Board
<1>2. LotInv /\ [Next]_vars =>
          [\A c \in Companies :
               Pulse(c) => \A l \in Lots : Offered(l)' => OnBoard(l)']_vars
    BY <1>1
<1> QED
    BY <1>2, LotInvariant, PTL DEF Spec, OfferSurfaces
=============================================================================
