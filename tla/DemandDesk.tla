----------------------------- MODULE DemandDesk -----------------------------
(***************************************************************************)
(* The demand board, which all companies share, and the warehouse desks    *)
(* that serve it.  A city asks for Wanted kilograms of a product; a        *)
(* company reserves part of the order against its stock (a hold), flies    *)
(* one or more holds on one flight, or flies without a hold.               *)
(*                                                                         *)
(* Commands run one at a time on a copy of the world, but each saves       *)
(* another part of that copy: the whole board, one order, nothing of the   *)
(* board, or one order after the locks were given back; and the board is   *)
(* saved before the company's row.  The row (holds, stock, flights) is     *)
(* saved at once.                                                          *)
(*                                                                         *)
(* Times are kept as ticks left, so behaviours need no end.  Which city    *)
(* lacks what, prices, and which of too many orders go, are left open.  A  *)
(* flight that took off is one nobody edits any more.                      *)
(***************************************************************************)
EXTENDS Integers, FiniteSets, Sequences, SequencesExt

CONSTANTS
    Companies, Orders, Flights, Goods,
    None,
    City,          \* of an order's id: the city that asks
    Wanted,        \* of a product: wantedKg
    Unlocked,      \* of a company: the products it may carry (Cargo Ops)
    Quota,         \* orders that may be open at once
    Capacity,      \* of a company: its warehouse
    OrderTtl, HoldTtl, Sail, Day,   \* in ticks; Day is also the grace of a claim
    MaxLines,      \* holds on one flight
    MaxCargo,      \* bound: of a company, its cargo
    Edits,         \* what is edited on a flight's manifest
    Slips,         \* "late": a save after the locks comes late; "row": the
                   \* company's row fails to save, "read": or to be read
    MaxSlips       \* bound: such slips

ASSUME DeskAssumption ==
    /\ IsFiniteSet(Companies) /\ IsFiniteSet(Orders) /\ IsFiniteSet(Flights)
    /\ IsFiniteSet(Goods) /\ Goods # {}
    /\ DOMAIN City = Orders /\ None \notin Companies \cup Orders \cup Goods
    /\ Wanted \in [Goods -> Nat \ {0}] /\ Unlocked \in [Companies -> SUBSET Goods]
    /\ {OrderTtl, HoldTtl, Sail, Day, MaxLines} \subseteq Nat \ {0}
    /\ Quota \in Nat /\ {Capacity, MaxCargo} \subseteq [Companies -> Nat]
    /\ Edits \subseteq {"lower", "raise", "shared", "orphan"}
    /\ Slips \subseteq {"late", "row", "read"} /\ MaxSlips \in Nat

VARIABLES
    board,         \* of an order: its row
    hold,          \* of a company and an order: demandHolds
    stock, yard,   \* of a company and a product: warehouse, port pickups
    flight,
    late,          \* of an order: the row that a command has still to save
    owed,          \* history: cargo bought, less delivered, lost, thrown away
    landed,        \* history: of an order, what was delivered
    marred,        \* history: orders with a late, half done or wrong save
    slips

MaxWanted == Max({Wanted[g] : g \in Goods})

row == <<hold, stock, yard, flight>>
vars == <<board, row, late, owed, landed, marred, slips>>

NoRow == [st |-> "none", good |-> None, rem |-> 0, left |-> 0]
NoHold == [good |-> None, kg |-> 0, left |-> 0]
Grounded == [by |-> None, order |-> None, lines |-> <<>>]

Init ==
    /\ board = [o \in Orders |-> NoRow]
    /\ hold = [c \in Companies |-> [o \in Orders |-> NoHold]]
    /\ stock = [c \in Companies |-> [g \in Goods |-> 0]]
    /\ yard = stock
    /\ flight = [f \in Flights |-> Grounded]
    /\ late = [o \in Orders |-> <<NoRow, NoRow>>]
    /\ owed = stock
    /\ landed = [o \in Orders |-> 0]
    /\ marred = {}
    /\ slips = 0
-----------------------------------------------------------------------------
(* The rows of the board.                                                  *)

Least(a, b) == IF a < b THEN a ELSE b
Most(a, b) == IF a > b THEN a ELSE b

IsOpen(r) == r.st = "open" /\ r.rem > 0 /\ r.left > 0

\* restoreDemandRemainingKg, of a hold, and restoreDeskCargoLines, of a flight:
\* what becomes of an order's row r.
Restored(r, kg) ==
    IF r.left <= 0 \/ kg = 0 THEN r
    ELSE [r EXCEPT !.st = "open", !.rem = Least(Wanted[r.good], @ + kg)]

GivenBack(r, kg) ==
    IF r.st = "none" \/ kg = 0 THEN r
    ELSE [r EXCEPT !.st = IF @ = "filled" THEN "open" ELSE @,
                   !.rem = Least(Wanted[r.good], @ + kg)]

Taken(r, kg) ==
    [r EXCEPT !.rem = @ - kg, !.st = IF r.rem = kg THEN "filled" ELSE "open"]

Claimed(r, until) ==   \* stampDemandDeliveryClaim
    IF r.st = "filled" THEN [r EXCEPT !.left = Most(@, until + Day)] ELSE r

Closed(r) == [r EXCEPT !.st = "expired", !.left = -Day]

Released(r) == IF r.st = "filled" THEN Closed(r) ELSE r

Due(r) ==
    IF r.st # "open" THEN r
    ELSE IF r.rem = 0 THEN [r EXCEPT !.st = "filled"]
    ELSE IF r.left <= 0 THEN [r EXCEPT !.st = "expired"] ELSE r

Pruned(r) == IF r.st \in {"filled", "expired"} /\ r.left <= -Day THEN NoRow ELSE r

\* A flight is named after the order of its first hold.
Named(x) == {x.order} \cup {x.lines[i].order : i \in DOMAIN x.lines}

\* The lines of a flight that carry o; all, when it is only named after o.
LinesFor(x, o) ==
    LET own == {i \in DOMAIN x.lines : x.lines[i].order = o}
    IN  IF own = {} /\ x.order = o THEN DOMAIN x.lines ELSE own

\* Mutant: the search for claims forgets what is in the air.
ClaimsOfHolds(h, fl, o, read) ==
    {h[c][o].left : c \in {d \in read : h[d][o].kg > 0 /\ h[d][o].left > 0}}

\* liveDemandDeliveryClaims: until when the holds h and the flights fl of the
\* companies that were read carry an order.
Claims(h, fl, o, read) ==
    {h[c][o].left : c \in {d \in read : h[d][o].kg > 0 /\ h[d][o].left > 0}}
    \cup UNION {{fl[f].lines[i].until : i \in LinesFor(fl[f], o)} :
                  f \in {e \in Flights : fl[e].by \in read}}

\* reconcileDemandDeliveryClaims, when every company could be read.
Reconciled(b, h, fl, read) ==
    [o \in Orders |->
       IF b[o].st # "filled" THEN b[o]
       ELSE IF Claims(h, fl, o, read) = {} THEN Closed(b[o])
       ELSE Claimed(b[o], Max(Claims(h, fl, o, read)))]

\* demandDestCommodityInProgress: what the city needs is on its way.
InProgress(r) == IsOpen(r) \/ (r.st = "filled" /\ r.left > 0)

\* Ids of orders that nothing refers to any more.
Unused(b) ==
    {o \in Orders : /\ b[o].st = "none" /\ late[o][1].st = "none"
                    /\ \A c \in Companies : hold[c][o].kg = 0
                    /\ \A f \in Flights : o \notin Named(flight[f])}

\* ensureDemandOrders: orders over the quota go, cities that lack something
\* may list it, and what ended a day ago is pruned.
Trims(b) ==
    LET open == {o \in Orders : IsOpen(b[o])}
    IN  kSubset(Most(0, Cardinality(open) - Quota), open)

Listings(b, gone) ==
    LET open == {o \in Orders : IsOpen(b[o])} \ gone
        sought(N, p) == IF p \in DOMAIN N THEN N[p] ELSE b[p].good
    IN  {N \in UNION {[u -> Goods] : u \in SUBSET Unused(b)} :
           /\ DOMAIN N # {} => Cardinality(open \cup DOMAIN N) <= Quota
           /\ \A o \in DOMAIN N, p \in Orders :
                o # p /\ City[o] = City[p] /\ N[o] = sought(N, p) =>
                  p \notin DOMAIN N /\ (p \in gone \/ ~InProgress(b[p]))}

Ensured(b) ==
    UNION {{[o \in Orders |->
               IF o \in DOMAIN N
               THEN [st |-> "open", good |-> N[o], rem |-> Wanted[N[o]],
                     left |-> OrderTtl]
               ELSE Pruned(IF o \in gone THEN [b[o] EXCEPT !.st = "expired"]
                           ELSE b[o])] : N \in Listings(b, gone)} :
             gone \in Trims(b)}

Swept(b) == [o \in Orders |-> Due(b[o])]
-----------------------------------------------------------------------------
(* The row of a company.                                                   *)

\* The sum of the numbers f, as the size of a set: lemmas about sums are then
\* lemmas about finite sets.
Sum(f) == Cardinality(UNION {{x} \X (1..f[x]) : x \in DOMAIN f})

KgFor(cargo, o) ==
    Sum([i \in DOMAIN cargo |-> IF cargo[i].order = o THEN cargo[i].kg ELSE 0])

KgOf(cargo, g) ==
    Sum([i \in DOMAIN cargo |-> IF cargo[i].good = g THEN cargo[i].kg ELSE 0])

\* What the lines before the i-th weigh.
Before(cargo, i) == Sum([j \in 1..(i - 1) |-> cargo[j].kg])

Reserved(h, g) == Sum([o \in Orders |-> IF h[o].good = g THEN h[o].kg ELSE 0])
Room(c) == Capacity[c] - Sum(stock[c])

\* expireDemandHolds of the holds h: what it keeps, and what the board gets.
Stale(h) == {o \in Orders : h[o].kg > 0 /\ h[o].left <= 0}
KeptAll(h) == h    \* Mutant: what runs out is given back and kept.
Kept(h) == [o \in Orders |-> IF o \in Stale(h) THEN NoHold ELSE h[o]]
Expired(b, h) ==
    [o \in Orders |-> IF o \in Stale(h) THEN Restored(b[o], h[o].kg) ELSE b[o]]

\* Mutant: only the first line goes back to the warehouse.
StoredFirst(c, cargo) ==
    LET l == Head(cargo)
        kg == Least(l.kg, Room(c))
    IN  /\ stock' = [stock EXCEPT ![c][l.good] = @ + kg]
        /\ yard' = [yard EXCEPT ![c][l.good] = @ + l.kg - kg]

\* Cargo put back, line after line: into the warehouse, and what has no room
\* into the yard.
Stored(c, cargo) ==
    LET fits(i) == Least(cargo[i].kg, Most(0, Room(c) - Before(cargo, i)))
        kept == [i \in DOMAIN cargo |-> [cargo[i] EXCEPT !.kg = fits(i)]]
        left == [i \in DOMAIN cargo |-> [cargo[i] EXCEPT !.kg = @ - fits(i)]]
    IN  /\ stock' = [stock EXCEPT ![c] = [g \in Goods |-> @[g] + KgOf(kept, g)]]
        /\ yard' = [yard EXCEPT ![c] = [g \in Goods |-> @[g] + KgOf(left, g)]]

\* What a command saves of the board, when its row is saved as well.
Blank(b) == {o \in Orders : b[o].st = "none"}
Fresh(b) == Unused(b) \cup (Blank(board) \ Blank(b))

Slip(kind) == kind \in Slips /\ slips < MaxSlips /\ slips' = slips + 1

Saves(b) ==
    /\ board' = b
    /\ landed' = [o \in Orders |-> IF o \in Blank(b) THEN 0 ELSE landed[o]]

\* The row fails to save after the board was.
HalfSaves(b) ==
    /\ Slip("row")
    /\ Saves(b)
    /\ marred' = (marred \cup {o \in Orders : b[o] # board[o]}) \ Fresh(b)
    /\ UNCHANGED <<row, late, owed>>

\* One order is saved after the locks were given back.
SavesLater(o, r) ==
    /\ late[o][1].st = "none"
    /\ \/ /\ r # board[o] /\ Slip("late")
          /\ late' = [late EXCEPT ![o] = <<r, board[o]>>]
          /\ UNCHANGED board
       \/ /\ board' = [board EXCEPT ![o] = r]
          /\ UNCHANGED <<late, slips>>
-----------------------------------------------------------------------------
(* Reading the board, and time.                                            *)

\* loadDemandDeliveryWatch reads every company, or gives up.
Reads(c) ==
    {Companies} \cup (IF "read" \in Slips /\ slips < MaxSlips THEN {{c}} ELSE {})
Read(c, read) ==
    IF read = Companies THEN UNCHANGED slips ELSE Slip("read")

\* ensureDemandOrders with a watch; an incomplete one releases nothing.
Watched(b, h, fl, read) ==
    Ensured(IF read = Companies THEN Reconciled(Swept(b), h, fl, read)
            ELSE Swept(b))

\* Orders of b that an incomplete watch let run out, and orders of b2 that go
\* although somebody may hold or fly a part of them.
Missed(b, read) ==
    IF read = Companies THEN {}
    ELSE {o \in Orders : b[o].st = "filled" /\ b[o].left <= 0}
Cut(b2) == {o \in Orders : b2[o].st = "expired" /\ b2[o].left > 0}

\* GET /api/demand: the board is saved, then the row.
Look(c) ==
    \E read \in Reads(c) :
       \E b \in Watched(Expired(board, hold[c]), hold, flight, read) :
          \/ /\ Saves(b)
             /\ Read(c, read)
             /\ hold' = [hold EXCEPT ![c] = Kept(@)]
             /\ marred' = (marred \cup Missed(board, read) \cup Cut(b)) \ Fresh(b)
             /\ UNCHANGED <<stock, yard, flight, late, owed>>
          \/ HalfSaves(b)

\* GET /api/ports: holds expire too, and no order is saved.
OpenPorts(c) ==
    /\ Stale(hold[c]) # {}
    /\ hold' = [hold EXCEPT ![c] = Kept(@)]
    /\ UNCHANGED <<board, stock, yard, flight, late, owed, landed, marred, slips>>

\* A tick later.
AgoRow(r) == IF r.st = "none" THEN r ELSE [r EXCEPT !.left = Most(@ - 1, -Day)]
AgoHold(x) == [x EXCEPT !.left = Most(@ - 1, 0)]
AgoLine(l) == [l EXCEPT !.until = Most(@ - 1, 0)]
AgoFlight(x) == [x EXCEPT !.lines = [i \in DOMAIN @ |-> AgoLine(@[i])]]

\* A pulse advances the world in live RAM; the row is that of the company the
\* store has at hand.
Pulse(c) ==
    LET b1 == [o \in Orders |-> AgoRow(board[o])]
        h == [d \in Companies |-> [o \in Orders |-> AgoHold(hold[d][o])]]
        fl == [f \in Flights |-> AgoFlight(flight[f])]
    IN  \E read \in Reads(c) :
          \E b \in Watched(Expired(b1, h[c]), h, fl, read) :
          /\ Saves(b)
          /\ Read(c, read)
          /\ hold' = [h EXCEPT ![c] = Kept(@)]
          /\ flight' = fl
          /\ late' = [o \in Orders |-> <<AgoRow(late[o][1]), AgoRow(late[o][2])>>]
          /\ marred' = (marred \cup Missed(b1, read) \cup Cut(b)) \ Fresh(b)
          /\ UNCHANGED <<stock, yard, owed>>
-----------------------------------------------------------------------------
(* The desk.                                                               *)

Free(h, c, g) == Most(0, stock[c][g] - Reserved(h, g))

\* A pulse or a command saved one order of its copy; on the copy, holds of the
\* company that expired were given back to every order.
Offered(c, o) == Restored(Due(board[o]), IF o \in Stale(hold[c]) THEN hold[c][o].kg ELSE 0)

\* holdDemandOrder.
Hold(c, o) ==
    LET h == Kept(hold[c])
        r == Offered(c, o)
    IN  /\ IsOpen(r) /\ h[o].kg = 0 /\ r.good \in Unlocked[c]
        /\ \E kg \in 1..Least(r.rem, Free(h, c, r.good)) :
             LET until == Least(HoldTtl, r.left)
                 b == [board EXCEPT ![o] = Claimed(Taken(r, kg), until)]
             IN \/ /\ Saves(b)
                   /\ hold' = [hold EXCEPT ![c] = [h EXCEPT ![o] =
                                  [good |-> r.good, kg |-> kg, left |-> until]]]
                   /\ UNCHANGED <<stock, yard, flight, late, owed, marred, slips>>
                \/ HalfSaves(b)

\* cancelDemandHold; a hold that expired is given back like the others.
CancelHold(c, o) ==
    LET h == Kept(hold[c])
        b == [Expired(board, hold[c]) EXCEPT ![o] = Restored(@, h[o].kg)]
    IN  /\ h[o].kg > 0
        /\ \/ /\ Saves(b)
              /\ hold' = [hold EXCEPT ![c] = [h EXCEPT ![o] = NoHold]]
              /\ UNCHANGED <<stock, yard, flight, late, owed, marred, slips>>
           \/ HalfSaves(b)

Line(o, good, kg, r) ==
    [order |-> o, good |-> good, kg |-> kg,
     until |-> IF r.st = "none" THEN Sail ELSE Most(0, Least(r.left, Sail))]

\* acceptDemandOrder: no hold, and no claim.
FlyNow(c, o, f) ==
    LET h == Kept(hold[c])
        r == Offered(c, o)
    IN  /\ flight[f] = Grounded
        /\ IsOpen(r) /\ h[o].kg = 0 /\ r.good \in Unlocked[c]
        /\ \E kg \in 1..Least(r.rem, Free(h, c, r.good)) :
             LET b == [board EXCEPT ![o] = Taken(r, kg)]
             IN \/ /\ Saves(b)
                   /\ hold' = [hold EXCEPT ![c] = h]
                   /\ stock' = [stock EXCEPT ![c][r.good] = @ - kg]
                   /\ flight' = [flight EXCEPT ![f] =
                                   [by |-> c, order |-> o, lines |-> <<Line(o, r.good, kg, r)>>]]
                   /\ UNCHANGED <<yard, late, owed, marred, slips>>
                \/ HalfSaves(b)

\* Mutant: more may be loaded than is held.
PicksAny(h) ==
    LET parts == Orders \X (1..MaxWanted)
    IN  {p \in UNION {[1..n -> parts] : n \in 1..MaxLines} :
           \A i, j \in DOMAIN p : i # j => p[i][1] # p[j][1]}

\* dispatchDemandHold and dispatchDemandHolds: parts of holds on the same city
\* become one flight; the board is not saved.
Picks(h) ==
    LET parts == UNION {{o} \X (1..h[o].kg) : o \in Orders}
    IN  {p \in UNION {[1..n -> parts] : n \in 1..MaxLines} :
           \A i, j \in DOMAIN p : /\ City[p[i][1]] = City[p[j][1]]
                                 /\ i # j => p[i][1] # p[j][1]}

Loaded(h, p, g) == Sum([i \in DOMAIN p |-> IF h[p[i][1]].good = g THEN p[i][2] ELSE 0])
Drawn(p, o) == Sum([i \in DOMAIN p |-> IF p[i][1] = o THEN p[i][2] ELSE 0])

Dispatch(c, f) ==
    LET h == Kept(hold[c]) IN
    /\ flight[f] = Grounded
    /\ \E p \in Picks(h) :
       /\ \A g \in Goods : Loaded(h, p, g) <= stock[c][g]
       /\ hold' = [hold EXCEPT ![c] = [o \in Orders |->
                     IF h[o].kg = Drawn(p, o) THEN NoHold
                     ELSE [h[o] EXCEPT !.kg = h[o].kg - Drawn(p, o)]]]
       /\ stock' = [stock EXCEPT ![c] = [g \in Goods |-> @[g] - Loaded(h, p, g)]]
       /\ flight' = [flight EXCEPT ![f] =
                       [by |-> c, order |-> p[1][1],
                        lines |-> [i \in DOMAIN p |->
                          Line(p[i][1], h[p[i][1]].good, p[i][2],
                               Pruned(Offered(c, p[i][1])))]]]
       /\ UNCHANGED <<board, yard, late, owed, landed, marred, slips>>
-----------------------------------------------------------------------------
(* Flights.                                                                *)

\* replaceDemandMissionCargo: the only line of a flight is edited against the
\* order the flight is named after, on a board listed without a watch, and the
\* whole economy is saved.
EditOnly(f, kg) ==
    LET x == flight[f]
        l == x.lines[1]
        o == x.order
        more == kg - l.kg
        Part(r) == IF more < 0 THEN GivenBack(r, -more) ELSE Taken(r, more)
    IN  /\ Len(x.lines) = 1 /\ more # 0
        /\ (IF more < 0 THEN "lower" ELSE "raise") \in Edits
        /\ l.order # o => "orphan" \in Edits
        /\ \E b1 \in Ensured(Swept(board)) :
             /\ b1[o].st # "none"
             /\ more > 0 => /\ b1[o].left > 0 /\ b1[o].st \in {"open", "filled"}
                            /\ more <= Least(b1[o].rem, stock[x.by][l.good])
             /\ more < 0 => -more <= Room(x.by)
             /\ LET b == [b1 EXCEPT ![o] = Part(@)]
                IN \/ /\ Saves(b)
                      /\ stock' = [stock EXCEPT ![x.by][l.good] = @ - more]
                      /\ flight' = [flight EXCEPT ![f].lines =
                           <<[l EXCEPT !.order = o, !.kg = kg,
                                       !.until = Most(0, Least(l.until, b1[o].left))]>>]
                      /\ marred' = (marred \cup Cut(b) \cup
                           (IF l.order = o THEN {} ELSE {o, l.order})) \ Fresh(b)
                      /\ UNCHANGED <<hold, yard, late, owed, slips>>
                   \/ HalfSaves(b)

\* syncDeskTripLoads, a line among several: it is lowered, dropped (kg is 0) or
\* raised; a raise draws on the order and not on the warehouse.
EditLine(f, i, kg) ==
    LET x == flight[f]
        l == x.lines[i]
        more == kg - l.kg
        b == [board EXCEPT ![l.order] =
                IF more < 0 THEN GivenBack(@, -more)
                ELSE [@ EXCEPT !.rem = board[l.order].rem - more]]
    IN  /\ i \in DOMAIN x.lines /\ Len(x.lines) > 1 /\ more # 0
        /\ (IF more < 0 THEN "lower" ELSE "shared") \in Edits
        /\ more > 0 => board[l.order].st # "none" /\ more <= board[l.order].rem
        /\ \/ /\ Saves(b)
              /\ Stored(x.by, IF more < 0 THEN <<[l EXCEPT !.kg = -more]>> ELSE <<>>)
              /\ flight' = [flight EXCEPT ![f].lines =
                              IF kg = 0 THEN RemoveAt(@, i) ELSE [@ EXCEPT ![i].kg = kg]]
              /\ UNCHANGED <<hold, late, owed, marred, slips>>
           \/ HalfSaves(b)

\* trimMissionCargoToKg: the last lines go first.  Of the orders only the one
\* the flight is named after is saved, as after cancelMission and a settlement.
Trim(f, target) ==
    LET x == flight[f]
        kept(i) == Most(0, Least(x.lines[i].kg, target - Before(x.lines, i)))
        cut == [i \in DOMAIN x.lines |-> [x.lines[i] EXCEPT !.kg = @ - kept(i)]]
    IN  /\ x # Grounded
        /\ target < Before(x.lines, Len(x.lines) + 1)
        /\ Stored(x.by, cut)
        /\ \E n \in DOMAIN x.lines :   \* the line that the target falls in
             /\ Before(x.lines, n) < target /\ target <= Before(x.lines, n + 1)
             /\ flight' = [flight EXCEPT ![f].lines =
                             [i \in 1..n |-> [x.lines[i] EXCEPT !.kg = kept(i)]]]
        /\ SavesLater(x.order, GivenBack(board[x.order], KgFor(cut, x.order)))
        /\ UNCHANGED <<hold, owed, landed, marred>>

Cancel(f) ==
    LET x == flight[f] IN
    /\ x # Grounded
    /\ Stored(x.by, x.lines)
    /\ flight' = [flight EXCEPT ![f] = Grounded]
    /\ SavesLater(x.order, GivenBack(board[x.order], KgFor(x.lines, x.order)))
    /\ UNCHANGED <<hold, owed, landed, marred>>

Delivered(x) ==
    owed' = [owed EXCEPT ![x.by] = [g \in Goods |-> @[g] - KgOf(x.lines, g)]]

\* settleMission: an order that is filled is done with.
Settle(f) ==
    LET x == flight[f] IN
    /\ x # Grounded
    /\ Delivered(x)
    /\ flight' = [flight EXCEPT ![f] = Grounded]
    /\ landed' = [o \in Orders |-> IF o \in Blank(board) THEN 0
                     ELSE Least(MaxWanted + 1, landed[o] + KgFor(x.lines, o))]
    /\ SavesLater(x.order, IF KgFor(x.lines, x.order) > 0 THEN Released(board[x.order])
                           ELSE board[x.order])
    /\ UNCHANGED <<hold, stock, yard, marred>>

\* failMissionImpact: the cargo is lost and no order is saved.
Impact(f) ==
    LET x == flight[f] IN
    /\ x # Grounded
    /\ Delivered(x)
    /\ flight' = [flight EXCEPT ![f] = Grounded]
    /\ UNCHANGED <<board, hold, stock, yard, late, landed, marred, slips>>

\* persistDemandOrder of a command that gave the locks back.
LateSave(o) ==
    /\ late[o][1].st # "none"
    /\ board' = [board EXCEPT ![o] = late[o][1]]
    /\ late' = [late EXCEPT ![o] = <<NoRow, NoRow>>]
    /\ marred' = marred \cup (IF board[o] = late[o][2] THEN {} ELSE {o})
    /\ UNCHANGED <<row, owed, landed, slips>>
-----------------------------------------------------------------------------
\* Cargo that a company bought arrives; cargo nobody reserved is thrown away.
Deposit(c, g) ==
    /\ Room(c) > 0 /\ Sum(owed[c]) < MaxCargo[c]
    /\ stock' = [stock EXCEPT ![c][g] = @ + 1]
    /\ owed' = [owed EXCEPT ![c][g] = @ + 1]
    /\ UNCHANGED <<board, hold, yard, flight, late, landed, marred, slips>>

Abandon(c, g) ==
    \E kg \in 1..Free(hold[c], c, g) :
       /\ stock' = [stock EXCEPT ![c][g] = @ - kg]
       /\ owed' = [owed EXCEPT ![c][g] = @ - kg]
       /\ UNCHANGED <<board, hold, yard, flight, late, landed, marred, slips>>

Next ==
    \/ \E c \in Companies : Look(c) \/ OpenPorts(c) \/ Pulse(c)
    \/ \E c \in Companies, o \in Orders :
          Hold(c, o) \/ CancelHold(c, o) \/ \E f \in Flights : FlyNow(c, o, f)
    \/ \E c \in Companies, f \in Flights : Dispatch(c, f)
    \/ \E f \in Flights : \/ Cancel(f) \/ Settle(f) \/ Impact(f)
                          \/ \E kg \in 1..MaxWanted : EditOnly(f, kg)
                          \/ \E i \in 1..MaxLines, kg \in 0..MaxWanted : EditLine(f, i, kg)
                          \/ \E target \in 1..(MaxLines * MaxWanted) : Trim(f, target)
    \/ \E o \in Orders : LateSave(o)
    \/ \E c \in Companies, g \in Goods : Deposit(c, g) \/ Abandon(c, g)

Spec == Init /\ [][Next]_vars
-----------------------------------------------------------------------------
Row == {NoRow} \cup [st : {"open", "filled", "expired"}, good : Goods, rem : Nat,
                      left : Int]
Held == {NoHold} \cup [good : Goods, kg : Nat \ {0}, left : 0..HoldTtl]
Loads == [order : Orders, good : Goods, kg : Nat \ {0}, until : 0..Sail]
Sortie == {Grounded} \cup [by : Companies, order : Orders,
                           lines : Seq(Loads) \ {<<>>}]

\* Type invariant of the board and the desks.
TypeOK ==
    /\ board \in [Orders -> Row]
    /\ hold \in [Companies -> [Orders -> Held]]
    /\ stock \in [Companies -> [Goods -> Nat]]
    /\ \A c \in Companies : Room(c) >= 0
    /\ yard \in [Companies -> [Goods -> Nat]]
    /\ flight \in [Flights -> Sortie]
    /\ late \in [Orders -> Row \X Row]
    /\ owed \in [Companies -> [Goods -> Int]]
    /\ landed \in [Orders -> Nat]
    /\ marred \subseteq Orders /\ slips \in 0..MaxSlips

\* What holds and flights carry of an order.
Aboard(o) == Sum([f \in Flights |-> KgFor(flight[f].lines, o)])
OnHold(o) == Sum([c \in Companies |-> hold[c][o].kg])

\* Cargo a company bought is in its warehouse, in its yard or on a flight of
\* its own until it is delivered, lost or thrown away, however often the desk
\* loaded, lowered, trimmed, dropped or put it back.
CargoConserved ==
    \A c \in Companies, g \in Goods :
       owed[c][g] = stock[c][g] + yard[c][g]
         + Sum([f \in Flights |-> IF flight[f].by # c THEN 0
                                 ELSE KgOf(flight[f].lines, g)])

\* Holding, flying, editing and giving back never promise the companies
\* together more of an order than the city wants: what is left on the board,
\* what they hold, what is in the air and what has landed.
NeverOverPromised ==
    \A o \in Orders \ marred :
       board[o].st \in {"open", "filled"} /\ board[o].left > 0 =>
         board[o].rem + OnHold(o) + Aboard(o) + landed[o] <= Wanted[board[o].good]

\* What live holds and flights carry of an order for a product.
Live(o, g) ==
    Sum([c \in Companies |-> IF hold[c][o].good = g /\ hold[c][o].left > 0
                             THEN hold[c][o].kg ELSE 0])
      + Sum([f \in Flights |->
               Sum([i \in DOMAIN flight[f].lines |->
                      LET l == flight[f].lines[i]
                      IN  IF l.order = o /\ l.good = g THEN l.kg ELSE 0])])

Coming(o, g) ==
    \/ IsOpen(board[o]) /\ board[o].good = g
    \/ Live(o, g) >= Wanted[g]

\* A city never asks twice for what it is getting: of the orders of one city
\* for one product at most one is open or, as a whole, on its way, although
\* claims are found again only when the board is listed.
CityOnce ==
    \A o, p \in Orders \ marred, g \in Goods :
       o # p /\ City[o] = City[p] => ~(Coming(o, g) /\ Coming(p, g))
=============================================================================
