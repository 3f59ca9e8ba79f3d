-------------------------- MODULE DemandDesk_proofs --------------------------
(***************************************************************************)
(* Proofs about DemandDesk, for any companies, orders, flights, products   *)
(* and limits: the types of the board and the desks, that cargo is         *)
(* conserved, that no order is promised twice, and that no city asks twice *)
(* for what it is getting.                                                 *)
(***************************************************************************)
EXTENDS DemandDesk, FiniteSetTheorems, SequenceTheorems, WellFoundedInduction, TLAPS

-----------------------------------------------------------------------------
(* Sums.                                                                   *)

Cells(f) == UNION {{x} \X (1..f[x]) : x \in DOMAIN f}

\* Numbers of a finite set of things.
Tally(f) == IsFiniteSet(DOMAIN f) /\ \A x \in DOMAIN f : f[x] \in Nat

LEMMA CellsMember ==
    ASSUME NEW f, NEW p
    PROVE  p \in Cells(f) <=> \E x \in DOMAIN f : \E k \in 1..f[x] : p = <<x, k>>
BY DEF Cells

\* A column of cells is as high as its number.
LEMMA ColumnFinite ==
    ASSUME NEW x, NEW n \in Nat
    PROVE  IsFiniteSet({x} \X (1..n)) /\ Cardinality({x} \X (1..n)) = n
<1> DEFINE f == [k \in 1..n |-> <<x, k>>]
<1>1. f \in Bijection(1..n, {x} \X (1..n))
    BY DEF Bijection, Injection, Surjection, IsInjective
<1>2. IsFiniteSet(1..n) /\ Cardinality(1..n) = n
    <2>1. 1 \in Int /\ n \in Int
        OBVIOUS
    <2>2. Cardinality(1..n) = IF 1 > n THEN 0 ELSE n - 1 + 1
        BY <2>1, FS_Interval
    <2> QED
        BY <2>1, <2>2, FS_Interval
<1> QED
    BY <1>1, <1>2, FS_Bijection DEF ExistsBijection

\* A sum is the size of a finite set.
LEMMA SumNat ==
    ASSUME NEW f, Tally(f)
    PROVE  /\ IsFiniteSet(Cells(f)) /\ Sum(f) = Cardinality(Cells(f))
           /\ Sum(f) \in Nat
<1> DEFINE column == [x \in DOMAIN f |-> {x} \X (1..f[x])]
           S == {column[x] : x \in DOMAIN f}
<1>0. IsFiniteSet(DOMAIN f) /\ \A x \in DOMAIN f : f[x] \in Nat
    BY DEF Tally
<1>1. IsFiniteSet(S)
    <2>1. column \in Surjection(DOMAIN f, S)
        BY DEF Surjection
    <2> QED
        BY <1>0, <2>1, FS_Surjection
<1>2. \A T \in S : IsFiniteSet(T)
    <2> SUFFICES ASSUME NEW x \in DOMAIN f PROVE IsFiniteSet({x} \X (1..f[x]))
        OBVIOUS
    <2> QED
        BY <1>0, ColumnFinite
<1>3. IsFiniteSet(UNION S)
    BY <1>1, <1>2, FS_UNION
<1>4. UNION S = Cells(f)
    BY DEF Cells
<1>5. Sum(f) = Cardinality(Cells(f))
    BY DEF Sum, Cells
<1> QED
    BY <1>3, <1>4, <1>5, FS_CardinalityType

\* Less of everything is less.
LEMMA SumLess ==
    ASSUME NEW f, NEW g, Tally(f), Tally(g), DOMAIN f \subseteq DOMAIN g,
           \A x \in DOMAIN f : f[x] <= g[x]
    PROVE  Sum(f) <= Sum(g)
<1>1. ASSUME NEW p \in Cells(f)
      PROVE  p \in Cells(g)
    <2>1. PICK x \in DOMAIN f : \E k \in 1..f[x] : p = <<x, k>>
        BY CellsMember
    <2>2. PICK k \in 1..f[x] : p = <<x, k>>
        BY <2>1
    <2>3. k \in 1..g[x]
        BY DEF Tally
    <2> QED
        BY <2>2, <2>3, CellsMember
<1>2. Cells(f) \in SUBSET Cells(g)
    BY <1>1
<1> QED
    BY <1>2, SumNat, FS_Subset

\* What has no number does not count.
LEMMA SumOver ==
    ASSUME NEW f, NEW g, Tally(f), Tally(g), DOMAIN f \subseteq DOMAIN g,
           \A x \in DOMAIN f : f[x] = g[x],
           \A x \in DOMAIN g \ DOMAIN f : g[x] = 0
    PROVE  Sum(f) = Sum(g)
<1>1. ASSUME NEW p \in Cells(g)
      PROVE  p \in Cells(f)
    <2>1. PICK x \in DOMAIN g : \E k \in 1..g[x] : p = <<x, k>>
        BY CellsMember
    <2>2. PICK k \in 1..g[x] : p = <<x, k>>
        BY <2>1
    <2>3. x \in DOMAIN f
        OBVIOUS
    <2> QED
        BY <2>2, <2>3, CellsMember
<1>2. ASSUME NEW p \in Cells(f)
      PROVE  p \in Cells(g)
    BY CellsMember
<1>3. Cells(f) = Cells(g)
    BY <1>1, <1>2
<1> QED
    BY <1>3, SumNat

LEMMA SumZero ==
    ASSUME NEW f, Tally(f), \A x \in DOMAIN f : f[x] = 0
    PROVE  Sum(f) = 0
<1>1. Cells(f) = {}
    BY CellsMember
<1> QED
    BY <1>1, SumNat, FS_EmptySet

\* Numbers renamed are the same numbers.
LEMMA SumRenamed ==
    ASSUME NEW f, NEW g, Tally(f), Tally(g),
           NEW b \in Bijection(DOMAIN f, DOMAIN g),
           \A x \in DOMAIN f : f[x] = g[b[x]]
    PROVE  Sum(f) = Sum(g)
<1> DEFINE move == [p \in Cells(f) |-> <<b[p[1]], p[2]>>]
<1>0. /\ \A x \in DOMAIN f : b[x] \in DOMAIN g
      /\ \A x, y \in DOMAIN f : b[x] = b[y] => x = y
      /\ \A y \in DOMAIN g : \E x \in DOMAIN f : b[x] = y
    BY DEF Bijection, Injection, Surjection, IsInjective
<1>1. \A p \in Cells(f) : /\ p[1] \in DOMAIN f /\ p[2] \in 1..f[p[1]]
                          /\ p = <<p[1], p[2]>>
    BY CellsMember
<1>2. move \in [Cells(f) -> Cells(g)]
    BY <1>0, <1>1, CellsMember
<1>3. \A p, q \in Cells(f) : move[p] = move[q] => p = q
    BY <1>0, <1>1
<1>4. ASSUME NEW q \in Cells(g)
      PROVE  \E p \in Cells(f) : move[p] = q
    <2>1. PICK y \in DOMAIN g : \E k \in 1..g[y] : q = <<y, k>>
        BY CellsMember
    <2>2. PICK k \in 1..g[y] : q = <<y, k>>
        BY <2>1
    <2>3. PICK x \in DOMAIN f : b[x] = y
        BY <1>0
    <2>4. <<x, k>> \in Cells(f)
        BY <2>2, <2>3, CellsMember
    <2> QED
        BY <2>2, <2>3, <2>4
<1>5. move \in Bijection(Cells(f), Cells(g))
    BY <1>2, <1>3, <1>4 DEF Bijection, Injection, Surjection, IsInjective
<1> QED
    BY <1>5, SumNat, FS_Bijection DEF ExistsBijection

\* Sums of two numbers each.
LEMMA SumPlus ==
    ASSUME NEW D, NEW f \in [D -> Nat], NEW g \in [D -> Nat], NEW h \in [D -> Nat],
           IsFiniteSet(D), \A x \in D : h[x] = f[x] + g[x]
    PROVE  Sum(h) = Sum(f) + Sum(g)
<1> DEFINE up == [p \in Cells(g) |-> <<p[1], f[p[1]] + p[2]>>]
           top == Cells(h) \ Cells(f)
<1>0. Tally(f) /\ Tally(g) /\ Tally(h)
    BY DEF Tally
<1>1. \A x, k : <<x, k>> \in Cells(f) <=> x \in D /\ k \in 1..f[x]
    BY CellsMember
<1>2. \A x, k : <<x, k>> \in Cells(g) <=> x \in D /\ k \in 1..g[x]
    BY CellsMember
<1>3. \A x, k : <<x, k>> \in Cells(h) <=> x \in D /\ k \in 1..h[x]
    BY CellsMember
<1>4. \A p \in Cells(g) \cup Cells(h) \cup Cells(f) : p = <<p[1], p[2]>>
    BY CellsMember
<1>5. \A p \in Cells(g) : p[1] \in D /\ p[2] \in 1..g[p[1]]
    BY <1>2, <1>4
<1>6. ASSUME NEW p \in Cells(g)
      PROVE  up[p] \in top
    <2>1. f[p[1]] \in Nat /\ g[p[1]] \in Nat /\ h[p[1]] = f[p[1]] + g[p[1]]
        BY <1>5
    <2>2. f[p[1]] + p[2] \in 1..h[p[1]] /\ f[p[1]] + p[2] \notin 1..f[p[1]]
        BY <1>5, <2>1
    <2> QED
        BY <1>1, <1>3, <1>5, <2>2
<1>7. ASSUME NEW p \in Cells(g), NEW q \in Cells(g), up[p] = up[q]
      PROVE  p = q
    <2>1. p[1] = q[1] /\ f[p[1]] + p[2] = f[q[1]] + q[2]
        BY <1>7
    <2>2. p[2] = q[2]
        BY <1>5, <2>1
    <2> QED
        BY <1>4, <2>1, <2>2
<1>8. ASSUME NEW q \in top
      PROVE  \E p \in Cells(g) : up[p] = q
    <2>1. q = <<q[1], q[2]>> /\ q[1] \in D /\ q[2] \in 1..h[q[1]]
        BY <1>3, <1>4
    <2>2. q[2] \notin 1..f[q[1]]
        BY <1>1, <2>1
    <2>3. f[q[1]] \in Nat /\ g[q[1]] \in Nat /\ h[q[1]] = f[q[1]] + g[q[1]]
        BY <2>1
    <2>4. q[2] - f[q[1]] \in 1..g[q[1]]
        BY <2>1, <2>2, <2>3
    <2>5. <<q[1], q[2] - f[q[1]]>> \in Cells(g)
        BY <1>2, <2>1, <2>4
    <2>6. up[<<q[1], q[2] - f[q[1]]>>] = <<q[1], f[q[1]] + (q[2] - f[q[1]])>>
        BY <2>5
    <2>7. f[q[1]] + (q[2] - f[q[1]]) = q[2]
        BY <2>1, <2>3
    <2> QED
        BY <2>1, <2>5, <2>6, <2>7
<1>9. up \in Bijection(Cells(g), top)
    <2>1. up \in [Cells(g) -> top]
        BY <1>6
    <2> QED
        BY <1>7, <1>8, <2>1 DEF Bijection, Injection, Surjection, IsInjective
<1>10. IsFiniteSet(top) /\ Cardinality(top) = Sum(g)
    BY <1>0, <1>9, SumNat, FS_Bijection DEF ExistsBijection
<1>11. Cells(f) \subseteq Cells(h)
    <2> SUFFICES ASSUME NEW p \in Cells(f) PROVE p \in Cells(h)
        OBVIOUS
    <2>1. p = <<p[1], p[2]>> /\ p[1] \in D /\ p[2] \in 1..f[p[1]]
        BY <1>1, <1>4
    <2>2. f[p[1]] \in Nat /\ g[p[1]] \in Nat /\ h[p[1]] = f[p[1]] + g[p[1]]
        BY <2>1
    <2> QED
        BY <1>3, <2>1, <2>2
<1>12. Cells(h) = Cells(f) \cup top /\ Cells(f) \cap top = {}
    BY <1>11
<1>13. Cardinality({}) = 0
    BY FS_EmptySet
<1>14. IsFiniteSet(Cells(f))
    BY <1>0, SumNat
<1> HIDE DEF top
<1>15. Cardinality(Cells(f) \cup top) = Cardinality(Cells(f)) + Cardinality(top) - 0
    BY <1>10, <1>12, <1>13, <1>14, FS_Union
<1>16. Sum(h) = Cardinality(Cells(h)) /\ Sum(f) = Cardinality(Cells(f))
       /\ Sum(f) \in Nat /\ Sum(g) \in Nat
    BY <1>0, SumNat
<1> QED
    BY <1>10, <1>12, <1>15, <1>16

\* One number alone.
LEMMA SumOne ==
    ASSUME NEW f, Tally(f), NEW a \in DOMAIN f, \A x \in DOMAIN f : x # a => f[x] = 0
    PROVE  Sum(f) = f[a]
<1>1. \A x \in DOMAIN f : f[x] \in Nat /\ (x # a => 1..f[x] = {})
    BY DEF Tally
<1>2. Cells(f) = {a} \X (1..f[a])
    BY <1>1 DEF Cells
<1>3. Cardinality({a} \X (1..f[a])) = f[a]
    BY <1>1, ColumnFinite
<1> QED
    BY <1>2, <1>3, SumNat

\* One number that changes changes the sum as much.
LEMMA SumChanged ==
    ASSUME NEW D, NEW f \in [D -> Nat], NEW g \in [D -> Nat], IsFiniteSet(D),
           NEW a \in D, \A x \in D : x # a => f[x] = g[x]
    PROVE  Sum(f) + g[a] = Sum(g) + f[a]
<1> DEFINE rest == [x \in D |-> IF x = a THEN 0 ELSE f[x]]
           one(e) == [x \in D |-> IF x = a THEN e[x] ELSE 0]
<1>1. rest \in [D -> Nat] /\ one(f) \in [D -> Nat] /\ one(g) \in [D -> Nat]
    OBVIOUS
<1>2. Sum(f) = Sum(rest) + Sum(one(f))
    <2>1. \A x \in D : f[x] = rest[x] + one(f)[x]
        OBVIOUS
    <2> HIDE DEF rest, one
    <2> QED
        BY <1>1, <2>1, SumPlus
<1>3. Sum(g) = Sum(rest) + Sum(one(g))
    <2>1. \A x \in D : g[x] = rest[x] + one(g)[x]
        OBVIOUS
    <2> HIDE DEF rest, one
    <2> QED
        BY <1>1, <2>1, SumPlus
<1>4. Tally(one(f)) /\ Tally(one(g)) /\ Tally(rest)
    BY DEF Tally
<1>5. Sum(one(f)) = one(f)[a] /\ Sum(one(g)) = one(g)[a]
    <2>1. /\ \A x \in D : x # a => one(f)[x] = 0 /\ one(g)[x] = 0
          /\ DOMAIN one(f) = D /\ DOMAIN one(g) = D
        OBVIOUS
    <2> HIDE DEF one
    <2> QED
        BY <1>4, <2>1, SumOne
<1>6. one(f)[a] = f[a] /\ one(g)[a] = g[a]
    OBVIOUS
<1>7. Sum(rest) \in Nat
    BY <1>4, SumNat
<1> HIDE DEF rest, one
<1> QED
    BY <1>2, <1>3, <1>5, <1>6, <1>7

\* No number is more than the sum.
LEMMA SumCovers ==
    ASSUME NEW f, Tally(f), NEW a \in DOMAIN f
    PROVE  f[a] <= Sum(f)
<1> DEFINE one == [x \in {a} |-> f[x]]
<1>1. Tally(one)
    BY FS_Singleton DEF Tally
<1>2. Sum(one) = f[a]
    BY <1>1, SumOne
<1> QED
    BY <1>1, <1>2, SumLess DEF Tally

\* Of some numbers there is a least.
LEMMA LeastNumber ==
    ASSUME NEW S \in SUBSET Nat, S # {}
    PROVE  \E m \in S : \A k \in S : m <= k
<1>1. PICK m \in S : \A k \in S : <<k, m>> \notin OpToRel(<, Nat)
    BY WFMin, NatLessThanWellFounded
<1>2. \A k \in S : ~(k < m)
    BY <1>1 DEF OpToRel
<1> QED
    BY <1>2

\* The last of a sequence of numbers.
LEMMA SumNext ==
    ASSUME NEW n \in Nat, NEW f \in [1..(n + 1) -> Nat]
    PROVE  Sum(f) = Sum([i \in 1..n |-> f[i]]) + f[n + 1]
<1> DEFINE first == [i \in 1..n |-> f[i]]
           cut == [i \in 1..(n + 1) |-> IF i = n + 1 THEN 0 ELSE f[i]]
<1>1. IsFiniteSet(1..n) /\ IsFiniteSet(1..(n + 1))
    BY FS_Interval
<1>2. Tally(first) /\ Tally(cut) /\ Tally(f)
    BY <1>1 DEF Tally
<1>3. Sum(first) = Sum(cut)
    <2>1. /\ DOMAIN first \subseteq DOMAIN cut
          /\ \A i \in DOMAIN first : first[i] = cut[i]
          /\ \A i \in DOMAIN cut \ DOMAIN first : cut[i] = 0
        OBVIOUS
    <2> HIDE DEF first, cut
    <2> QED
        BY <1>2, <2>1, SumOver
<1>4. Sum(f) + cut[n + 1] = Sum(cut) + f[n + 1]
    <2>1. /\ cut \in [1..(n + 1) -> Nat] /\ n + 1 \in 1..(n + 1)
          /\ \A i \in 1..(n + 1) : i # n + 1 => f[i] = cut[i]
        OBVIOUS
    <2> HIDE DEF cut
    <2> QED
        BY <1>1, <2>1, SumChanged
<1>5. cut[n + 1] = 0 /\ Sum(f) \in Nat
    BY <1>2, SumNat
<1> HIDE DEF first, cut
<1> QED
    BY <1>3, <1>4, <1>5 DEF first

LEMMA SumEmpty ==
    ASSUME NEW f, DOMAIN f = {}
    PROVE  Sum(f) = 0
BY SumZero, FS_EmptySet DEF Tally

-----------------------------------------------------------------------------
(* Cargo.                                                                  *)

LEMMA GoodsFinite == IsFiniteSet(Goods) /\ IsFiniteSet(Flights)
BY DeskAssumption

LEMMA GoodsPlus ==
    ASSUME NEW f \in [Goods -> Nat], NEW g \in [Goods -> Nat], NEW h \in [Goods -> Nat],
           \A x \in Goods : h[x] = f[x] + g[x]
    PROVE  Sum(h) = Sum(f) + Sum(g)
BY SumPlus, GoodsFinite

\* What is put where there is room, as long as there is, has room.
LEMMA FitsHaveRoom ==
    ASSUME NEW n \in Nat, NEW kg \in [1..n -> Nat], NEW room \in Nat,
           NEW fits \in [1..n -> Nat],
           \A i \in 1..n :
              fits[i] = Least(kg[i], Most(0, room - Sum([j \in 1..(i - 1) |-> kg[j]])))
    PROVE  Sum(fits) <= room
<1> DEFINE before(m) == Sum([i \in 1..m |-> kg[i]])
           put(m) == Sum([i \in 1..m |-> fits[i]])
           T == {m \in 0..n : put(m) # Least(before(m), room)}
<1>0. \A m \in 0..n : before(m) \in Nat /\ put(m) \in Nat
    <2> SUFFICES ASSUME NEW m \in 0..n PROVE before(m) \in Nat /\ put(m) \in Nat
        OBVIOUS
    <2>1. IsFiniteSet(1..m) /\ 1..m \subseteq 1..n
        BY FS_Interval
    <2> QED
        BY <2>1, SumNat DEF Tally
<1>1. put(0) = 0 /\ before(0) = 0
    BY SumEmpty
<1>2. ASSUME NEW m \in 0..n, m < n, put(m) = Least(before(m), room)
      PROVE  put(m + 1) = Least(before(m + 1), room)
    <2>1. before(m + 1) = before(m) + kg[m + 1]
        <3> DEFINE f == [i \in 1..(m + 1) |-> kg[i]]
        <3>1. m \in Nat /\ f \in [1..(m + 1) -> Nat] /\ f[m + 1] = kg[m + 1]
              /\ [i \in 1..m |-> f[i]] = [i \in 1..m |-> kg[i]]
            BY <1>2
        <3>2. Sum(f) = Sum([i \in 1..m |-> f[i]]) + f[m + 1]
            BY <3>1, SumNext
        <3> QED
            BY <3>1, <3>2
    <2>2. put(m + 1) = put(m) + fits[m + 1]
        <3> DEFINE f == [i \in 1..(m + 1) |-> fits[i]]
        <3>1. m \in Nat /\ f \in [1..(m + 1) -> Nat] /\ f[m + 1] = fits[m + 1]
              /\ [i \in 1..m |-> f[i]] = [i \in 1..m |-> fits[i]]
            BY <1>2
        <3>2. Sum(f) = Sum([i \in 1..m |-> f[i]]) + f[m + 1]
            BY <3>1, SumNext
        <3> QED
            BY <3>1, <3>2
    <2>3. fits[m + 1] = Least(kg[m + 1], Most(0, room - before(m)))
        <3>1. m + 1 \in 1..n /\ (m + 1) - 1 = m
            BY <1>2
        <3> QED
            BY <3>1
    <2> HIDE DEF before, put
    <2>4. before(m) \in Nat
        BY <1>0
    <2>5. kg[m + 1] \in Nat
        BY <1>2
    <2> QED
        BY <1>2, <2>1, <2>2, <2>3, <2>4, <2>5 DEF Least, Most
<1>3. T = {}
    <2> SUFFICES ASSUME T # {} PROVE FALSE
        OBVIOUS
    <2>1. T \in SUBSET Nat
        OBVIOUS
    <2> HIDE DEF T
    <2>2. PICK m \in T : \A k \in T : m <= k
        BY <2>1, LeastNumber
    <2>3. m \in 0..n /\ put(m) # Least(before(m), room)
        BY <2>2 DEF T
    <2>4. m # 0
        BY <1>1, <2>3 DEF Least
    <2>5. m - 1 \in 0..n /\ m - 1 < n /\ m - 1 \notin T /\ (m - 1) + 1 = m
        BY <2>2, <2>3, <2>4
    <2>6. put(m - 1) = Least(before(m - 1), room)
        BY <2>5 DEF T
    <2> HIDE DEF put, before
    <2> QED
        BY <1>2, <2>3, <2>5, <2>6
<1>4. put(n) = Least(before(n), room) /\ before(n) \in Nat
    <2>1. n \in 0..n
        OBVIOUS
    <2> HIDE DEF put, before
    <2> QED
        BY <1>0, <1>3, <2>1
<1>5. put(n) = Sum(fits)
    <2>1. [i \in 1..n |-> fits[i]] = fits
        OBVIOUS
    <2> QED
        BY <2>1
<1> HIDE DEF put, before
<1> QED
    BY <1>4, <1>5 DEF Least

\* The kilograms of all products are all kilograms.
LEMMA GoodsSum ==
    ASSUME NEW n \in Nat, NEW kg \in [1..n -> Nat], NEW good \in [1..n -> Goods]
    PROVE  Sum([g \in Goods |->
                  Sum([i \in 1..n |-> IF good[i] = g THEN kg[i] ELSE 0])]) = Sum(kg)
<1> DEFINE of(m, g) == Sum([i \in 1..m |-> IF good[i] = g THEN kg[i] ELSE 0])
           all(m) == Sum([g \in Goods |-> of(m, g)])
           before(m) == Sum([i \in 1..m |-> kg[i]])
           T == {m \in 0..n : all(m) # before(m)}
<1>0. \A m \in 0..n : \A g \in Goods : of(m, g) \in Nat
    <2> SUFFICES ASSUME NEW m \in 0..n, NEW g \in Goods PROVE of(m, g) \in Nat
        OBVIOUS
    <2>1. IsFiniteSet(1..m) /\ 1..m \subseteq 1..n
        BY FS_Interval
    <2> QED
        BY <2>1, SumNat DEF Tally
<1>1. all(0) = 0 /\ before(0) = 0
    <2>1. \A g \in Goods : of(0, g) = 0
        BY SumEmpty
    <2> HIDE DEF of
    <2>2. Tally([g \in Goods |-> of(0, g)])
        BY <2>1, DeskAssumption DEF Tally
    <2>3. all(0) = 0
        BY <2>1, <2>2, SumZero
    <2> QED
        BY <2>3, SumEmpty
<1>2. ASSUME NEW m \in 0..n, m < n, all(m) = before(m)
      PROVE  all(m + 1) = before(m + 1)
    <2>1. before(m + 1) = before(m) + kg[m + 1]
        <3> DEFINE f == [i \in 1..(m + 1) |-> kg[i]]
        <3>1. m \in Nat /\ f \in [1..(m + 1) -> Nat] /\ f[m + 1] = kg[m + 1]
              /\ [i \in 1..m |-> f[i]] = [i \in 1..m |-> kg[i]]
            BY <1>2
        <3>2. Sum(f) = Sum([i \in 1..m |-> f[i]]) + f[m + 1]
            BY <3>1, SumNext
        <3> QED
            BY <3>1, <3>2
    <2> DEFINE one == [g \in Goods |-> IF good[m + 1] = g THEN kg[m + 1] ELSE 0]
    <2>2. \A g \in Goods : of(m + 1, g) = of(m, g) + one[g]
        <3> SUFFICES ASSUME NEW g \in Goods PROVE of(m + 1, g) = of(m, g) + one[g]
            OBVIOUS
        <3> DEFINE f == [i \in 1..(m + 1) |-> IF good[i] = g THEN kg[i] ELSE 0]
        <3>1. m \in Nat /\ f \in [1..(m + 1) -> Nat] /\ f[m + 1] = one[g]
              /\ [i \in 1..m |-> f[i]]
                     = [i \in 1..m |-> IF good[i] = g THEN kg[i] ELSE 0]
            BY <1>2
        <3>2. Sum(f) = Sum([i \in 1..m |-> f[i]]) + f[m + 1]
            BY <3>1, SumNext
        <3> QED
            BY <3>1, <3>2
    <2>3. one \in [Goods -> Nat] /\ kg[m + 1] \in Nat /\ good[m + 1] \in Goods
        BY <1>2
    <2>4. Sum(one) = kg[m + 1]
        <3>1. Tally(one) /\ DOMAIN one = Goods
            BY <2>3, DeskAssumption DEF Tally
        <3>2. one[good[m + 1]] = kg[m + 1]
              /\ \A g \in Goods : g # good[m + 1] => one[g] = 0
            BY <2>3
        <3> HIDE DEF one
        <3> QED
            BY <2>3, <3>1, <3>2, SumOne
    <2> HIDE DEF one, of
    <2>5. all(m + 1) = all(m) + Sum(one)
        <3> DEFINE h == [g \in Goods |-> of(m + 1, g)]
                   f == [g \in Goods |-> of(m, g)]
        <3>1. f \in [Goods -> Nat] /\ h \in [Goods -> Nat]
              /\ \A g \in Goods : h[g] = f[g] + one[g]
            BY <1>0, <1>2, <2>2
        <3> HIDE DEF f, h
        <3>2. one \in [Goods -> Nat] /\ IsFiniteSet(Goods)
            BY <2>3, GoodsFinite
        <3>4. Sum(h) = Sum(f) + Sum(one)
            BY <3>1, <3>2, GoodsPlus
        <3> QED
            BY <3>4 DEF f, h
    <2> HIDE DEF all, before
    <2> QED
        BY <1>2, <2>1, <2>4, <2>5
<1>3. T = {}
    <2> SUFFICES ASSUME T # {} PROVE FALSE
        OBVIOUS
    <2>1. T \in SUBSET Nat
        OBVIOUS
    <2> HIDE DEF T
    <2>2. PICK m \in T : \A k \in T : m <= k
        BY <2>1, LeastNumber
    <2>3. m \in 0..n /\ all(m) # before(m)
        BY <2>2 DEF T
    <2> HIDE DEF all, before
    <2>4. m # 0
        BY <1>1, <2>3
    <2>5. m - 1 \in 0..n /\ m - 1 < n /\ m - 1 \notin T /\ (m - 1) + 1 = m
        BY <2>2, <2>3, <2>4
    <2>6. all(m - 1) = before(m - 1)
        BY <2>5 DEF T
    <2> QED
        BY <1>2, <2>3, <2>5, <2>6
<1>4. all(n) = before(n)
    <2>1. n \in 0..n
        OBVIOUS
    <2> HIDE DEF all, before
    <2> QED
        BY <1>3, <2>1
<1>5. before(n) = Sum(kg)
    <2>1. [i \in 1..n |-> kg[i]] = kg
        OBVIOUS
    <2> QED
        BY <2>1
<1> QED
    BY <1>4, <1>5

\* Lines of a manifest, some of which may be empty.
Parcel == [order : Orders, good : Goods, kg : Nat, until : 0..Sail]

LEMMA LoadsParcels ==
    ASSUME NEW s \in Seq(Loads)
    PROVE  /\ Len(s) \in Nat /\ DOMAIN s = 1..Len(s)
           /\ s \in [1..Len(s) -> Loads] /\ s \in [1..Len(s) -> Parcel]
<1>1. Len(s) \in Nat /\ DOMAIN s = 1..Len(s) /\ s \in [1..Len(s) -> Loads]
    OBVIOUS
<1>2. Loads \subseteq Parcel
    BY DEF Loads, Parcel
<1> QED
    BY <1>1, <1>2

LEMMA ParcelKg ==
    ASSUME NEW p \in Parcel, NEW k \in Nat
    PROVE  /\ [p EXCEPT !.kg = k] \in Parcel
           /\ [p EXCEPT !.kg = k].kg = k
           /\ [p EXCEPT !.kg = k].good = p.good
           /\ [p EXCEPT !.kg = k].order = p.order
BY DEF Parcel

\* What a manifest carries is a number.
LEMMA KgNat ==
    ASSUME NEW n \in Nat, NEW cargo \in [1..n -> Parcel]
    PROVE  /\ \A o : KgFor(cargo, o) \in Nat
           /\ \A g : KgOf(cargo, g) \in Nat
           /\ \A i \in 1..(n + 1) : Before(cargo, i) \in Nat
<1>1. IsFiniteSet(1..n) /\ DOMAIN cargo = 1..n /\ \A i \in 1..n : cargo[i].kg \in Nat
    BY FS_Interval DEF Parcel
<1>2. ASSUME NEW o
      PROVE  KgFor(cargo, o) \in Nat
    <2>1. Tally([i \in DOMAIN cargo |-> IF cargo[i].order = o THEN cargo[i].kg ELSE 0])
        BY <1>1 DEF Tally
    <2> QED
        BY <2>1, SumNat DEF KgFor
<1>3. ASSUME NEW g
      PROVE  KgOf(cargo, g) \in Nat
    <2>1. Tally([i \in DOMAIN cargo |-> IF cargo[i].good = g THEN cargo[i].kg ELSE 0])
        BY <1>1 DEF Tally
    <2> QED
        BY <2>1, SumNat DEF KgOf
<1>4. ASSUME NEW i \in 1..(n + 1)
      PROVE  Before(cargo, i) \in Nat
    <2>1. IsFiniteSet(1..(i - 1)) /\ 1..(i - 1) \subseteq 1..n
        BY FS_Interval
    <2>2. Tally([j \in 1..(i - 1) |-> cargo[j].kg])
        BY <1>1, <2>1 DEF Tally
    <2> QED
        BY <2>2, SumNat DEF Before
<1> QED
    BY <1>2, <1>3, <1>4

\* Cargo divided line by line is all there.
LEMMA KgDivided ==
    ASSUME NEW n \in Nat, NEW cargo \in [1..n -> Parcel], NEW p \in [1..n -> Parcel],
           NEW q \in [1..n -> Parcel],
           \A i \in 1..n : /\ cargo[i].kg = p[i].kg + q[i].kg
                           /\ p[i].good = cargo[i].good /\ q[i].good = cargo[i].good
                           /\ p[i].order = cargo[i].order /\ q[i].order = cargo[i].order
    PROVE  /\ \A g : KgOf(cargo, g) = KgOf(p, g) + KgOf(q, g)
           /\ \A o : KgFor(cargo, o) = KgFor(p, o) + KgFor(q, o)
<1> DEFINE Of(c, g) == [i \in 1..n |-> IF c[i].good = g THEN c[i].kg ELSE 0]
           For(c, o) == [i \in 1..n |-> IF c[i].order = o THEN c[i].kg ELSE 0]
<1>1. /\ \A i \in 1..n : cargo[i].kg \in Nat /\ p[i].kg \in Nat /\ q[i].kg \in Nat
      /\ DOMAIN cargo = 1..n /\ DOMAIN p = 1..n /\ DOMAIN q = 1..n
    BY DEF Parcel
<1>2. IsFiniteSet(1..n)
    BY FS_Interval
<1>3. ASSUME NEW g
      PROVE  KgOf(cargo, g) = KgOf(p, g) + KgOf(q, g)
    <2>1. /\ Of(cargo, g) \in [1..n -> Nat] /\ Of(p, g) \in [1..n -> Nat]
          /\ Of(q, g) \in [1..n -> Nat]
          /\ \A i \in 1..n : Of(cargo, g)[i] = Of(p, g)[i] + Of(q, g)[i]
        BY <1>1
    <2>2. /\ KgOf(cargo, g) = Sum(Of(cargo, g)) /\ KgOf(p, g) = Sum(Of(p, g))
          /\ KgOf(q, g) = Sum(Of(q, g))
        BY <1>1 DEF KgOf
    <2> HIDE DEF Of
    <2>3. Sum(Of(cargo, g)) = Sum(Of(p, g)) + Sum(Of(q, g))
        BY <1>2, <2>1, SumPlus
    <2> QED
        BY <2>2, <2>3
<1>4. ASSUME NEW o
      PROVE  KgFor(cargo, o) = KgFor(p, o) + KgFor(q, o)
    <2>1. /\ For(cargo, o) \in [1..n -> Nat] /\ For(p, o) \in [1..n -> Nat]
          /\ For(q, o) \in [1..n -> Nat]
          /\ \A i \in 1..n : For(cargo, o)[i] = For(p, o)[i] + For(q, o)[i]
        BY <1>1
    <2>2. /\ KgFor(cargo, o) = Sum(For(cargo, o)) /\ KgFor(p, o) = Sum(For(p, o))
          /\ KgFor(q, o) = Sum(For(q, o))
        BY <1>1 DEF KgFor
    <2> HIDE DEF For
    <2>3. Sum(For(cargo, o)) = Sum(For(p, o)) + Sum(For(q, o))
        BY <1>2, <2>1, SumPlus
    <2> QED
        BY <2>2, <2>3
<1> QED
    BY <1>3, <1>4

\* Cargo that is put back into the warehouse and, where that is full, into the
\* yard, is in one of them, and the warehouse holds it.
LEMMA StoredKeeps ==
    ASSUME NEW c \in Companies, NEW n \in Nat, NEW cargo \in [1..n -> Parcel],
           stock \in [Companies -> [Goods -> Nat]],
           yard \in [Companies -> [Goods -> Nat]],
           \A d \in Companies : Room(d) >= 0,
           Stored(c, cargo)
    PROVE  /\ stock' \in [Companies -> [Goods -> Nat]]
           /\ yard' \in [Companies -> [Goods -> Nat]]
           /\ \A d \in Companies : Room(d)' >= 0
           /\ \A d \in Companies \ {c} : stock'[d] = stock[d] /\ yard'[d] = yard[d]
           /\ \A g \in Goods : stock'[c][g] + yard'[c][g]
                                   = stock[c][g] + yard[c][g] + KgOf(cargo, g)
<1> DEFINE fits == [i \in 1..n |->
                       Least(cargo[i].kg, Most(0, Room(c) - Before(cargo, i)))]
           kept == [i \in 1..n |-> [cargo[i] EXCEPT !.kg = fits[i]]]
           left == [i \in 1..n |-> [cargo[i] EXCEPT !.kg = @ - fits[i]]]
           of == [g \in Goods |-> KgOf(kept, g)]
<1>1. DOMAIN cargo = 1..n /\ \A i \in 1..n : cargo[i] \in Parcel /\ cargo[i].kg \in Nat
    BY DEF Parcel
<1>2. Capacity[c] \in Nat /\ Sum(stock[c]) \in Nat /\ Room(c) \in Nat
    <2>1. Tally(stock[c])
        BY GoodsFinite DEF Tally
    <2>2. Capacity[c] \in Nat
        BY DeskAssumption
    <2>3. Sum(stock[c]) \in Nat /\ Room(c) >= 0
        BY <2>1, SumNat
    <2> QED
        BY <2>2, <2>3 DEF Room
<1>3. \A i \in 1..n : Before(cargo, i) \in Nat
    <2>1. \A i \in 1..(n + 1) : Before(cargo, i) \in Nat
        BY KgNat
    <2> QED
        BY <2>1
<1>4. /\ fits \in [1..n -> Nat]
      /\ \A i \in 1..n : fits[i] <= cargo[i].kg
    <2> SUFFICES ASSUME NEW i \in 1..n PROVE fits[i] \in Nat /\ fits[i] <= cargo[i].kg
        OBVIOUS
    <2>1. cargo[i].kg \in Nat /\ Before(cargo, i) \in Nat /\ Room(c) \in Nat
        BY <1>1, <1>2, <1>3
    <2>2. fits[i] = Least(cargo[i].kg, Most(0, Room(c) - Before(cargo, i)))
        OBVIOUS
    <2> HIDE DEF fits
    <2> QED
        BY <2>1, <2>2 DEF Least, Most
<1>5. stock' = [stock EXCEPT ![c] = [g \in Goods |-> stock[c][g] + KgOf(kept, g)]]
      /\ yard' = [yard EXCEPT ![c] = [g \in Goods |-> yard[c][g] + KgOf(left, g)]]
    BY <1>1 DEF Stored
<1>6. Sum([i \in 1..n |-> fits[i]]) <= Room(c)
    <2> DEFINE kg == [i \in 1..n |-> cargo[i].kg]
    <2>1. kg \in [1..n -> Nat]
        BY <1>1
    <2>2. \A i \in 1..n :
              fits[i] = Least(kg[i], Most(0, Room(c) - Sum([j \in 1..(i - 1) |-> kg[j]])))
        <3> SUFFICES ASSUME NEW i \in 1..n
                     PROVE  Before(cargo, i) = Sum([j \in 1..(i - 1) |-> kg[j]])
            OBVIOUS
        <3>1. [j \in 1..(i - 1) |-> kg[j]] = [j \in 1..(i - 1) |-> cargo[j].kg]
            OBVIOUS
        <3> QED
            BY <3>1 DEF Before
    <2>3. [i \in 1..n |-> fits[i]] = fits
        OBVIOUS
    <2> HIDE DEF kg, fits
    <2>4. Sum(fits) <= Room(c)
        BY <1>2, <1>4, <2>1, <2>2, FitsHaveRoom
    <2> QED
        BY <2>3, <2>4
<1> HIDE DEF fits
<1>7. /\ kept \in [1..n -> Parcel] /\ left \in [1..n -> Parcel]
      /\ \A i \in 1..n :
             /\ kept[i].kg = fits[i] /\ kept[i].good = cargo[i].good
             /\ left[i].kg = cargo[i].kg - fits[i] /\ left[i].good = cargo[i].good
             /\ kept[i].order = cargo[i].order /\ left[i].order = cargo[i].order
    <2> SUFFICES ASSUME NEW i \in 1..n
                 PROVE  /\ kept[i] \in Parcel /\ left[i] \in Parcel
                        /\ kept[i].kg = fits[i] /\ kept[i].good = cargo[i].good
                        /\ left[i].kg = cargo[i].kg - fits[i]
                        /\ left[i].good = cargo[i].good
                        /\ kept[i].order = cargo[i].order
                        /\ left[i].order = cargo[i].order
        OBVIOUS
    <2>1. /\ fits[i] \in Nat /\ cargo[i].kg \in Nat /\ fits[i] <= cargo[i].kg
          /\ cargo[i] \in Parcel
        BY <1>1, <1>4
    <2>2. cargo[i].kg - fits[i] \in Nat
        BY <2>1
    <2>3. kept[i] = [cargo[i] EXCEPT !.kg = fits[i]]
          /\ left[i] = [cargo[i] EXCEPT !.kg = cargo[i].kg - fits[i]]
        OBVIOUS
    <2> HIDE DEF kept, left
    <2> QED
        BY <2>1, <2>2, <2>3, ParcelKg
<1> HIDE DEF kept, left
<1>8. \A i \in 1..n : cargo[i].kg = kept[i].kg + left[i].kg
    BY <1>1, <1>4, <1>7
<1>9. \A g \in Goods : /\ KgOf(kept, g) \in Nat /\ KgOf(left, g) \in Nat
                       /\ KgOf(cargo, g) = KgOf(kept, g) + KgOf(left, g)
    <2>1. \A g \in Goods : KgOf(kept, g) \in Nat /\ KgOf(left, g) \in Nat
        BY <1>7, KgNat
    <2>2. \A g : KgOf(cargo, g) = KgOf(kept, g) + KgOf(left, g)
        BY <1>7, <1>8, KgDivided
    <2> QED
        BY <2>1, <2>2
<1>10. Sum(of) = Sum([i \in 1..n |-> fits[i]])
    <2> DEFINE kg == [i \in 1..n |-> fits[i]]
               good == [i \in 1..n |-> cargo[i].good]
    <2>1. kg \in [1..n -> Nat] /\ good \in [1..n -> Goods]
        BY <1>1, <1>4 DEF Parcel
    <2>2. of = [g \in Goods |-> Sum([i \in 1..n |-> IF good[i] = g THEN kg[i] ELSE 0])]
        <3> SUFFICES ASSUME NEW g \in Goods
                     PROVE  KgOf(kept, g)
                                = Sum([i \in 1..n |-> IF good[i] = g THEN kg[i] ELSE 0])
            OBVIOUS
        <3>1. [i \in DOMAIN kept |-> IF kept[i].good = g THEN kept[i].kg ELSE 0]
                  = [i \in 1..n |-> IF good[i] = g THEN kg[i] ELSE 0]
            BY <1>7
        <3> QED
            BY <3>1 DEF KgOf
    <2> HIDE DEF kg, good, of
    <2>3. Sum(of) = Sum(kg)
        BY <2>1, <2>2, GoodsSum
    <2> QED
        BY <2>3 DEF kg
<1>11. of \in [Goods -> Nat]
    BY <1>9
<1>12. /\ stock'[c] = [g \in Goods |-> stock[c][g] + of[g]]
       /\ yard'[c] = [g \in Goods |-> yard[c][g] + KgOf(left, g)]
       /\ \A d \in Companies \ {c} : stock'[d] = stock[d] /\ yard'[d] = yard[d]
       /\ DOMAIN stock' = Companies /\ DOMAIN yard' = Companies
    BY <1>5
<1>13. stock'[c] \in [Goods -> Nat] /\ yard'[c] \in [Goods -> Nat]
    BY <1>9, <1>11, <1>12
<1>14. stock' \in [Companies -> [Goods -> Nat]] /\ yard' \in [Companies -> [Goods -> Nat]]
    BY <1>5, <1>12, <1>13
<1>15. \A g \in Goods : stock'[c][g] + yard'[c][g]
                            = stock[c][g] + yard[c][g] + KgOf(cargo, g)
    BY <1>9, <1>12
<1> HIDE DEF of
<1>16. Sum(stock'[c]) = Sum(stock[c]) + Sum(of)
    <2>1. /\ stock[c] \in [Goods -> Nat]
          /\ \A g \in Goods : stock'[c][g] = stock[c][g] + of[g]
        BY <1>11, <1>12
    <2> QED
        BY <1>11, <1>13, <2>1, GoodsPlus
<1>17. \A d \in Companies : Room(d)' >= 0
    <2> SUFFICES ASSUME NEW d \in Companies PROVE Room(d)' >= 0
        OBVIOUS
    <2>1. CASE d = c
        <3>1. Room(c)' = Capacity[c] - Sum(stock'[c]) /\ Room(c) = Capacity[c] - Sum(stock[c])
            BY DEF Room
        <3>2. Sum(of) \in Nat /\ Sum(of) <= Room(c)
            <4>1. Tally(of)
                BY <1>11, GoodsFinite DEF Tally
            <4> QED
                BY <1>6, <1>10, <4>1, SumNat
        <3> QED
            BY <1>2, <1>16, <2>1, <3>1, <3>2
    <2>2. CASE d # c
        BY <1>12, <2>2 DEF Room
    <2> QED
        BY <2>1, <2>2
<1> QED
    BY <1>12, <1>14, <1>15, <1>17

-----------------------------------------------------------------------------
(* Types.                                                                  *)

\* Numbers with a bound have a largest.
LEMMA MaxMember ==
    ASSUME NEW S \in SUBSET Int, S # {}, NEW b \in Int, \A x \in S : x <= b
    PROVE  Max(S) \in S /\ \A x \in S : x <= Max(S)
<1> DEFINE T == {n \in Nat : b - n \in S}
<1>1. T # {}
    <2>1. PICK x \in S : TRUE
        OBVIOUS
    <2>2. b - x \in Nat /\ b - (b - x) = x
        OBVIOUS
    <2> QED
        BY <2>1, <2>2
<1>2. PICK n \in T : \A k \in T : n <= k
    BY <1>1, LeastNumber
<1>3. \A y \in S : b - n >= y
    <2> SUFFICES ASSUME NEW y \in S PROVE b - n >= y
        OBVIOUS
    <2>1. b - y \in Nat /\ b - (b - y) = y
        OBVIOUS
    <2>2. b - y \in T
        BY <2>1
    <2> QED
        BY <1>2, <2>1, <2>2
<1>4. \E x \in S : \A y \in S : x >= y
    BY <1>2, <1>3
<1>5. Max(S) \in S /\ \A y \in S : Max(S) >= y
    BY <1>4 DEF Max
<1> QED
    BY <1>5

\* What the limits are.
LEMMA Limits ==
    /\ OrderTtl \in Nat /\ HoldTtl \in Nat /\ Sail \in Nat /\ Day \in Nat
    /\ OrderTtl > 0 /\ HoldTtl > 0 /\ Sail > 0 /\ Day > 0 /\ MaxLines \in Nat
    /\ \A g \in Goods : Wanted[g] \in Nat /\ Wanted[g] > 0
    /\ None \notin Companies /\ None \notin Goods /\ MaxSlips \in Nat
BY DeskAssumption

LEMMA MaxWantedNat == MaxWanted \in Nat /\ \A g \in Goods : Wanted[g] <= MaxWanted
<1> DEFINE S == {Wanted[g] : g \in Goods}
<1>1. Tally(Wanted) /\ DOMAIN Wanted = Goods
    BY DeskAssumption DEF Tally
<1>2. \A g \in Goods : Wanted[g] <= Sum(Wanted)
    BY <1>1, SumCovers
<1>3. S \in SUBSET Int /\ S # {} /\ S \subseteq Nat
    BY DeskAssumption
<1>4. Sum(Wanted) \in Int
    BY <1>1, SumNat
<1>5. \A x \in S : x <= Sum(Wanted)
    BY <1>2
<1> HIDE DEF S
<1>6. Max(S) \in S /\ \A x \in S : x <= Max(S)
    BY <1>3, <1>4, <1>5, MaxMember
<1>7. Max(S) = MaxWanted
    BY DEF MaxWanted, S
<1>8. \A g \in Goods : Wanted[g] \in S
    BY DEF S
<1> QED
    BY <1>3, <1>6, <1>7, <1>8

\* A row is blank, or an order's.
LEMMA RowParts ==
    ASSUME NEW r \in Row
    PROVE  /\ r.st # "none" <=> r # NoRow
           /\ r # NoRow => /\ r.st \in {"open", "filled", "expired"} /\ r.good \in Goods
                           /\ r.rem \in Nat /\ r.left \in Int
           /\ r.st = "none" => r = NoRow /\ r.left = 0 /\ r.rem = 0
           /\ r.rem \in Nat /\ r.left \in Int
BY DEF Row, NoRow

LEMMA RowChanged ==
    ASSUME NEW r \in Row, r # NoRow
    PROVE  /\ \A rem \in Nat : [r EXCEPT !.rem = rem] \in Row
           /\ \A left \in Int : [r EXCEPT !.left = left] \in Row
           /\ \A st \in {"open", "filled", "expired"} :
                 /\ [r EXCEPT !.st = st] \in Row
                 /\ \A rem \in Nat : /\ [r EXCEPT !.st = st, !.rem = rem] \in Row
                                     /\ [r EXCEPT !.rem = rem, !.st = st] \in Row
                 /\ \A left \in Int : [r EXCEPT !.st = st, !.left = left] \in Row
BY Zenon DEF Row

\* What happens to a row leaves a row.
LEMMA RestoredType ==
    ASSUME NEW r \in Row, NEW kg \in Nat
    PROVE  Restored(r, kg) \in Row /\ GivenBack(r, kg) \in Row
<1>1. CASE r = NoRow
    BY <1>1 DEF Restored, GivenBack, NoRow
<1>2. CASE r # NoRow
    <2>1. Least(Wanted[r.good], r.rem + kg) \in Nat
        BY <1>2, RowParts, Limits DEF Least
    <2> QED
        BY Zenon, <1>2, <2>1, RowParts, RowChanged DEF Restored, GivenBack
<1> QED
    BY <1>1, <1>2

LEMMA TakenType ==
    ASSUME NEW r \in Row, r.st # "none", NEW kg \in Nat, kg <= r.rem
    PROVE  Taken(r, kg) \in Row
<1>1. r.rem - kg \in Nat /\ r # NoRow
    BY RowParts
<1> DEFINE st == IF r.rem = kg THEN "filled" ELSE "open"
<1>2. st \in {"open", "filled", "expired"}
    OBVIOUS
<1>3. Taken(r, kg) = [r EXCEPT !.rem = r.rem - kg, !.st = st]
    BY DEF Taken
<1> HIDE DEF st
<1>4. r \in [st : {"open", "filled", "expired"}, good : Goods, rem : Nat, left : Int]
    BY <1>1 DEF Row
<1>5. Taken(r, kg) \in [st : {"open", "filled", "expired"}, good : Goods, rem : Nat,
                        left : Int]
    BY Zenon, <1>1, <1>2, <1>3, <1>4
<1> QED
    BY <1>5 DEF Row

LEMMA ClaimedType ==
    ASSUME NEW r \in Row, NEW until \in Int
    PROVE  Claimed(r, until) \in Row
BY Limits DEF Claimed, Row, NoRow, Most

LEMMA ReleasedType ==
    ASSUME NEW r \in Row
    PROVE  /\ Released(r) \in Row /\ Due(r) \in Row /\ Pruned(r) \in Row
           /\ AgoRow(r) \in Row /\ (r.st # "none" => Closed(r) \in Row)
<1>1. NoRow \in Row
    BY DEF Row
<1>2. CASE r = NoRow
    BY <1>1, <1>2 DEF Released, Due, Pruned, AgoRow, NoRow
<1>3. CASE r # NoRow
    <2>1. -Day \in Int /\ Most(r.left - 1, -Day) \in Int
        BY <1>3, RowParts, Limits DEF Most
    <2> QED
        BY Zenon, <1>1, <1>3, <2>1, RowParts, RowChanged
           DEF Released, Due, Pruned, AgoRow, Closed
<1> QED
    BY <1>2, <1>3

LEMMA AgoType ==
    /\ \A x \in Held : AgoHold(x) \in Held
    /\ \A x \in Sortie : AgoFlight(x) \in Sortie
<1>1. ASSUME NEW x \in Held
      PROVE  AgoHold(x) \in Held
    BY Limits DEF AgoHold, Held, NoHold, Most
<1>2. ASSUME NEW x \in Sortie
      PROVE  AgoFlight(x) \in Sortie
    <2>1. CASE x = Grounded
        BY <2>1 DEF AgoFlight, Sortie, Grounded
    <2>2. CASE x # Grounded
        <3>1. /\ x \in [by : Companies, order : Orders, lines : Seq(Loads) \ {<<>>}]
              /\ x.lines \in Seq(Loads) /\ x.lines # <<>>
            BY <2>2 DEF Sortie
        <3> DEFINE ago == [i \in DOMAIN x.lines |-> AgoLine(x.lines[i])]
        <3>2. \A i \in DOMAIN x.lines : ago[i] \in Loads
            <4> SUFFICES ASSUME NEW i \in DOMAIN x.lines PROVE ago[i] \in Loads
                OBVIOUS
            <4>1. x.lines[i] \in Loads
                BY <3>1
            <4> QED
                BY <4>1, Limits DEF Loads, Most, AgoLine
        <3>3. ago \in Seq(Loads) /\ ago # <<>>
            <4>1. DOMAIN x.lines = 1..Len(x.lines) /\ Len(x.lines) \in Nat
                  /\ Len(x.lines) # 0
                BY <3>1
            <4> HIDE DEF ago
            <4>2. ago \in [1..Len(x.lines) -> Loads]
                BY <3>2, <4>1 DEF ago
            <4> QED
                BY <4>1, <4>2
        <3>4. AgoFlight(x) = [x EXCEPT !.lines = ago]
            BY DEF AgoFlight
        <3> HIDE DEF ago
        <3> QED
            BY <3>1, <3>3, <3>4 DEF Sortie
    <2> QED
        BY <2>1, <2>2
<1> QED
    BY <1>1, <1>2

Boards == [Orders -> Row]
Holds == [Orders -> Held]

\* The claims on an order are numbers with a bound.
LEMMA ClaimsType ==
    ASSUME NEW h \in [Companies -> Holds], NEW fl \in [Flights -> Sortie],
           NEW o \in Orders, NEW read \in SUBSET Companies
    PROVE  /\ Claims(h, fl, o, read) \subseteq Nat
           /\ \A x \in Claims(h, fl, o, read) : x <= HoldTtl + Sail
<1> SUFFICES ASSUME NEW x \in Claims(h, fl, o, read)
             PROVE  x \in Nat /\ x <= HoldTtl + Sail
    OBVIOUS
<1>1. CASE \E c \in read : h[c][o].kg > 0 /\ h[c][o].left > 0 /\ x = h[c][o].left
    BY <1>1, Limits DEF Holds, Held, NoHold
<1>2. CASE \E f \in Flights : /\ fl[f].by \in read
                              /\ \E i \in LinesFor(fl[f], o) : x = fl[f].lines[i].until
    <2>1. PICK f \in Flights : /\ fl[f].by \in read
                               /\ \E i \in LinesFor(fl[f], o) : x = fl[f].lines[i].until
        BY <1>2
    <2>2. fl[f] # Grounded
        BY <2>1, Limits DEF Grounded
    <2>3. fl[f].lines \in Seq(Loads)
        BY <2>2 DEF Sortie
    <2>4. PICK i \in DOMAIN fl[f].lines : x = fl[f].lines[i].until
        BY <2>1 DEF LinesFor
    <2>5. fl[f].lines[i] \in Loads
        BY <2>3, <2>4
    <2> QED
        BY <2>4, <2>5, Limits DEF Loads
<1> QED
    BY <1>1, <1>2 DEF Claims

LEMMA ReconciledType ==
    ASSUME NEW b \in Boards, NEW h \in [Companies -> Holds],
           NEW fl \in [Flights -> Sortie], NEW read \in SUBSET Companies
    PROVE  Reconciled(b, h, fl, read) \in Boards
<1> SUFFICES ASSUME NEW o \in Orders PROVE Reconciled(b, h, fl, read)[o] \in Row
    BY DEF Reconciled, Boards
<1>1. b[o] \in Row
    BY DEF Boards
<1>2. CASE b[o].st # "filled"
    BY <1>1, <1>2 DEF Reconciled
<1>3. CASE b[o].st = "filled" /\ Claims(h, fl, o, read) = {}
    BY <1>1, <1>3, ReleasedType DEF Reconciled
<1>4. CASE b[o].st = "filled" /\ Claims(h, fl, o, read) # {}
    <2>1. Claims(h, fl, o, read) \in SUBSET Int /\ HoldTtl + Sail \in Int
        BY ClaimsType, Limits
    <2>2. Max(Claims(h, fl, o, read)) \in Int
        BY <1>4, <2>1, ClaimsType, MaxMember
    <2>3. Reconciled(b, h, fl, read)[o] = Claimed(b[o], Max(Claims(h, fl, o, read)))
        BY <1>4 DEF Reconciled
    <2> QED
        BY <1>1, <2>2, <2>3, ClaimedType
<1> QED
    BY <1>2, <1>3, <1>4

\* What ensureDemandOrders makes of a row: it goes, is pruned, or is listed.
LEMMA EnsuredRow ==
    ASSUME NEW b, NEW b2 \in Ensured(b), NEW o \in Orders
    PROVE  \/ b2[o] = Pruned(b[o])
           \/ IsOpen(b[o]) /\ b2[o] = Pruned([b[o] EXCEPT !.st = "expired"])
           \/ /\ o \in Unused(b)
              /\ \E g \in Goods : b2[o] = [st |-> "open", good |-> g,
                                           rem |-> Wanted[g], left |-> OrderTtl]
<1> DEFINE of(gone, N) ==
               [p \in Orders |->
                  IF p \in DOMAIN N
                  THEN [st |-> "open", good |-> N[p], rem |-> Wanted[N[p]],
                        left |-> OrderTtl]
                  ELSE Pruned(IF p \in gone THEN [b[p] EXCEPT !.st = "expired"]
                              ELSE b[p])]
<1>0. PICK gone \in Trims(b) : \E N \in Listings(b, gone) : b2 = of(gone, N)
    <2>1. Ensured(b) = UNION {{of(gone, N) : N \in Listings(b, gone)} : gone \in Trims(b)}
        BY DEF Ensured
    <2> HIDE DEF of
    <2> QED
        BY <2>1
<1>1. PICK N \in Listings(b, gone) : b2 = of(gone, N)
    BY <1>0
<1>2. DOMAIN N \subseteq Unused(b) /\ \A p \in DOMAIN N : N[p] \in Goods
    BY DEF Listings
<1>3. \A p \in gone : IsOpen(b[p])
    BY DEF Trims, kSubset
<1> QED
    BY <1>1, <1>2, <1>3

LEMMA EnsuredType ==
    ASSUME NEW b \in Boards, NEW b2 \in Ensured(b)
    PROVE  b2 \in Boards
<1>1. ASSUME NEW o \in Orders
      PROVE  b2[o] \in Row
    <2>1. b[o] \in Row
        BY DEF Boards
    <2>2. Pruned(b[o]) \in Row
        BY <2>1, ReleasedType
    <2>3. IsOpen(b[o]) => Pruned([b[o] EXCEPT !.st = "expired"]) \in Row
        <3> SUFFICES ASSUME IsOpen(b[o]) PROVE [b[o] EXCEPT !.st = "expired"] \in Row
            BY ReleasedType
        <3> QED
            BY <2>1 DEF Row, NoRow, IsOpen
    <2>4. \A g \in Goods : [st |-> "open", good |-> g, rem |-> Wanted[g],
                            left |-> OrderTtl] \in Row
        BY Limits DEF Row
    <2> QED
        BY <2>2, <2>3, <2>4, EnsuredRow
<1>3. DOMAIN b2 = Orders /\ b2 = [o \in Orders |-> b2[o]]
    BY DEF Ensured
<1> QED
    BY <1>1, <1>3 DEF Boards

LEMMA WatchedType ==
    ASSUME NEW b \in Boards, NEW h \in [Companies -> Holds],
           NEW fl \in [Flights -> Sortie], NEW read \in SUBSET Companies,
           NEW b2 \in Watched(b, h, fl, read)
    PROVE  b2 \in Boards
<1>1. Swept(b) \in Boards
    BY ReleasedType DEF Swept, Boards
<1>2. Reconciled(Swept(b), h, fl, read) \in Boards
    BY <1>1, ReconciledType
<1> QED
    BY <1>1, <1>2, EnsuredType DEF Watched

\* Holds that run out.
LEMMA KeptType ==
    ASSUME NEW h \in Holds
    PROVE  /\ Kept(h) \in Holds
           /\ \A o \in Orders : Kept(h)[o] = h[o] \/ Kept(h)[o] = NoHold
BY DEF Kept, Holds, Held

LEMMA HeldNat ==
    ASSUME NEW h \in Holds, NEW o \in Orders
    PROVE  /\ h[o].kg \in Nat /\ h[o].left \in Nat
           /\ (h[o].kg > 0 => h[o].good \in Goods)
BY Limits DEF Holds, Held, NoHold

LEMMA ExpiredType ==
    ASSUME NEW b \in Boards, NEW h \in Holds
    PROVE  Expired(b, h) \in Boards
BY HeldNat, RestoredType DEF Expired, Boards

-----------------------------------------------------------------------------
(* Cargo in the air.                                                       *)

\* What a flight carries of a product for a company.
Load(x, c, g) == IF x.by # c THEN 0 ELSE KgOf(x.lines, g)
Carried(c, g) == Sum([f \in Flights |-> Load(flight[f], c, g)])

Balanced(c, g) == owed[c][g] = stock[c][g] + yard[c][g] + Carried(c, g)

AllBalanced == \A c \in Companies, g \in Goods : Balanced(c, g)

LEMMA ConservedBalanced == CargoConserved <=> AllBalanced
<1>1. ASSUME NEW c \in Companies, NEW g \in Goods
      PROVE  Carried(c, g) = Sum([f \in Flights |-> IF flight[f].by # c THEN 0
                                                  ELSE KgOf(flight[f].lines, g)])
    BY DEF Carried, Load
<1> QED
    BY <1>1 DEF CargoConserved, AllBalanced, Balanced

\* Manifests with the same kilograms carry the same.
LEMMA KgAlike ==
    ASSUME NEW p, NEW q, DOMAIN p = DOMAIN q,
           \A i \in DOMAIN p : /\ p[i].kg = q[i].kg /\ p[i].good = q[i].good
                               /\ p[i].order = q[i].order
    PROVE  /\ \A g : KgOf(p, g) = KgOf(q, g)
           /\ \A o : KgFor(p, o) = KgFor(q, o)
<1>1. \A g : [i \in DOMAIN p |-> IF p[i].good = g THEN p[i].kg ELSE 0]
                 = [i \in DOMAIN q |-> IF q[i].good = g THEN q[i].kg ELSE 0]
    OBVIOUS
<1>2. \A o : [i \in DOMAIN p |-> IF p[i].order = o THEN p[i].kg ELSE 0]
                 = [i \in DOMAIN q |-> IF q[i].order = o THEN q[i].kg ELSE 0]
    OBVIOUS
<1> QED
    BY <1>1, <1>2 DEF KgOf, KgFor

\* A flight is on the ground or has a manifest.
LEMMA SortieParts ==
    ASSUME NEW x \in Sortie
    PROVE  /\ x.lines \in Seq(Loads) /\ Len(x.lines) \in Nat
           /\ DOMAIN x.lines = 1..Len(x.lines)
           /\ x.lines \in [1..Len(x.lines) -> Loads]
           /\ x.lines \in [1..Len(x.lines) -> Parcel]
           /\ x # Grounded => /\ x.by \in Companies /\ x.order \in Orders
                              /\ x.lines # <<>> /\ Len(x.lines) > 0
           /\ x = Grounded => x.by = None /\ x.lines = <<>>
<1>1. x.lines \in Seq(Loads)
    <2>1. CASE x = Grounded
        <3>1. <<>> \in Seq(Loads)
            OBVIOUS
        <3> QED
            BY <2>1, <3>1 DEF Grounded
    <2>2. CASE x # Grounded
        BY <2>2 DEF Sortie
    <2> QED
        BY <2>1, <2>2
<1>2. x # Grounded => x.by \in Companies /\ x.order \in Orders /\ x.lines # <<>>
    BY DEF Sortie
<1>3. x = Grounded => x.by = None /\ x.lines = <<>>
    BY DEF Grounded
<1>4. Len(x.lines) \in Nat /\ (x.lines # <<>> => Len(x.lines) > 0)
    BY <1>1
<1> QED
    BY <1>1, <1>2, <1>3, <1>4, LoadsParcels

LEMMA LoadNat ==
    ASSUME NEW x \in Sortie
    PROVE  /\ \A c, g : Load(x, c, g) \in Nat
           /\ \A o : KgFor(x.lines, o) \in Nat
           /\ \A g : KgOf(x.lines, g) \in Nat
           /\ x = Grounded => \A c \in Companies : \A g : Load(x, c, g) = 0
BY SortieParts, KgNat, Limits DEF Load

LEMMA CarriedNat ==
    ASSUME flight \in [Flights -> Sortie], NEW c, NEW g
    PROVE  Carried(c, g) \in Nat
<1>1. Tally([f \in Flights |-> Load(flight[f], c, g)])
    BY LoadNat, GoodsFinite DEF Tally
<1> QED
    BY <1>1, SumNat DEF Carried

LEMMA FlightsChanged ==
    ASSUME NEW f \in [Flights -> Nat], NEW g \in [Flights -> Nat], NEW a \in Flights,
           \A x \in Flights : x # a => f[x] = g[x]
    PROVE  Sum(f) + g[a] = Sum(g) + f[a]
BY SumChanged, GoodsFinite

\* One flight that changes.
LEMMA FlightChanged ==
    ASSUME flight \in [Flights -> Sortie], NEW f \in Flights, NEW x \in Sortie,
           flight' = [flight EXCEPT ![f] = x]
    PROVE  /\ flight' \in [Flights -> Sortie]
           /\ \A c, g : Carried(c, g)' + Load(flight[f], c, g)
                            = Carried(c, g) + Load(x, c, g)
<1>1. flight' \in [Flights -> Sortie] /\ flight'[f] = x
      /\ \A e \in Flights : e # f => flight'[e] = flight[e]
    OBVIOUS
<1>2. ASSUME NEW c, NEW g
      PROVE  Carried(c, g)' + Load(flight[f], c, g) = Carried(c, g) + Load(x, c, g)
    <2> DEFINE now == [e \in Flights |-> Load(flight[e], c, g)]
               then == [e \in Flights |-> Load(flight'[e], c, g)]
    <2>1. now \in [Flights -> Nat] /\ then \in [Flights -> Nat]
        BY <1>1, LoadNat
    <2>2. \A e \in Flights : e # f => then[e] = now[e]
        BY <1>1
    <2>3. now[f] = Load(flight[f], c, g) /\ then[f] = Load(x, c, g)
        BY <1>1
    <2>4. Carried(c, g) = Sum(now) /\ Carried(c, g)' = Sum(then)
        BY DEF Carried, Load
    <2> HIDE DEF now, then
    <2>5. Sum(then) + now[f] = Sum(now) + then[f]
        BY <2>1, <2>2, FlightsChanged
    <2> QED
        BY <2>3, <2>4, <2>5
<1> QED
    BY <1>1, <1>2

\* Nobody's cargo moves.
LEMMA Undisturbed ==
    ASSUME CargoConserved, UNCHANGED <<stock, yard, owed>>,
           \A f \in Flights : \A c \in Companies, g \in Goods :
               Load(flight'[f], c, g) = Load(flight[f], c, g)
    PROVE  CargoConserved'
<1>1. ASSUME NEW c \in Companies, NEW g \in Goods
      PROVE  Balanced(c, g)'
    <2>1. [f \in Flights |-> Load(flight'[f], c, g)]
              = [f \in Flights |-> Load(flight[f], c, g)]
        OBVIOUS
    <2>2. Carried(c, g)' = Carried(c, g)
        BY <2>1 DEF Carried, Load
    <2> QED
        BY <2>2, ConservedBalanced DEF AllBalanced, Balanced
<1>2. AllBalanced'
    BY <1>1 DEF AllBalanced
<1> QED
    BY <1>2, ConservedBalanced, PTL

\* Company c's cargo moves between warehouse, yard, flight f and the outside.
LEMMA Rebalanced ==
    ASSUME CargoConserved, flight \in [Flights -> Sortie], NEW f \in Flights,
           NEW x \in Sortie, flight' = [flight EXCEPT ![f] = x],
           NEW c \in Companies, flight[f].by \in {c, None}, x.by \in {c, None},
           \A d \in Companies \ {c} :
               stock'[d] = stock[d] /\ yard'[d] = yard[d] /\ owed'[d] = owed[d],
           \A g \in Goods :
               /\ {stock[c][g], yard[c][g], stock'[c][g], yard'[c][g]} \subseteq Nat
               /\ owed[c][g] \in Int
               /\ owed'[c][g] = owed[c][g]
                     + (stock'[c][g] + yard'[c][g] + Load(x, c, g))
                     - (stock[c][g] + yard[c][g] + Load(flight[f], c, g))
    PROVE  CargoConserved'
<1>1. ASSUME NEW d \in Companies, NEW g \in Goods
      PROVE  Balanced(d, g)'
    <2>1. /\ Carried(d, g)' + Load(flight[f], d, g) = Carried(d, g) + Load(x, d, g)
          /\ flight' \in [Flights -> Sortie]
        <3>1. \A e, h : Carried(e, h)' + Load(flight[f], e, h)
                            = Carried(e, h) + Load(x, e, h)
            BY FlightChanged
        <3> QED
            BY <3>1
    <2>2. owed[d][g] = stock[d][g] + yard[d][g] + Carried(d, g)
        BY ConservedBalanced DEF AllBalanced, Balanced
    <2>3. /\ Carried(d, g) \in Nat /\ Load(x, d, g) \in Nat /\ flight[f] \in Sortie
          /\ Load(flight[f], d, g) \in Nat
        BY CarriedNat, LoadNat
    <2>4. Carried(d, g)' \in Nat
        <3>1. Tally([e \in Flights |-> Load(flight'[e], d, g)])
            BY <2>1, LoadNat, GoodsFinite DEF Tally
        <3> QED
            BY <3>1, SumNat DEF Carried, Load
    <2>5. CASE d = c
        <3>1. {stock[c][g], yard[c][g], stock'[c][g], yard'[c][g]} \subseteq Nat
              /\ owed[c][g] \in Int
              /\ owed'[c][g] = owed[c][g]
                     + (stock'[c][g] + yard'[c][g] + Load(x, c, g))
                     - (stock[c][g] + yard[c][g] + Load(flight[f], c, g))
            OBVIOUS
        <3>2. /\ stock[d][g] \in Nat /\ yard[d][g] \in Nat
              /\ stock'[d][g] \in Nat /\ yard'[d][g] \in Nat
            BY <2>5, <3>1
        <3>3. owed'[d][g] = owed[d][g] + (stock'[d][g] + yard'[d][g] + Load(x, d, g))
                                - (stock[d][g] + yard[d][g] + Load(flight[f], d, g))
            BY <2>5, <3>1
        <3>4. owed'[d][g] = stock'[d][g] + yard'[d][g] + Carried(d, g)'
            BY <2>1, <2>2, <2>3, <2>4, <3>2, <3>3
        <3> QED
            BY <3>4 DEF Balanced
    <2>6. CASE d # c
        <3>1. Load(x, d, g) = 0 /\ Load(flight[f], d, g) = 0
            BY <2>6, Limits DEF Load
        <3>2. Carried(d, g)' = Carried(d, g)
            BY <2>1, <2>3, <2>4, <3>1
        <3> QED
            BY <2>2, <2>6, <3>2 DEF Balanced
    <2> QED
        BY <2>5, <2>6
<1>2. AllBalanced'
    BY <1>1 DEF AllBalanced
<1> QED
    BY <1>2, ConservedBalanced, PTL

-----------------------------------------------------------------------------
(* Steps that leave cargo where it is.                                     *)

LEMMA TypeParts ==
    ASSUME TypeOK
    PROVE  /\ board \in Boards /\ \A o \in Orders : board[o] \in Row
           /\ hold \in [Companies -> Holds] /\ \A c \in Companies : hold[c] \in Holds
           /\ flight \in [Flights -> Sortie] /\ \A f \in Flights : flight[f] \in Sortie
           /\ stock \in [Companies -> [Goods -> Nat]]
           /\ yard \in [Companies -> [Goods -> Nat]]
           /\ owed \in [Companies -> [Goods -> Int]]
           /\ \A c \in Companies : Room(c) >= 0
BY DEF TypeOK, Boards, Holds

\* A planet whose warehouses are left alone has room in them.
LEMMA RoomKept ==
    ASSUME TypeOK, UNCHANGED stock
    PROVE  \A c \in Companies : Room(c)' >= 0
BY DEF TypeOK, Room

LEMMA SavesType ==
    ASSUME TypeOK, NEW b \in Boards, Saves(b)
    PROVE  board' \in [Orders -> Row] /\ landed' \in [Orders -> Nat]
BY DEF TypeOK, Saves, Boards

LEMMA SlipType ==
    ASSUME TypeOK, NEW kind, Slip(kind)
    PROVE  slips' \in 0..MaxSlips
BY Limits DEF TypeOK, Slip

LEMMA HalfSavesType ==
    ASSUME TypeOK, NEW b \in Boards, HalfSaves(b)
    PROVE  TypeOK' /\ (CargoConserved => CargoConserved')
<1>1. /\ Saves(b) /\ Slip("row") /\ UNCHANGED <<hold, stock, yard, flight, late, owed>>
      /\ marred' \subseteq marred \cup Orders
    BY DEF HalfSaves, row
<1>2. board' \in [Orders -> Row] /\ landed' \in [Orders -> Nat] /\ slips' \in 0..MaxSlips
    BY <1>1, SavesType, SlipType
<1>3. \A c \in Companies : Room(c)' >= 0
    BY <1>1, RoomKept
<1> QED
    BY <1>1, <1>2, <1>3, Undisturbed DEF TypeOK

LEMMA ReadsType ==
    ASSUME TypeOK, NEW c \in Companies, NEW read \in Reads(c)
    PROVE  /\ read \in SUBSET Companies
           /\ Read(c, read) => slips' \in 0..MaxSlips
<1>1. read = Companies \/ read = {c}
    BY DEF Reads
<1> QED
    BY <1>1, SlipType DEF Read, TypeOK

LEMMA LookType ==
    ASSUME TypeOK, NEW c \in Companies, Look(c)
    PROVE  TypeOK' /\ (CargoConserved => CargoConserved')
<1>1. PICK read \in Reads(c) :
         \E b \in Watched(Expired(board, hold[c]), hold, flight, read) :
          \/ /\ Saves(b)
             /\ Read(c, read)
             /\ hold' = [hold EXCEPT ![c] = Kept(@)]
             /\ marred' = (marred \cup Missed(board, read) \cup Cut(b)) \ Fresh(b)
             /\ UNCHANGED <<stock, yard, flight, late, owed>>
          \/ HalfSaves(b)
    BY DEF Look
<1>2. PICK b \in Watched(Expired(board, hold[c]), hold, flight, read) :
          \/ /\ Saves(b)
             /\ Read(c, read)
             /\ hold' = [hold EXCEPT ![c] = Kept(@)]
             /\ marred' = (marred \cup Missed(board, read) \cup Cut(b)) \ Fresh(b)
             /\ UNCHANGED <<stock, yard, flight, late, owed>>
          \/ HalfSaves(b)
    BY <1>1
<1>3. b \in Boards
    <2>1. Expired(board, hold[c]) \in Boards
        BY TypeParts, ExpiredType
    <2>2. read \in SUBSET Companies
        BY ReadsType
    <2> QED
        BY <2>1, <2>2, TypeParts, WatchedType
<1>4. CASE HalfSaves(b)
    BY <1>3, <1>4, HalfSavesType
<1>5. CASE /\ Saves(b)
           /\ Read(c, read)
           /\ hold' = [hold EXCEPT ![c] = Kept(@)]
           /\ marred' = (marred \cup Missed(board, read) \cup Cut(b)) \ Fresh(b)
           /\ UNCHANGED <<stock, yard, flight, late, owed>>
    <2>1. board' \in [Orders -> Row] /\ landed' \in [Orders -> Nat]
          /\ slips' \in 0..MaxSlips
        BY <1>3, <1>5, SavesType, ReadsType
    <2>2. hold' \in [Companies -> [Orders -> Held]]
        BY <1>5, TypeParts, KeptType DEF Holds
    <2>3. marred' \subseteq Orders
        BY <1>5 DEF Missed, Cut, TypeOK
    <2>4. \A d \in Companies : Room(d)' >= 0
        BY <1>5, RoomKept
    <2> QED
        BY <1>5, <2>1, <2>2, <2>3, <2>4, Undisturbed DEF TypeOK
<1> QED
    BY <1>2, <1>4, <1>5

LEMMA OpenPortsType ==
    ASSUME TypeOK, NEW c \in Companies, OpenPorts(c)
    PROVE  TypeOK' /\ (CargoConserved => CargoConserved')
<1>1. /\ hold' = [hold EXCEPT ![c] = Kept(@)]
      /\ UNCHANGED <<board, stock, yard, flight, late, owed, landed, marred, slips>>
    BY DEF OpenPorts
<1>2. hold' \in [Companies -> [Orders -> Held]]
    BY <1>1, TypeParts, KeptType DEF Holds
<1>3. \A d \in Companies : Room(d)' >= 0
    BY <1>1, RoomKept
<1> QED
    BY <1>1, <1>2, <1>3, Undisturbed DEF TypeOK

\* Time does not touch what a flight carries.
LEMMA AgoLoads ==
    ASSUME NEW x \in Sortie
    PROVE  /\ AgoFlight(x).by = x.by /\ AgoFlight(x).order = x.order
           /\ \A o : KgFor(AgoFlight(x).lines, o) = KgFor(x.lines, o)
           /\ \A c, g : Load(AgoFlight(x), c, g) = Load(x, c, g)
           /\ DOMAIN AgoFlight(x).lines = DOMAIN x.lines
           /\ \A i \in DOMAIN x.lines :
                  /\ AgoFlight(x).lines[i].kg = x.lines[i].kg
                  /\ AgoFlight(x).lines[i].good = x.lines[i].good
                  /\ AgoFlight(x).lines[i].order = x.lines[i].order
<1>1. /\ AgoFlight(x).by = x.by /\ AgoFlight(x).order = x.order
      /\ AgoFlight(x).lines = [i \in DOMAIN x.lines |-> AgoLine(x.lines[i])]
    BY DEF AgoFlight, Sortie, Grounded
<1>2. ASSUME NEW i \in DOMAIN x.lines
      PROVE  /\ AgoLine(x.lines[i]).kg = x.lines[i].kg
             /\ AgoLine(x.lines[i]).good = x.lines[i].good
             /\ AgoLine(x.lines[i]).order = x.lines[i].order
    <2>1. x.lines[i] \in Loads
        BY SortieParts
    <2> QED
        BY <2>1 DEF AgoLine, Loads
<1>3. /\ \A g : KgOf(AgoFlight(x).lines, g) = KgOf(x.lines, g)
      /\ \A o : KgFor(AgoFlight(x).lines, o) = KgFor(x.lines, o)
    BY <1>1, <1>2, KgAlike
<1> QED
    BY <1>1, <1>2, <1>3 DEF Load

LEMMA PulseType ==
    ASSUME TypeOK, NEW c \in Companies, Pulse(c)
    PROVE  TypeOK' /\ (CargoConserved => CargoConserved')
<1> DEFINE b1 == [o \in Orders |-> AgoRow(board[o])]
           h == [d \in Companies |-> [o \in Orders |-> AgoHold(hold[d][o])]]
           fl == [f \in Flights |-> AgoFlight(flight[f])]
<1>1. PICK read \in Reads(c) :
          \E b \in Watched(Expired(b1, h[c]), h, fl, read) :
          /\ Saves(b)
          /\ Read(c, read)
          /\ hold' = [h EXCEPT ![c] = Kept(@)]
          /\ flight' = fl
          /\ late' = [o \in Orders |-> <<AgoRow(late[o][1]), AgoRow(late[o][2])>>]
          /\ marred' = (marred \cup Missed(b1, read) \cup Cut(b)) \ Fresh(b)
          /\ UNCHANGED <<stock, yard, owed>>
    BY DEF Pulse
<1>2. PICK b \in Watched(Expired(b1, h[c]), h, fl, read) :
          /\ Saves(b)
          /\ Read(c, read)
          /\ hold' = [h EXCEPT ![c] = Kept(@)]
          /\ flight' = fl
          /\ late' = [o \in Orders |-> <<AgoRow(late[o][1]), AgoRow(late[o][2])>>]
          /\ marred' = (marred \cup Missed(b1, read) \cup Cut(b)) \ Fresh(b)
          /\ UNCHANGED <<stock, yard, owed>>
    BY <1>1
<1>3. b1 \in Boards /\ h \in [Companies -> Holds] /\ fl \in [Flights -> Sortie]
    <2>1. b1 \in Boards
        BY TypeParts, ReleasedType DEF Boards
    <2>2. h \in [Companies -> Holds]
        BY TypeParts, AgoType DEF Holds
    <2>3. fl \in [Flights -> Sortie]
        BY TypeParts, AgoType
    <2> QED
        BY <2>1, <2>2, <2>3
<1>4. late' \in [Orders -> Row \X Row]
    <2> SUFFICES ASSUME NEW o \in Orders
                 PROVE  AgoRow(late[o][1]) \in Row /\ AgoRow(late[o][2]) \in Row
        BY <1>2
    <2>1. late[o][1] \in Row /\ late[o][2] \in Row
        BY DEF TypeOK
    <2> QED
        BY <2>1, ReleasedType
<1>5. marred' \subseteq Orders
    BY <1>2 DEF Missed, Cut, TypeOK
<1>6. \A f \in Flights : \A d \in Companies, g \in Goods :
          Load(flight'[f], d, g) = Load(flight[f], d, g)
    BY <1>2, TypeParts, AgoLoads
<1> HIDE DEF b1, h, fl
<1>7. b \in Boards
    <2>1. Expired(b1, h[c]) \in Boards /\ read \in SUBSET Companies
        BY <1>3, ExpiredType, ReadsType
    <2> QED
        BY <1>3, <2>1, WatchedType
<1>8. board' \in [Orders -> Row] /\ landed' \in [Orders -> Nat] /\ slips' \in 0..MaxSlips
    BY <1>2, <1>7, SavesType, ReadsType
<1>9. hold' \in [Companies -> [Orders -> Held]]
    BY <1>2, <1>3, KeptType DEF Holds
<1>10. \A d \in Companies : Room(d)' >= 0
    BY <1>2, RoomKept
<1>11. UNCHANGED <<stock, yard, owed>> /\ flight' \in [Flights -> Sortie]
    BY <1>2, <1>3
<1> QED
    BY <1>4, <1>5, <1>6, <1>8, <1>9, <1>10, <1>11, Undisturbed DEF TypeOK

\* A board and a hold change, no cargo does.
LEMMA DeskKept ==
    ASSUME TypeOK, NEW b \in Boards, Saves(b), hold' \in [Companies -> Holds],
           UNCHANGED <<stock, yard, flight, late, owed, marred, slips>>
    PROVE  TypeOK' /\ (CargoConserved => CargoConserved')
<1>1. board' \in [Orders -> Row] /\ landed' \in [Orders -> Nat]
    BY SavesType
<1>2. \A d \in Companies : Room(d)' >= 0
    BY RoomKept
<1> QED
    BY <1>1, <1>2, Undisturbed DEF TypeOK, Holds

LEMMA OfferedType ==
    ASSUME TypeOK, NEW c \in Companies, NEW o \in Orders
    PROVE  Offered(c, o) \in Row
<1>1. board[o] \in Row /\ hold[c][o].kg \in Nat
    BY TypeParts, HeldNat
<1> QED
    BY <1>1, ReleasedType, RestoredType DEF Offered

\* What a hold or a flight of kg kilograms takes from an order on offer.
LEMMA TakesType ==
    ASSUME TypeOK, NEW c \in Companies, NEW o \in Orders, IsOpen(Offered(c, o)),
           NEW kg \in 1..Least(Offered(c, o).rem, Free(Kept(hold[c]), c, Offered(c, o).good))
    PROVE  /\ Taken(Offered(c, o), kg) \in Row
           /\ Offered(c, o).good \in Goods /\ Offered(c, o).left \in Nat
           /\ kg \in Nat /\ kg > 0 /\ kg <= stock[c][Offered(c, o).good]
           /\ kg <= Offered(c, o).rem /\ Offered(c, o).st = "open"
<1> DEFINE r == Offered(c, o)
<1>1. r \in Row /\ r.st # "none" /\ r # NoRow /\ r.good \in Goods /\ r.left \in Nat
      /\ r.rem \in Nat /\ r.st = "open"
    <2>1. r \in Row /\ r.st = "open" /\ r.left > 0
        BY OfferedType DEF IsOpen
    <2> HIDE DEF r
    <2> QED
        BY <2>1, RowParts
<1>2. stock[c][r.good] \in Nat
    BY <1>1, TypeParts
<1>3. Reserved(Kept(hold[c]), r.good) \in Nat
    <2> DEFINE h == Kept(hold[c])
               k == [p \in Orders |-> IF h[p].good = r.good THEN h[p].kg ELSE 0]
    <2>1. h \in Holds
        BY TypeParts, KeptType
    <2> HIDE DEF h, r
    <2>2. Tally(k)
        BY <2>1, HeldNat, DeskAssumption DEF Tally
    <2> QED
        BY <2>2, SumNat DEF Reserved, h, r
<1>4. kg \in Nat /\ kg > 0 /\ kg <= r.rem /\ kg <= stock[c][r.good]
    <2>1. kg \in 1..Least(r.rem, Free(Kept(hold[c]), c, r.good))
        OBVIOUS
    <2> HIDE DEF r
    <2> QED
        BY <1>1, <1>2, <1>3, <2>1 DEF Free, Least, Most
<1> HIDE DEF r
<1>5. Taken(r, kg) \in Row
    BY <1>1, <1>4, TakenType
<1> QED
    BY <1>1, <1>4, <1>5 DEF r

LEMMA HoldType ==
    ASSUME TypeOK, NEW c \in Companies, NEW o \in Orders, Hold(c, o)
    PROVE  TypeOK' /\ (CargoConserved => CargoConserved')
<1> DEFINE h == Kept(hold[c])
           r == Offered(c, o)
<1>1. PICK kg \in 1..Least(r.rem, Free(h, c, r.good)) :
             LET until == Least(HoldTtl, r.left)
                 b == [board EXCEPT ![o] = Claimed(Taken(r, kg), until)]
             IN \/ /\ Saves(b)
                   /\ hold' = [hold EXCEPT ![c] = [h EXCEPT ![o] =
                                  [good |-> r.good, kg |-> kg, left |-> until]]]
                   /\ UNCHANGED <<stock, yard, flight, late, owed, marred, slips>>
                \/ HalfSaves(b)
    BY DEF Hold
<1>2. IsOpen(r)
    BY DEF Hold
<1> DEFINE until == Least(HoldTtl, r.left)
           b == [board EXCEPT ![o] = Claimed(Taken(r, kg), until)]
<1>3. Taken(r, kg) \in Row /\ r.good \in Goods /\ r.left \in Nat /\ kg \in Nat /\ kg > 0
    BY <1>2, TakesType
<1>4. until \in 0..HoldTtl
    BY <1>3, Limits DEF Least
<1>5. b \in Boards
    BY <1>3, <1>4, ClaimedType, TypeParts DEF Boards
<1>6. \/ /\ Saves(b)
         /\ hold' = [hold EXCEPT ![c] = [h EXCEPT ![o] =
                        [good |-> r.good, kg |-> kg, left |-> until]]]
         /\ UNCHANGED <<stock, yard, flight, late, owed, marred, slips>>
      \/ HalfSaves(b)
    BY <1>1
<1>7. [h EXCEPT ![o] = [good |-> r.good, kg |-> kg, left |-> until]] \in Holds
    <2>1. [good |-> r.good, kg |-> kg, left |-> until] \in Held
        BY <1>3, <1>4 DEF Held
    <2>2. h \in Holds
        BY TypeParts, KeptType
    <2> HIDE DEF h, r, until
    <2> QED
        BY <2>1, <2>2 DEF Holds
<1> HIDE DEF h, r, until, b
<1>8. CASE HalfSaves(b)
    BY <1>5, <1>8, HalfSavesType
<1>9. CASE ~HalfSaves(b)
    <2>1. hold' \in [Companies -> Holds]
        BY <1>6, <1>7, <1>9, TypeParts
    <2> QED
        BY <1>5, <1>6, <1>9, <2>1, DeskKept
<1> QED
    BY <1>8, <1>9

LEMMA CancelHoldType ==
    ASSUME TypeOK, NEW c \in Companies, NEW o \in Orders, CancelHold(c, o)
    PROVE  TypeOK' /\ (CargoConserved => CargoConserved')
<1> DEFINE h == Kept(hold[c])
           b == [Expired(board, hold[c]) EXCEPT ![o] = Restored(@, h[o].kg)]
<1>1. \/ /\ Saves(b)
         /\ hold' = [hold EXCEPT ![c] = [h EXCEPT ![o] = NoHold]]
         /\ UNCHANGED <<stock, yard, flight, late, owed, marred, slips>>
      \/ HalfSaves(b)
    BY DEF CancelHold
<1>2. h \in Holds /\ h[o].kg \in Nat
    BY TypeParts, KeptType, HeldNat
<1>3. b \in Boards
    <2>1. Expired(board, hold[c]) \in Boards
        BY TypeParts, ExpiredType
    <2>2. Restored(Expired(board, hold[c])[o], h[o].kg) \in Row
        BY <1>2, <2>1, RestoredType DEF Boards
    <2> QED
        BY <2>1, <2>2 DEF Boards
<1>4. [h EXCEPT ![o] = NoHold] \in Holds
    BY <1>2 DEF Holds, Held
<1> HIDE DEF h, b
<1>5. CASE HalfSaves(b)
    BY <1>3, <1>5, HalfSavesType
<1>6. CASE ~HalfSaves(b)
    <2>1. hold' \in [Companies -> Holds]
        BY <1>1, <1>4, <1>6, TypeParts
    <2> QED
        BY <1>1, <1>3, <1>6, <2>1, DeskKept
<1> QED
    BY <1>5, <1>6

LEMMA LateSaveType ==
    ASSUME TypeOK, NEW o \in Orders, LateSave(o)
    PROVE  TypeOK' /\ (CargoConserved => CargoConserved')
<1>1. /\ board' = [board EXCEPT ![o] = late[o][1]]
      /\ late' = [late EXCEPT ![o] = <<NoRow, NoRow>>]
      /\ marred' \subseteq marred \cup {o}
      /\ UNCHANGED <<hold, stock, yard, flight, owed, landed, slips>>
    BY DEF LateSave, row
<1>2. late[o][1] \in Row /\ NoRow \in Row
    BY DEF TypeOK, Row
<1>3. board' \in [Orders -> Row] /\ late' \in [Orders -> Row \X Row]
    BY <1>1, <1>2 DEF TypeOK
<1>4. \A d \in Companies : Room(d)' >= 0
    BY <1>1, RoomKept
<1> QED
    BY <1>1, <1>3, <1>4, Undisturbed DEF TypeOK

-----------------------------------------------------------------------------
(* Steps that move cargo.                                                  *)

\* Cargo moves between a warehouse and the outside.
LEMMA Moved ==
    ASSUME CargoConserved, TypeOK, UNCHANGED <<yard, flight>>,
           \A d \in Companies, h \in Goods :
               /\ stock'[d][h] \in Nat
               /\ owed'[d][h] = owed[d][h] + (stock'[d][h] - stock[d][h])
    PROVE  CargoConserved'
<1>1. ASSUME NEW d \in Companies, NEW h \in Goods
      PROVE  Balanced(d, h)'
    <2>1. Carried(d, h)' = Carried(d, h)
        BY DEF Carried, Load
    <2>2. owed[d][h] = stock[d][h] + yard[d][h] + Carried(d, h)
        BY ConservedBalanced DEF AllBalanced, Balanced
    <2>3. /\ stock[d][h] \in Nat /\ yard[d][h] \in Nat /\ owed[d][h] \in Int
          /\ Carried(d, h) \in Nat
        BY TypeParts, CarriedNat
    <2>4. owed'[d][h] = owed[d][h] + (stock'[d][h] - stock[d][h])
          /\ stock'[d][h] \in Nat /\ yard'[d][h] = yard[d][h]
        OBVIOUS
    <2> QED
        BY <2>1, <2>2, <2>3, <2>4 DEF Balanced
<1>2. AllBalanced'
    BY <1>1 DEF AllBalanced
<1> QED
    BY <1>2, ConservedBalanced, PTL

\* Less cargo has room, and so has more that fits.
LEMMA RoomLess ==
    ASSUME TypeOK, stock' \in [Companies -> [Goods -> Nat]],
           \A c \in Companies, g \in Goods : stock'[c][g] <= stock[c][g]
    PROVE  \A c \in Companies : Room(c)' >= 0
<1> SUFFICES ASSUME NEW c \in Companies PROVE Room(c)' >= 0
    OBVIOUS
<1>1. Tally(stock[c]) /\ Tally(stock'[c]) /\ DOMAIN stock'[c] = Goods
      /\ DOMAIN stock[c] = Goods
    BY TypeParts, GoodsFinite DEF Tally
<1>2. Sum(stock'[c]) <= Sum(stock[c]) /\ Sum(stock'[c]) \in Nat /\ Sum(stock[c]) \in Nat
    BY <1>1, SumLess, SumNat
<1>3. Capacity[c] \in Nat /\ Capacity[c] - Sum(stock[c]) >= 0
    BY DeskAssumption DEF TypeOK, Room
<1> QED
    BY <1>2, <1>3 DEF Room

LEMMA RoomMore ==
    ASSUME TypeOK, NEW c \in Companies, NEW g \in Goods, NEW k \in Nat, k <= Room(c),
           stock' = [stock EXCEPT ![c][g] = @ + k]
    PROVE  /\ stock' \in [Companies -> [Goods -> Nat]]
           /\ \A d \in Companies : Room(d)' >= 0
<1>1. stock[c] \in [Goods -> Nat] /\ stock'[c] = [stock[c] EXCEPT ![g] = @ + k]
      /\ \A d \in Companies : d # c => stock'[d] = stock[d]
    BY TypeParts
<1>2. stock'[c] \in [Goods -> Nat] /\ stock'[c][g] = stock[c][g] + k
      /\ \A h \in Goods : h # g => stock'[c][h] = stock[c][h]
    BY <1>1
<1>3. Sum(stock'[c]) + stock[c][g] = Sum(stock[c]) + stock'[c][g]
    BY <1>1, <1>2, SumChanged, GoodsFinite
<1>4. Sum(stock'[c]) \in Nat /\ Sum(stock[c]) \in Nat /\ stock[c][g] \in Nat
    BY <1>1, <1>2, SumNat, GoodsFinite DEF Tally
<1>5. Capacity[c] \in Nat /\ k <= Capacity[c] - Sum(stock[c])
    BY DeskAssumption DEF Room
<1>6. Room(c)' >= 0
    BY <1>2, <1>3, <1>4, <1>5 DEF Room
<1>7. \A d \in Companies : d # c => Room(d)' >= 0
    BY <1>1 DEF Room, TypeOK
<1>8. stock' \in [Companies -> [Goods -> Nat]]
    BY <1>1, <1>2, TypeParts
<1> QED
    BY <1>6, <1>7, <1>8

LEMMA DepositType ==
    ASSUME TypeOK, NEW c \in Companies, NEW g \in Goods, Deposit(c, g)
    PROVE  TypeOK' /\ (CargoConserved => CargoConserved')
<1>1. /\ Room(c) > 0
      /\ stock' = [stock EXCEPT ![c][g] = @ + 1]
      /\ owed' = [owed EXCEPT ![c][g] = @ + 1]
      /\ UNCHANGED <<board, hold, yard, flight, late, landed, marred, slips>>
    BY DEF Deposit
<1>2. 1 <= Room(c)
    <2>1. Tally(stock[c]) /\ Capacity[c] \in Nat
        BY TypeParts, GoodsFinite, DeskAssumption DEF Tally
    <2> QED
        BY <1>1, <2>1, SumNat DEF Room
<1>3. stock' \in [Companies -> [Goods -> Nat]] /\ \A d \in Companies : Room(d)' >= 0
    BY <1>1, <1>2, RoomMore
<1>4. owed' \in [Companies -> [Goods -> Int]]
    BY <1>1 DEF TypeOK
<1>5. \A d \in Companies, h \in Goods :
          /\ stock'[d][h] \in Nat
          /\ owed'[d][h] = owed[d][h] + (stock'[d][h] - stock[d][h])
    BY <1>1, <1>3, TypeParts
<1>6. CargoConserved => CargoConserved'
    BY <1>1, <1>5, Moved
<1> QED
    BY <1>1, <1>3, <1>4, <1>6 DEF TypeOK

LEMMA AbandonType ==
    ASSUME TypeOK, NEW c \in Companies, NEW g \in Goods, Abandon(c, g)
    PROVE  TypeOK' /\ (CargoConserved => CargoConserved')
<1>1. PICK kg \in 1..Free(hold[c], c, g) :
       /\ stock' = [stock EXCEPT ![c][g] = @ - kg]
       /\ owed' = [owed EXCEPT ![c][g] = @ - kg]
       /\ UNCHANGED <<board, hold, yard, flight, late, landed, marred, slips>>
    BY DEF Abandon
<1>2. kg \in Nat /\ kg <= stock[c][g]
    <2> DEFINE k == [p \in Orders |-> IF hold[c][p].good = g THEN hold[c][p].kg ELSE 0]
    <2>1. Tally(k)
        BY TypeParts, HeldNat, DeskAssumption DEF Tally
    <2>2. Reserved(hold[c], g) \in Nat /\ stock[c][g] \in Nat
        BY <2>1, SumNat, TypeParts DEF Reserved
    <2>3. kg \in 1..Free(hold[c], c, g)
        OBVIOUS
    <2> QED
        BY <2>2, <2>3 DEF Free, Most
<1>3. /\ stock' \in [Companies -> [Goods -> Nat]]
      /\ \A d \in Companies, h \in Goods : stock'[d][h] <= stock[d][h]
    <2>1. \A d \in Companies, h \in Goods : stock[d][h] \in Nat
        BY TypeParts
    <2>2. stock[c][g] - kg \in Nat /\ stock[c][g] - kg <= stock[c][g]
        BY <1>2, <2>1
    <2> QED
        BY <1>1, <2>1, <2>2, TypeParts
<1>4. \A d \in Companies : Room(d)' >= 0
    BY <1>3, RoomLess
<1>5. owed' \in [Companies -> [Goods -> Int]]
    BY <1>1, <1>2 DEF TypeOK
<1>6. CargoConserved => CargoConserved'
    <2>1. \A d \in Companies, h \in Goods :
              /\ stock'[d][h] \in Nat
              /\ owed'[d][h] = owed[d][h] + (stock'[d][h] - stock[d][h])
        BY <1>1, <1>2, <1>3, TypeParts
    <2> QED
        BY <1>1, <2>1, Moved
<1> QED
    BY <1>1, <1>3, <1>4, <1>5, <1>6 DEF TypeOK

LEMMA SavesLaterType ==
    ASSUME TypeOK, NEW o \in Orders, NEW r \in Row, SavesLater(o, r)
    PROVE  /\ board' \in [Orders -> Row] /\ late' \in [Orders -> Row \X Row]
           /\ slips' \in 0..MaxSlips
<1>1. board[o] \in Row
    BY TypeParts
<1>2. CASE /\ r # board[o] /\ Slip("late")
           /\ late' = [late EXCEPT ![o] = <<r, board[o]>>]
           /\ UNCHANGED board
    BY <1>1, <1>2, SlipType DEF TypeOK
<1>3. CASE /\ board' = [board EXCEPT ![o] = r]
           /\ UNCHANGED <<late, slips>>
    BY <1>3 DEF TypeOK
<1> QED
    BY <1>2, <1>3 DEF SavesLater

\* What is given back or released of a flight's order.
LEMMA BackType ==
    ASSUME TypeOK, NEW o \in Orders, NEW kg \in Nat
    PROVE  GivenBack(board[o], kg) \in Row /\ Released(board[o]) \in Row
BY TypeParts, RestoredType, ReleasedType

\* A flight is loaded from a warehouse, or unloaded into it.
Exchange(f, c, x) ==
    /\ flight[f].by \in {c, None} /\ x.by \in {c, None}
    /\ flight' = [flight EXCEPT ![f] = x]
    /\ stock' \in [Companies -> [Goods -> Nat]]
    /\ \A d \in Companies \ {c} : stock'[d] = stock[d]
    /\ yard' = yard /\ owed' = owed
    /\ \A g \in Goods : stock'[c][g] + Load(x, c, g) = stock[c][g] + Load(flight[f], c, g)

LEMMA Loading ==
    ASSUME TypeOK, NEW f \in Flights, NEW c \in Companies, NEW x \in Sortie,
           Exchange(f, c, x)
    PROVE  /\ flight' \in [Flights -> Sortie]
           /\ CargoConserved => CargoConserved'
<1>1. /\ flight[f].by \in {c, None} /\ x.by \in {c, None}
      /\ flight' = [flight EXCEPT ![f] = x]
      /\ stock' \in [Companies -> [Goods -> Nat]]
      /\ \A d \in Companies \ {c} : stock'[d] = stock[d]
      /\ yard' = yard /\ owed' = owed
      /\ \A g \in Goods : stock'[c][g] + Load(x, c, g)
                              = stock[c][g] + Load(flight[f], c, g)
    BY DEF Exchange
<1>2. flight' \in [Flights -> Sortie]
    BY <1>1, TypeParts
<1>3. ASSUME CargoConserved
      PROVE  CargoConserved'
    <2>1. ASSUME NEW g \in Goods
          PROVE  /\ {stock[c][g], yard[c][g], stock'[c][g], yard'[c][g]} \subseteq Nat
                 /\ owed[c][g] \in Int
                 /\ owed'[c][g] = owed[c][g]
                       + (stock'[c][g] + yard'[c][g] + Load(x, c, g))
                       - (stock[c][g] + yard[c][g] + Load(flight[f], c, g))
        <3>1. /\ stock[c][g] \in Nat /\ yard[c][g] \in Nat /\ stock'[c][g] \in Nat
              /\ yard'[c][g] = yard[c][g] /\ owed[c][g] \in Int
              /\ owed'[c][g] = owed[c][g]
            BY <1>1, TypeParts
        <3>2. Load(x, c, g) \in Nat /\ Load(flight[f], c, g) \in Nat
            BY LoadNat, TypeParts
        <3>3. stock'[c][g] + Load(x, c, g) = stock[c][g] + Load(flight[f], c, g)
            BY <1>1
        <3> QED
            BY <3>1, <3>2, <3>3
    <2>2. \A d \in Companies \ {c} :
              stock'[d] = stock[d] /\ yard'[d] = yard[d] /\ owed'[d] = owed[d]
        BY <1>1
    <2> QED
        BY <1>1, <1>3, <2>1, <2>2, TypeParts, Rebalanced
<1> QED
    BY <1>1, <1>2, <1>3

LEMMA Unloading ==
    ASSUME TypeOK, NEW f \in Flights, NEW c \in Companies, NEW x \in Sortie,
           flight[f].by \in {c, None}, x.by \in {c, None},
           flight' = [flight EXCEPT ![f] = x],
           NEW n \in Nat, NEW cargo \in [1..n -> Parcel], Stored(c, cargo),
           UNCHANGED owed,
           \A g \in Goods : Load(flight[f], c, g) = Load(x, c, g) + KgOf(cargo, g)
    PROVE  /\ stock' \in [Companies -> [Goods -> Nat]]
           /\ yard' \in [Companies -> [Goods -> Nat]]
           /\ \A d \in Companies : Room(d)' >= 0
           /\ flight' \in [Flights -> Sortie]
           /\ CargoConserved => CargoConserved'
<1>1. /\ stock' \in [Companies -> [Goods -> Nat]]
      /\ yard' \in [Companies -> [Goods -> Nat]]
      /\ \A d \in Companies : Room(d)' >= 0
      /\ \A d \in Companies \ {c} : stock'[d] = stock[d] /\ yard'[d] = yard[d]
      /\ \A g \in Goods : stock'[c][g] + yard'[c][g]
                              = stock[c][g] + yard[c][g] + KgOf(cargo, g)
    BY StoredKeeps, TypeParts
<1>2. flight' \in [Flights -> Sortie]
    BY TypeParts
<1>3. ASSUME CargoConserved
      PROVE  CargoConserved'
    <2>1. ASSUME NEW g \in Goods
          PROVE  /\ {stock[c][g], yard[c][g], stock'[c][g], yard'[c][g]} \subseteq Nat
                 /\ owed[c][g] \in Int
                 /\ owed'[c][g] = owed[c][g]
                       + (stock'[c][g] + yard'[c][g] + Load(x, c, g))
                       - (stock[c][g] + yard[c][g] + Load(flight[f], c, g))
        <3>1. /\ stock[c][g] \in Nat /\ yard[c][g] \in Nat /\ stock'[c][g] \in Nat
              /\ yard'[c][g] \in Nat /\ owed[c][g] \in Int
              /\ owed'[c][g] = owed[c][g]
            BY <1>1, TypeParts
        <3>2. /\ Load(x, c, g) \in Nat /\ Load(flight[f], c, g) \in Nat
              /\ KgOf(cargo, g) \in Nat
            BY LoadNat, KgNat, TypeParts
        <3>3. /\ Load(flight[f], c, g) = Load(x, c, g) + KgOf(cargo, g)
              /\ stock'[c][g] + yard'[c][g] = stock[c][g] + yard[c][g] + KgOf(cargo, g)
            BY <1>1
        <3> QED
            BY SMTT(30), <3>1, <3>2, <3>3
    <2>2. \A d \in Companies \ {c} :
              stock'[d] = stock[d] /\ yard'[d] = yard[d] /\ owed'[d] = owed[d]
        BY <1>1
    <2> QED
        BY <1>3, <2>1, <2>2, TypeParts, Rebalanced
<1> QED
    BY <1>1, <1>2, <1>3

\* A flight that carries nothing.
LEMMA GroundedLoad ==
    /\ Grounded \in Sortie /\ Grounded.by = None
    /\ \A c, g : Load(Grounded, c, g) = 0
<1>1. Grounded \in Sortie /\ Grounded.by = None /\ Grounded.lines = <<>>
    BY DEF Sortie, Grounded
<1>2. \A g : KgOf(<<>>, g) = 0
    BY SumEmpty DEF KgOf
<1> QED
    BY <1>1, <1>2 DEF Load

LEMMA CancelType ==
    ASSUME TypeOK, NEW f \in Flights, Cancel(f)
    PROVE  TypeOK' /\ (CargoConserved => CargoConserved')
<1> DEFINE x == flight[f]
           c == x.by
<1>1. /\ x # Grounded /\ Stored(c, x.lines)
      /\ flight' = [flight EXCEPT ![f] = Grounded]
      /\ SavesLater(x.order, GivenBack(board[x.order], KgFor(x.lines, x.order)))
      /\ UNCHANGED <<hold, owed, landed, marred>>
    BY DEF Cancel
<1>2. /\ x \in Sortie /\ c \in Companies /\ x.order \in Orders /\ Len(x.lines) \in Nat
      /\ x.lines \in [1..Len(x.lines) -> Parcel]
      /\ \A o : KgFor(x.lines, o) \in Nat
    BY <1>1, TypeParts, SortieParts, LoadNat
<1>3. \A g \in Goods : Load(flight[f], c, g) = Load(Grounded, c, g) + KgOf(x.lines, g)
    <2> SUFFICES ASSUME NEW g \in Goods
                 PROVE  Load(flight[f], c, g) = Load(Grounded, c, g) + KgOf(x.lines, g)
        OBVIOUS
    <2>1. Load(flight[f], c, g) = KgOf(x.lines, g) /\ KgOf(x.lines, g) \in Nat
        BY <1>2, LoadNat DEF Load
    <2> QED
        BY <2>1, GroundedLoad
<1>4. flight[f].by \in {c, None}
    OBVIOUS
<1> HIDE DEF x, c
<1>5. /\ stock' \in [Companies -> [Goods -> Nat]]
      /\ yard' \in [Companies -> [Goods -> Nat]]
      /\ \A d \in Companies : Room(d)' >= 0
      /\ flight' \in [Flights -> Sortie]
      /\ CargoConserved => CargoConserved'
    BY <1>1, <1>2, <1>3, <1>4, GroundedLoad, Unloading
<1>6. GivenBack(board[x.order], KgFor(x.lines, x.order)) \in Row
    BY <1>2, BackType
<1>7. /\ board' \in [Orders -> Row] /\ late' \in [Orders -> Row \X Row]
      /\ slips' \in 0..MaxSlips
    BY <1>1, <1>2, <1>6, SavesLaterType
<1> QED
    BY <1>1, <1>5, <1>7 DEF TypeOK

LEMMA Emptied ==
    ASSUME TypeOK, NEW f \in Flights, flight[f] # Grounded,
           flight' = [flight EXCEPT ![f] = Grounded], Delivered(flight[f]),
           UNCHANGED <<stock, yard>>
    PROVE  /\ owed' \in [Companies -> [Goods -> Int]]
           /\ flight' \in [Flights -> Sortie]
           /\ CargoConserved => CargoConserved'
<1> DEFINE x == flight[f]
           c == x.by
<1>1. x \in Sortie /\ c \in Companies /\ \A g \in Goods : KgOf(x.lines, g) \in Nat
    BY TypeParts, SortieParts, LoadNat
<1>2. owed' = [owed EXCEPT ![c] = [g \in Goods |-> owed[c][g] - KgOf(x.lines, g)]]
    BY DEF Delivered
<1>3. \A g \in Goods : Load(x, c, g) = KgOf(x.lines, g)
    BY <1>1 DEF Load
<1>4. flight[f] = x /\ x.by = c
    OBVIOUS
<1> HIDE DEF x, c
<1>5. \A g \in Goods : owed[c][g] \in Int /\ owed[c][g] - KgOf(x.lines, g) \in Int
    BY <1>1, TypeParts
<1>6. /\ owed' \in [Companies -> [Goods -> Int]]
      /\ \A g \in Goods : owed'[c][g] = owed[c][g] - KgOf(x.lines, g)
      /\ \A d \in Companies \ {c} : owed'[d] = owed[d]
    BY <1>1, <1>2, <1>5, TypeParts
<1>7. flight' \in [Flights -> Sortie]
    BY TypeParts, GroundedLoad
<1>8. ASSUME CargoConserved
      PROVE  CargoConserved'
    <2>1. ASSUME NEW g \in Goods
          PROVE  /\ {stock[c][g], yard[c][g], stock'[c][g], yard'[c][g]} \subseteq Nat
                 /\ owed[c][g] \in Int
                 /\ owed'[c][g] = owed[c][g]
                       + (stock'[c][g] + yard'[c][g] + Load(Grounded, c, g))
                       - (stock[c][g] + yard[c][g] + Load(flight[f], c, g))
        <3>1. /\ stock[c][g] \in Nat /\ yard[c][g] \in Nat /\ stock'[c][g] = stock[c][g]
              /\ yard'[c][g] = yard[c][g] /\ owed[c][g] \in Int
            BY <1>1, TypeParts
        <3>2. /\ Load(Grounded, c, g) = 0 /\ Load(flight[f], c, g) = KgOf(x.lines, g)
              /\ KgOf(x.lines, g) \in Nat /\ owed'[c][g] = owed[c][g] - KgOf(x.lines, g)
            BY <1>1, <1>3, <1>4, <1>6, GroundedLoad
        <3> QED
            BY <3>1, <3>2
    <2>2. flight[f].by \in {c, None} /\ Grounded.by \in {c, None}
        BY <1>4, GroundedLoad
    <2> QED
        BY <1>1, <1>6, <1>8, <2>1, <2>2, TypeParts, GroundedLoad, Rebalanced
<1> QED
    BY <1>6, <1>7, <1>8

LEMMA SettleType ==
    ASSUME TypeOK, NEW f \in Flights, Settle(f)
    PROVE  TypeOK' /\ (CargoConserved => CargoConserved')
<1> DEFINE x == flight[f]
<1>1. /\ x # Grounded /\ Delivered(x)
      /\ flight' = [flight EXCEPT ![f] = Grounded]
      /\ landed' = [o \in Orders |-> IF o \in Blank(board) THEN 0
                       ELSE Least(MaxWanted + 1, landed[o] + KgFor(x.lines, o))]
      /\ SavesLater(x.order, IF KgFor(x.lines, x.order) > 0
                             THEN Released(board[x.order]) ELSE board[x.order])
      /\ UNCHANGED <<hold, stock, yard, marred>>
    BY DEF Settle
<1>2. /\ owed' \in [Companies -> [Goods -> Int]] /\ flight' \in [Flights -> Sortie]
      /\ CargoConserved => CargoConserved'
    BY <1>1, Emptied
<1>3. x.order \in Orders /\ board[x.order] \in Row /\ \A o : KgFor(x.lines, o) \in Nat
    BY <1>1, TypeParts, SortieParts, LoadNat
<1> HIDE DEF x
<1>4. landed' \in [Orders -> Nat]
    <2> SUFFICES ASSUME NEW o \in Orders
                 PROVE  Least(MaxWanted + 1, landed[o] + KgFor(x.lines, o)) \in Nat
        BY <1>1
    <2>1. landed[o] \in Nat
        BY DEF TypeOK
    <2> QED
        BY <1>3, <2>1, MaxWantedNat DEF Least
<1>5. Released(board[x.order]) \in Row
    BY <1>3, ReleasedType
<1>6. /\ board' \in [Orders -> Row] /\ late' \in [Orders -> Row \X Row]
      /\ slips' \in 0..MaxSlips
    BY <1>1, <1>3, <1>5, SavesLaterType
<1>7. \A d \in Companies : Room(d)' >= 0
    BY <1>1, RoomKept
<1> QED
    BY <1>1, <1>2, <1>4, <1>6, <1>7 DEF TypeOK

LEMMA ImpactType ==
    ASSUME TypeOK, NEW f \in Flights, Impact(f)
    PROVE  TypeOK' /\ (CargoConserved => CargoConserved')
<1>1. /\ flight[f] # Grounded /\ Delivered(flight[f])
      /\ flight' = [flight EXCEPT ![f] = Grounded]
      /\ UNCHANGED <<board, hold, stock, yard, late, landed, marred, slips>>
    BY DEF Impact
<1>2. /\ owed' \in [Companies -> [Goods -> Int]] /\ flight' \in [Flights -> Sortie]
      /\ CargoConserved => CargoConserved'
    BY <1>1, Emptied
<1>3. \A d \in Companies : Room(d)' >= 0
    BY <1>1, RoomKept
<1> QED
    BY <1>1, <1>2, <1>3 DEF TypeOK

-----------------------------------------------------------------------------
(* Steps that load, lower or raise a flight.                               *)

LEMMA LineType ==
    ASSUME NEW o \in Orders, NEW good \in Goods, NEW kg \in Nat, kg > 0, NEW r \in Row
    PROVE  /\ Line(o, good, kg, r) \in Loads
           /\ Line(o, good, kg, r).kg = kg /\ Line(o, good, kg, r).good = good
           /\ Line(o, good, kg, r).order = o
<1>1. r.left \in Int
    BY RowParts
<1>2. (IF r.st = "none" THEN Sail ELSE Most(0, Least(r.left, Sail))) \in 0..Sail
    BY <1>1, Limits DEF Most, Least
<1> QED
    BY <1>2 DEF Line, Loads

\* A manifest of one line.
LEMMA OneLine ==
    ASSUME NEW l \in Loads
    PROVE  /\ <<l>> \in Seq(Loads) \ {<<>>}
           /\ \A g : KgOf(<<l>>, g) = IF l.good = g THEN l.kg ELSE 0
<1>1. <<l>> \in Seq(Loads) \ {<<>>} /\ DOMAIN <<l>> = {1} /\ <<l>>[1] = l
    OBVIOUS
<1>2. ASSUME NEW g
      PROVE  KgOf(<<l>>, g) = IF l.good = g THEN l.kg ELSE 0
    <2> DEFINE k == [i \in {1} |-> IF l.good = g THEN l.kg ELSE 0]
    <2>1. k = [i \in DOMAIN <<l>> |-> IF <<l>>[i].good = g THEN <<l>>[i].kg ELSE 0]
        BY <1>1
    <2>2. l.kg \in Nat
        BY DEF Loads
    <2>3. IsFiniteSet({1})
        BY FS_Singleton
    <2>4. Tally(k) /\ 1 \in DOMAIN k /\ \A i \in DOMAIN k : i = 1
        BY <2>2, <2>3 DEF Tally
    <2>5. k[1] = IF l.good = g THEN l.kg ELSE 0
        OBVIOUS
    <2>6. KgOf(<<l>>, g) = Sum(k)
        BY <2>1 DEF KgOf
    <2> HIDE DEF k
    <2>7. Sum(k) = k[1]
        BY <2>4, SumOne
    <2> QED
        BY <2>5, <2>6, <2>7
<1> QED
    BY <1>1, <1>2

LEMMA FlyNowType ==
    ASSUME TypeOK, NEW c \in Companies, NEW o \in Orders, NEW f \in Flights,
           FlyNow(c, o, f)
    PROVE  TypeOK' /\ (CargoConserved => CargoConserved')
<1> DEFINE h == Kept(hold[c])
           r == Offered(c, o)
<1>1. flight[f] = Grounded /\ IsOpen(r)
    BY DEF FlyNow
<1>2. PICK kg \in 1..Least(r.rem, Free(h, c, r.good)) :
             LET b == [board EXCEPT ![o] = Taken(r, kg)]
             IN \/ /\ Saves(b)
                   /\ hold' = [hold EXCEPT ![c] = h]
                   /\ stock' = [stock EXCEPT ![c][r.good] = @ - kg]
                   /\ flight' = [flight EXCEPT ![f] =
                                   [by |-> c, order |-> o, lines |-> <<Line(o, r.good, kg, r)>>]]
                   /\ UNCHANGED <<yard, late, owed, marred, slips>>
                \/ HalfSaves(b)
    BY DEF FlyNow
<1> DEFINE b == [board EXCEPT ![o] = Taken(r, kg)]
           l == Line(o, r.good, kg, r)
           x == [by |-> c, order |-> o, lines |-> <<l>>]
           s == [stock[c] EXCEPT ![r.good] = @ - kg]
<1>3. /\ Taken(r, kg) \in Row /\ r.good \in Goods /\ kg \in Nat /\ kg > 0
      /\ kg <= stock[c][r.good]
    BY <1>1, TakesType
<1>4. r \in Row
    BY OfferedType
<1>5. \/ /\ Saves(b)
         /\ hold' = [hold EXCEPT ![c] = h]
         /\ stock' = [stock EXCEPT ![c][r.good] = @ - kg]
         /\ flight' = [flight EXCEPT ![f] = x]
         /\ UNCHANGED <<yard, late, owed, marred, slips>>
      \/ HalfSaves(b)
    BY <1>2
<1>6. b \in Boards
    BY <1>3, TypeParts DEF Boards
<1>7. h \in Holds
    BY TypeParts, KeptType
<1> HIDE DEF h, r
<1>8. l \in Loads /\ l.kg = kg /\ l.good = r.good
    BY <1>3, <1>4, LineType
<1> HIDE DEF l
<1>9. x \in Sortie /\ x.by = c /\ x.lines = <<l>>
    BY <1>8, OneLine DEF Sortie
<1>10. /\ s \in [Goods -> Nat]
       /\ \A g \in Goods : s[g] + Load(x, c, g) = stock[c][g] + Load(flight[f], c, g)
    <2>1. stock[c] \in [Goods -> Nat]
        BY TypeParts
    <2>2. s \in [Goods -> Nat] /\ s[r.good] = stock[c][r.good] - kg
          /\ \A g \in Goods : g # r.good => s[g] = stock[c][g]
        BY <1>3, <2>1
    <2>3. \A g \in Goods : Load(flight[f], c, g) = 0
        BY <1>1, GroundedLoad
    <2>4. \A g \in Goods : Load(x, c, g) = IF g = r.good THEN kg ELSE 0
        BY <1>8, <1>9, OneLine DEF Load
    <2> HIDE DEF s, x
    <2> QED
        BY <1>3, <2>1, <2>2, <2>3, <2>4
<1>11. \A g \in Goods : s[g] <= stock[c][g]
    <2>1. \A g \in Goods : stock[c][g] \in Nat
        BY TypeParts
    <2> QED
        BY <1>3, <2>1
<1>12. CASE HalfSaves(b)
    BY <1>6, <1>12, HalfSavesType
<1>13. CASE ~HalfSaves(b)
    <2>1. stock' = [stock EXCEPT ![c] = s]
        BY <1>5, <1>13
    <2> HIDE DEF s, x, b
    <2>2. flight[f].by \in {c, None} /\ x.by \in {c, None}
        BY <1>1, <1>9, GroundedLoad
    <2>7. /\ stock' \in [Companies -> [Goods -> Nat]] /\ stock'[c] = s
          /\ \A d \in Companies \ {c} : stock'[d] = stock[d]
        BY <1>10, <2>1, TypeParts
    <2>3. /\ flight' \in [Flights -> Sortie]
          /\ CargoConserved => CargoConserved'
        <3>1. Exchange(f, c, x)
            BY <1>5, <1>10, <1>13, <2>2, <2>7 DEF Exchange
        <3> QED
            BY <1>9, <3>1, Loading
    <2>4. \A d \in Companies : Room(d)' >= 0
        <3>1. \A d \in Companies, g \in Goods : stock'[d][g] <= stock[d][g]
            <4>1. \A d \in Companies, g \in Goods : stock[d][g] <= stock[d][g]
                BY TypeParts
            <4> QED
                BY <1>11, <2>1, <4>1, TypeParts
        <3> QED
            BY <2>7, <3>1, RoomLess
    <2>5. board' \in [Orders -> Row] /\ landed' \in [Orders -> Nat]
        BY <1>5, <1>6, <1>13, SavesType
    <2>6. hold' \in [Companies -> [Orders -> Held]]
        BY <1>5, <1>7, <1>13, TypeParts DEF Holds
    <2> QED
        BY <1>5, <1>13, <2>3, <2>4, <2>5, <2>6, <2>7 DEF TypeOK
<1> QED
    BY <1>12, <1>13

\* Parts of holds are drawn once each.
LEMMA PicksParts ==
    ASSUME NEW h \in Holds, NEW p \in Picks(h)
    PROVE  \E n \in Nat \ {0} :
             /\ p \in [1..n -> Orders \X Nat] /\ DOMAIN p = 1..n
             /\ \A i \in 1..n : /\ p[i][1] \in Orders /\ p[i][2] \in Nat /\ p[i][2] > 0
                                /\ p[i][2] <= h[p[i][1]].kg
                                /\ h[p[i][1]].good \in Goods
             /\ \A i, j \in 1..n : i # j => p[i][1] # p[j][1]
<1> DEFINE parts == UNION {{o} \X (1..h[o].kg) : o \in Orders}
<1>1. PICK n \in 1..MaxLines : p \in [1..n -> parts]
    BY DEF Picks
<1>2. \A i, j \in DOMAIN p : i # j => p[i][1] # p[j][1]
    BY DEF Picks
<1>3. n \in Nat \ {0} /\ DOMAIN p = 1..n
    BY <1>1, Limits
<1>4. \A q \in parts : /\ q \in Orders \X Nat
                       /\ q[1] \in Orders /\ q[2] \in Nat /\ q[2] > 0
                       /\ q[2] <= h[q[1]].kg /\ h[q[1]].good \in Goods
    <2> SUFFICES ASSUME NEW o \in Orders, NEW k \in 1..h[o].kg
                 PROVE  k \in Nat /\ k > 0 /\ k <= h[o].kg /\ h[o].good \in Goods
        OBVIOUS
    <2>1. h[o].kg \in Nat
        BY HeldNat
    <2>2. k \in Nat /\ k > 0 /\ k <= h[o].kg
        BY <2>1
    <2> QED
        BY <2>1, <2>2, HeldNat
<1> HIDE DEF parts
<1>5. \A i \in 1..n : p[i] \in parts
    BY <1>1
<1>6. p \in [1..n -> Orders \X Nat]
    BY <1>1, <1>4, <1>5
<1> QED
    BY <1>2, <1>3, <1>4, <1>5, <1>6

\* Of a hold no more is drawn than there is.
LEMMA DrawnHeld ==
    ASSUME NEW h \in Holds, NEW p \in Picks(h), NEW o \in Orders
    PROVE  Drawn(p, o) \in Nat /\ Drawn(p, o) <= h[o].kg
<1>1. PICK n \in Nat \ {0} :
             /\ p \in [1..n -> Orders \X Nat] /\ DOMAIN p = 1..n
             /\ \A i \in 1..n : /\ p[i][1] \in Orders /\ p[i][2] \in Nat /\ p[i][2] > 0
                                /\ p[i][2] <= h[p[i][1]].kg
                                /\ h[p[i][1]].good \in Goods
             /\ \A i, j \in 1..n : i # j => p[i][1] # p[j][1]
    BY PicksParts
<1> DEFINE k == [i \in DOMAIN p |-> IF p[i][1] = o THEN p[i][2] ELSE 0]
<1>2. Tally(k) /\ Drawn(p, o) = Sum(k) /\ DOMAIN k = 1..n
    BY <1>1, FS_Interval DEF Tally, Drawn
<1>3. h[o].kg \in Nat
    BY HeldNat
<1>4. CASE \E i \in 1..n : p[i][1] = o
    <2>1. PICK i \in 1..n : p[i][1] = o
        BY <1>4
    <2>2. k[i] = p[i][2] /\ \A j \in DOMAIN k : j # i => k[j] = 0
        BY <1>1, <2>1
    <2> HIDE DEF k
    <2>3. Sum(k) = k[i]
        BY <1>2, <2>2, SumOne
    <2> QED
        BY <1>1, <1>2, <2>1, <2>2, <2>3
<1>5. CASE \A i \in 1..n : p[i][1] # o
    <2>1. \A j \in DOMAIN k : k[j] = 0
        BY <1>1, <1>5
    <2> HIDE DEF k
    <2>2. Sum(k) = 0
        BY <1>2, <2>1, SumZero
    <2> QED
        BY <1>2, <1>3, <2>2
<1> QED
    BY <1>4, <1>5

LEMMA DispatchType ==
    ASSUME TypeOK, NEW c \in Companies, NEW f \in Flights, Dispatch(c, f)
    PROVE  TypeOK' /\ (CargoConserved => CargoConserved')
<1> DEFINE h == Kept(hold[c])
<1>1. flight[f] = Grounded
    BY DEF Dispatch
<1>2. PICK p \in Picks(h) :
       /\ \A g \in Goods : Loaded(h, p, g) <= stock[c][g]
       /\ hold' = [hold EXCEPT ![c] = [o \in Orders |->
                     IF h[o].kg = Drawn(p, o) THEN NoHold
                     ELSE [h[o] EXCEPT !.kg = h[o].kg - Drawn(p, o)]]]
       /\ stock' = [stock EXCEPT ![c] = [g \in Goods |-> @[g] - Loaded(h, p, g)]]
       /\ flight' = [flight EXCEPT ![f] =
                       [by |-> c, order |-> p[1][1],
                        lines |-> [i \in DOMAIN p |->
                          Line(p[i][1], h[p[i][1]].good, p[i][2],
                               Pruned(Offered(c, p[i][1])))]]]
       /\ UNCHANGED <<board, yard, late, owed, landed, marred, slips>>
    BY DEF Dispatch
<1>3. h \in Holds
    BY TypeParts, KeptType
<1> HIDE DEF h
<1>4. PICK n \in Nat \ {0} :
             /\ p \in [1..n -> Orders \X Nat] /\ DOMAIN p = 1..n
             /\ \A i \in 1..n : /\ p[i][1] \in Orders /\ p[i][2] \in Nat /\ p[i][2] > 0
                                /\ p[i][2] <= h[p[i][1]].kg
                                /\ h[p[i][1]].good \in Goods
             /\ \A i, j \in 1..n : i # j => p[i][1] # p[j][1]
    BY <1>3, PicksParts
<1> DEFINE cargo == [i \in DOMAIN p |-> Line(p[i][1], h[p[i][1]].good, p[i][2],
                                             Pruned(Offered(c, p[i][1])))]
           x == [by |-> c, order |-> p[1][1], lines |-> cargo]
           s == [g \in Goods |-> stock[c][g] - Loaded(h, p, g)]
<1>5. \A i \in 1..n : /\ cargo[i] \in Loads /\ cargo[i].kg = p[i][2]
                      /\ cargo[i].good = h[p[i][1]].good
    <2> SUFFICES ASSUME NEW i \in 1..n
                 PROVE  LET l == Line(p[i][1], h[p[i][1]].good, p[i][2],
                                      Pruned(Offered(c, p[i][1])))
                        IN  l \in Loads /\ l.kg = p[i][2] /\ l.good = h[p[i][1]].good
        BY <1>4
    <2>1. Pruned(Offered(c, p[i][1])) \in Row
        BY <1>4, OfferedType, ReleasedType
    <2> QED
        BY <1>4, <2>1, LineType
<1>6. cargo \in Seq(Loads) \ {<<>>} /\ DOMAIN cargo = 1..n
    <2>1. cargo \in [1..n -> Loads] /\ DOMAIN cargo = 1..n
        BY <1>4, <1>5
    <2> HIDE DEF cargo
    <2>2. cargo \in Seq(Loads) /\ 1 \in DOMAIN cargo
        BY <2>1
    <2>3. cargo # <<>>
        BY <2>2
    <2> QED
        BY <2>1, <2>2, <2>3
<1>7. \A g \in Goods : KgOf(cargo, g) = Loaded(h, p, g)
    <2> SUFFICES ASSUME NEW g \in Goods PROVE KgOf(cargo, g) = Loaded(h, p, g)
        OBVIOUS
    <2>1. [i \in DOMAIN cargo |-> IF cargo[i].good = g THEN cargo[i].kg ELSE 0]
              = [i \in DOMAIN p |-> IF h[p[i][1]].good = g THEN p[i][2] ELSE 0]
        BY <1>4, <1>5
    <2> QED
        BY <2>1 DEF KgOf, Loaded
<1> HIDE DEF cargo
<1>8. x \in Sortie /\ x.by = c /\ x.lines = cargo
    BY <1>4, <1>6 DEF Sortie
<1>9. flight' = [flight EXCEPT ![f] = x]
    BY <1>2 DEF cargo
<1>10. stock' = [stock EXCEPT ![c] = s]
    BY <1>2
<1> HIDE DEF x
<1>11. /\ s \in [Goods -> Nat]
       /\ \A g \in Goods : /\ s[g] <= stock[c][g]
                           /\ s[g] + Load(x, c, g) = stock[c][g] + Load(flight[f], c, g)
    <2> SUFFICES ASSUME NEW g \in Goods
                 PROVE  /\ s[g] \in Nat /\ s[g] <= stock[c][g]
                        /\ s[g] + Load(x, c, g) = stock[c][g] + Load(flight[f], c, g)
        OBVIOUS
    <2>1. stock[c][g] \in Nat /\ Loaded(h, p, g) <= stock[c][g]
        BY <1>2, TypeParts
    <2>2. Loaded(h, p, g) \in Nat
        BY <1>7, <1>8, LoadNat
    <2>3. Load(x, c, g) = Loaded(h, p, g) /\ Load(flight[f], c, g) = 0
        BY <1>1, <1>7, <1>8, GroundedLoad DEF Load
    <2> QED
        BY <2>1, <2>2, <2>3
<1> HIDE DEF s
<1>12. /\ stock' \in [Companies -> [Goods -> Nat]]
       /\ flight' \in [Flights -> Sortie]
       /\ CargoConserved => CargoConserved'
    <2>1. flight[f].by \in {c, None} /\ x.by \in {c, None}
        BY <1>1, <1>8, GroundedLoad
    <2>2. yard' = yard /\ owed' = owed
        BY <1>2
    <2>3. /\ stock' \in [Companies -> [Goods -> Nat]] /\ stock'[c] = s
          /\ \A d \in Companies \ {c} : stock'[d] = stock[d]
        BY <1>10, <1>11, TypeParts
    <2>4. \A g \in Goods : stock'[c][g] + Load(x, c, g)
                               = stock[c][g] + Load(flight[f], c, g)
        BY <1>11, <2>3
    <2>5. x \in Sortie
        BY <1>8
    <2>6. Exchange(f, c, x)
        BY <1>9, <2>1, <2>2, <2>3, <2>4 DEF Exchange
    <2>7. flight' \in [Flights -> Sortie] /\ (CargoConserved => CargoConserved')
        BY <2>5, <2>6, Loading
    <2> QED
        BY <2>3, <2>7
<1>13. \A d \in Companies : Room(d)' >= 0
    <2>1. \A d \in Companies, g \in Goods : stock[d][g] <= stock[d][g]
        BY TypeParts
    <2>2. \A d \in Companies, g \in Goods : stock'[d][g] <= stock[d][g]
        BY <1>10, <1>11, <2>1, TypeParts
    <2> QED
        BY <1>12, <2>2, RoomLess
<1>14. hold' \in [Companies -> [Orders -> Held]]
    <2> DEFINE h2 == [o \in Orders |->
                        IF h[o].kg = Drawn(p, o) THEN NoHold
                        ELSE [h[o] EXCEPT !.kg = h[o].kg - Drawn(p, o)]]
    <2>1. ASSUME NEW o \in Orders
          PROVE  h2[o] \in Held
        <3>1. Drawn(p, o) \in Nat /\ Drawn(p, o) <= h[o].kg /\ h[o].kg \in Nat
            BY <1>3, DrawnHeld, HeldNat
        <3>2. CASE h[o].kg = Drawn(p, o)
            BY <3>2 DEF Held
        <3>3. CASE h[o].kg # Drawn(p, o)
            <4>1. h[o].kg - Drawn(p, o) \in Nat \ {0} /\ h[o] # NoHold
                BY <3>1, <3>3 DEF NoHold
            <4>2. h[o] \in [good : Goods, kg : Nat \ {0}, left : 0..HoldTtl]
                BY <1>3, <4>1 DEF Holds, Held
            <4> QED
                BY <3>3, <4>1, <4>2 DEF Held
        <3> QED
            BY <3>2, <3>3
    <2>2. h2 \in [Orders -> Held]
        BY <2>1
    <2>3. hold' = [hold EXCEPT ![c] = h2]
        BY <1>2
    <2> HIDE DEF h2
    <2> QED
        BY <2>2, <2>3 DEF TypeOK
<1> QED
    BY <1>2, <1>12, <1>13, <1>14 DEF TypeOK

\* Another manifest for a flight.
LEMMA Manifest ==
    ASSUME NEW x \in Sortie, x # Grounded, NEW cargo \in Seq(Loads) \ {<<>>}
    PROVE  /\ [x EXCEPT !.lines = cargo] \in Sortie
           /\ [x EXCEPT !.lines = cargo].by = x.by
           /\ [x EXCEPT !.lines = cargo].order = x.order
           /\ [x EXCEPT !.lines = cargo].lines = cargo
BY DEF Sortie

LEMMA EditOnlyType ==
    ASSUME TypeOK, NEW f \in Flights, NEW kg \in 1..MaxWanted, EditOnly(f, kg)
    PROVE  TypeOK' /\ (CargoConserved => CargoConserved')
<1> DEFINE x == flight[f]
           l == x.lines[1]
           o == x.order
           c == x.by
           more == kg - l.kg
           Part(r) == IF more < 0 THEN GivenBack(r, -more) ELSE Taken(r, more)
<1>1. Len(x.lines) = 1 /\ more # 0
    BY Zenon DEF EditOnly
<1>2. PICK b1 \in Ensured(Swept(board)) :
             /\ b1[o].st # "none"
             /\ more > 0 => /\ b1[o].left > 0 /\ b1[o].st \in {"open", "filled"}
                            /\ more <= Least(b1[o].rem, stock[x.by][l.good])
             /\ more < 0 => -more <= Room(x.by)
             /\ LET b == [b1 EXCEPT ![o] = Part(@)]
                IN \/ /\ Saves(b)
                      /\ stock' = [stock EXCEPT ![x.by][l.good] = @ - more]
                      /\ flight' = [flight EXCEPT ![f].lines =
                           <<[l EXCEPT !.order = o, !.kg = kg,
                                       !.until = Most(0, Least(l.until, b1[o].left))]>>]
                      /\ marred' = (marred \cup Cut(b) \cup
                           (IF l.order = o THEN {} ELSE {o, l.order})) \ Fresh(b)
                      /\ UNCHANGED <<hold, yard, late, owed, slips>>
                   \/ HalfSaves(b)
    BY Zenon DEF EditOnly
<1> DEFINE b == [b1 EXCEPT ![o] = Part(b1[o])]
           l2 == [l EXCEPT !.order = o, !.kg = kg,
                           !.until = Most(0, Least(l.until, b1[o].left))]
           y == [x EXCEPT !.lines = <<l2>>]
           s == [stock[c] EXCEPT ![l.good] = @ - more]
<1>3. /\ x \in Sortie /\ x # Grounded /\ c \in Companies /\ o \in Orders
      /\ l \in Loads /\ x.lines = <<l>>
    <2>1. x \in Sortie /\ x.lines \in Seq(Loads)
        BY TypeParts, SortieParts
    <2>2. x # Grounded
        BY <1>1 DEF Grounded
    <2>3. l \in Loads /\ x.lines = <<l>>
        BY <1>1, <2>1
    <2> QED
        BY <2>1, <2>2, <2>3, SortieParts
<1>4. l.good \in Goods /\ l.kg \in Nat /\ l.until \in Int /\ kg \in Nat /\ kg > 0
      /\ l.order \in Orders
    BY <1>3, MaxWantedNat, Limits DEF Loads
<1>5. b1 \in Boards
    <2>1. Swept(board) \in Boards
        BY TypeParts, ReleasedType DEF Swept, Boards
    <2> QED
        BY <2>1, EnsuredType
<1>6. b1[o] \in Row /\ b1[o].st # "none" /\ b1[o].left \in Int /\ b1[o].rem \in Nat
    <2>1. b1[o] \in Row /\ b1[o].st # "none"
        BY <1>2, <1>3, <1>5 DEF Boards
    <2> HIDE DEF o
    <2> QED
        BY SMTT(30), <2>1, RowParts
<1>7. stock[c][l.good] \in Nat /\ stock[c] \in [Goods -> Nat]
    BY <1>3, <1>4, TypeParts
<1>8. more \in Int /\ (more > 0 => more <= b1[o].rem /\ more <= stock[c][l.good])
    <2>1. more > 0 => more <= Least(b1[o].rem, stock[c][l.good])
        BY <1>2
    <2>2. more \in Int
        BY <1>4
    <2> HIDE DEF more, c, l, o
    <2> QED
        BY SMTT(30), <1>6, <1>7, <2>1, <2>2 DEF Least
<1>9. Part(b1[o]) \in Row
    <2> HIDE DEF more, o
    <2>1. CASE more < 0
        <3>1. -more \in Nat
            BY <1>8, <2>1
        <3> QED
            BY <1>6, <2>1, <3>1, RestoredType
    <2>2. CASE ~(more < 0)
        <3>1. more \in Nat /\ more <= b1[o].rem
            BY <1>1, <1>8, <2>2
        <3> QED
            BY <1>6, <2>2, <3>1, TakenType
    <2> QED
        BY <2>1, <2>2
<1>10. b \in Boards
    BY <1>3, <1>5, <1>9 DEF Boards
<1>11. \/ /\ Saves(b)
          /\ stock' = [stock EXCEPT ![c][l.good] = @ - more]
          /\ flight' = [flight EXCEPT ![f] = y]
          /\ marred' \subseteq marred \cup Cut(b) \cup {o, l.order}
          /\ UNCHANGED <<hold, yard, late, owed, slips>>
       \/ HalfSaves(b)
    <2> HIDE DEF b
    <2>1. \/ /\ Saves(b)
             /\ stock' = [stock EXCEPT ![x.by][l.good] = @ - more]
             /\ flight' = [flight EXCEPT ![f].lines = <<l2>>]
             /\ marred' = (marred \cup Cut(b) \cup
                  (IF l.order = o THEN {} ELSE {o, l.order})) \ Fresh(b)
             /\ UNCHANGED <<hold, yard, late, owed, slips>>
          \/ HalfSaves(b)
        BY Zenon, <1>2 DEF b
    <2> QED
        BY Zenon, <2>1
<1>12. l2 \in Loads /\ l2.kg = kg /\ l2.good = l.good
    <2>1. Most(0, Least(l.until, b1[o].left)) \in 0..Sail
        <3>1. l.until \in 0..Sail
            BY <1>3 DEF Loads
        <3> HIDE DEF l, o
        <3> QED
            BY <1>6, <3>1, Limits DEF Most, Least
    <2> DEFINE until == Most(0, Least(l.until, b1[o].left))
    <2>2. l2 = [l EXCEPT !.order = o, !.kg = kg, !.until = until]
        OBVIOUS
    <2> HIDE DEF l, o, l2, until
    <2>3. l \in Loads /\ o \in Orders /\ kg \in Nat \ {0} /\ until \in 0..Sail
        BY <1>3, <1>4, <2>1 DEF until
    <2> QED
        BY <2>2, <2>3 DEF Loads
<1> HIDE DEF l2
<1>13. y \in Sortie /\ y.by = c /\ y.lines = <<l2>>
    <2>1. <<l2>> \in Seq(Loads) \ {<<>>}
        BY <1>12, OneLine
    <2> QED
        BY <1>3, <2>1, Manifest
<1>14. \A g \in Goods : /\ Load(y, c, g) = IF g = l.good THEN kg ELSE 0
                        /\ Load(x, c, g) = IF g = l.good THEN l.kg ELSE 0
    <2>1. \A g \in Goods : /\ KgOf(<<l2>>, g) = IF l2.good = g THEN l2.kg ELSE 0
                           /\ KgOf(<<l>>, g) = IF l.good = g THEN l.kg ELSE 0
        BY <1>3, <1>12, OneLine
    <2> HIDE DEF l, y
    <2> QED
        BY <1>3, <1>12, <1>13, <2>1 DEF Load
<1> HIDE DEF l, y, b
<1>15. CASE HalfSaves(b)
    BY <1>10, <1>15, HalfSavesType
<1>16. CASE ~HalfSaves(b)
    <2>1. board' \in [Orders -> Row] /\ landed' \in [Orders -> Nat]
        BY <1>10, <1>11, <1>16, SavesType
    <2>2. stock' = [stock EXCEPT ![c] = s]
        BY <1>11, <1>16
    <2>3. /\ s \in [Goods -> Nat] /\ s[l.good] = stock[c][l.good] - more
          /\ \A g \in Goods : g # l.good => s[g] = stock[c][g]
        <3>1. stock[c][l.good] - more \in Nat
            <4> HIDE DEF more
            <4> QED
                BY <1>7, <1>8
        <3> HIDE DEF more, c
        <3> QED
            BY <1>4, <1>7, <3>1
    <2> HIDE DEF s
    <2>4. /\ stock' \in [Companies -> [Goods -> Nat]] /\ stock'[c] = s
          /\ \A d \in Companies \ {c} : stock'[d] = stock[d]
        <3> HIDE DEF c
        <3> QED
            BY <1>3, <2>2, <2>3, TypeParts
    <2>5. Exchange(f, c, y)
        <3>1. ASSUME NEW g \in Goods
              PROVE  stock'[c][g] + Load(y, c, g) = stock[c][g] + Load(flight[f], c, g)
            <4>1. stock[c][g] \in Nat /\ stock'[c][g] = s[g]
                  /\ Load(flight[f], c, g) = Load(x, c, g)
                BY <1>7, <2>4
            <4>2. more = kg - l.kg
                OBVIOUS
            <4> HIDE DEF more, c, x
            <4> QED
                BY <1>4, <1>7, <1>14, <2>3, <4>1, <4>2
        <3>2. flight[f].by \in {c, None} /\ y.by \in {c, None}
            BY <1>13
        <3> HIDE DEF c
        <3> QED
            BY <1>11, <1>16, <2>4, <3>1, <3>2 DEF Exchange
    <2>6. flight' \in [Flights -> Sortie] /\ (CargoConserved => CargoConserved')
        <3> HIDE DEF c
        <3> QED
            BY <1>3, <1>13, <2>5, Loading
    <2>7. \A d \in Companies : Room(d)' >= 0
        <3>1. CASE more < 0
            <4> DEFINE k == -more
            <4>1. k \in Nat /\ k <= Room(c)
                BY <1>2, <1>8, <3>1
            <4>2. stock' = [stock EXCEPT ![c][l.good] = @ + k]
                <5>1. stock[c][l.good] - more = stock[c][l.good] + k
                    <6> HIDE DEF more
                    <6> QED
                        BY <1>7, <1>8 DEF k
                <5> QED
                    BY <1>11, <1>16, <5>1
            <4> HIDE DEF k, c
            <4> QED
                BY <1>3, <1>4, <4>1, <4>2, RoomMore
        <3>2. CASE ~(more < 0)
            <4>1. s[l.good] <= stock[c][l.good]
                <5> HIDE DEF more
                <5> QED
                    BY <1>7, <1>8, <2>3, <3>2
            <4>2. \A d \in Companies, g \in Goods : stock[d][g] <= stock[d][g]
                BY TypeParts
            <4> HIDE DEF c
            <4>3. \A d \in Companies, g \in Goods : stock'[d][g] <= stock[d][g]
                BY <2>3, <2>4, <4>1, <4>2
            <4> QED
                BY <2>4, <4>3, RoomLess
        <3> QED
            BY <3>1, <3>2
    <2>8. marred' \subseteq Orders
        BY <1>3, <1>4, <1>11, <1>16 DEF TypeOK, Cut
    <2> QED
        BY <1>11, <1>16, <2>1, <2>4, <2>6, <2>7, <2>8 DEF TypeOK
<1> QED
    BY <1>15, <1>16

LEMMA LinesSum ==
    ASSUME NEW n \in Nat, NEW f \in [1..n -> Nat], NEW g \in [1..n -> Nat], NEW i \in 1..n,
           \A j \in 1..n : j # i => f[j] = g[j]
    PROVE  Sum(f) + g[i] = Sum(g) + f[i]
<1>1. PICK D : D = 1..n
    OBVIOUS
<1>2. f \in [D -> Nat] /\ g \in [D -> Nat] /\ i \in D
      /\ \A j \in D : j # i => f[j] = g[j]
    BY <1>1
<1>3. IsFiniteSet(D)
    BY <1>1, FS_Interval
<1> QED
    BY <1>2, <1>3, SumChanged

\* One line of a manifest that changes.
LEMMA LineChanged ==
    ASSUME NEW n \in Nat, NEW p \in [1..n -> Parcel], NEW q \in [1..n -> Parcel],
           NEW i \in 1..n, \A j \in 1..n : j # i => p[j] = q[j],
           q[i].good = p[i].good
    PROVE  \A g : KgOf(p, g) + (IF p[i].good = g THEN q[i].kg ELSE 0)
                      = KgOf(q, g) + (IF p[i].good = g THEN p[i].kg ELSE 0)
<1> SUFFICES ASSUME NEW g
             PROVE  KgOf(p, g) + (IF p[i].good = g THEN q[i].kg ELSE 0)
                        = KgOf(q, g) + (IF p[i].good = g THEN p[i].kg ELSE 0)
    OBVIOUS
<1> DEFINE kp == [j \in 1..n |-> IF p[j].good = g THEN p[j].kg ELSE 0]
           kq == [j \in 1..n |-> IF q[j].good = g THEN q[j].kg ELSE 0]
<1>1. DOMAIN p = 1..n /\ DOMAIN q = 1..n
      /\ \A j \in 1..n : p[j].kg \in Nat /\ q[j].kg \in Nat
    BY DEF Parcel
<1>2. kp \in [1..n -> Nat] /\ kq \in [1..n -> Nat]
    BY <1>1
<1>3. \A j \in 1..n : j # i => kp[j] = kq[j]
    OBVIOUS
<1>4. kp[i] = (IF p[i].good = g THEN p[i].kg ELSE 0)
      /\ kq[i] = (IF p[i].good = g THEN q[i].kg ELSE 0)
    OBVIOUS
<1>5. KgOf(p, g) = Sum(kp) /\ KgOf(q, g) = Sum(kq)
    BY <1>1 DEF KgOf
<1> HIDE DEF kp, kq
<1>6. Sum(kp) + kq[i] = Sum(kq) + kp[i]
    BY <1>2, <1>3, LinesSum
<1> QED
    BY <1>4, <1>5, <1>6

\* A line that goes is a line with nothing on it.
LEMMA RemovedParts ==
    ASSUME NEW s \in Seq(Loads), NEW i \in 1..Len(s)
    PROVE  /\ RemoveAt(s, i) \in Seq(Loads) /\ Len(RemoveAt(s, i)) = Len(s) - 1
           /\ \A j \in 1..(Len(s) - 1) :
                  RemoveAt(s, i)[j] = IF j < i THEN s[j] ELSE s[j + 1]
<1> DEFINE a == SubSeq(s, 1, i - 1)
           b == SubSeq(s, i + 1, Len(s))
<1>1. Len(s) \in Nat /\ i \in Nat /\ i > 0 /\ i <= Len(s)
      /\ \A j \in 1..Len(s) : s[j] \in Loads
    OBVIOUS
<1>2. /\ a \in Seq(Loads) /\ Len(a) = i - 1
      /\ \A j \in 1..(i - 1) : a[j] = s[j]
    <2>1. 1 \in Int /\ i - 1 \in Int /\ \A j \in 1..(i - 1) : s[j] \in Loads
        BY <1>1
    <2>2. /\ a \in Seq(Loads) /\ Len(a) = IF 1 <= i - 1 THEN (i - 1) - 1 + 1 ELSE 0
          /\ \A j \in 1..((i - 1) - 1 + 1) : a[j] = s[1 + j - 1]
        BY <2>1, SubSeqProperties
    <2> HIDE DEF a
    <2>3. (i - 1) - 1 + 1 = i - 1 /\ \A j \in 1..(i - 1) : 1 + j - 1 = j
        BY <1>1
    <2> QED
        BY <1>1, <2>2, <2>3
<1>3. /\ b \in Seq(Loads) /\ Len(b) = Len(s) - i
      /\ \A j \in 1..(Len(s) - i) : b[j] = s[i + j]
    <2>1. i + 1 \in Int /\ Len(s) \in Int /\ \A j \in (i + 1)..Len(s) : s[j] \in Loads
        BY <1>1
    <2>2. /\ b \in Seq(Loads)
          /\ Len(b) = IF i + 1 <= Len(s) THEN Len(s) - (i + 1) + 1 ELSE 0
          /\ \A j \in 1..(Len(s) - (i + 1) + 1) : b[j] = s[(i + 1) + j - 1]
        BY <2>1, SubSeqProperties
    <2> HIDE DEF b
    <2>3. Len(s) - (i + 1) + 1 = Len(s) - i
          /\ \A j \in 1..(Len(s) - i) : (i + 1) + j - 1 = i + j
        BY <1>1
    <2>4. Len(b) = Len(s) - i
        BY <1>1, <2>2
    <2>5. \A j \in 1..(Len(s) - i) : b[j] = s[i + j]
        BY <2>2, <2>3
    <2> QED
        BY <2>2, <2>4, <2>5
<1>4. RemoveAt(s, i) = a \o b
    BY DEF RemoveAt
<1> HIDE DEF a, b
<1>5. /\ a \o b \in Seq(Loads) /\ Len(a \o b) = Len(a) + Len(b)
      /\ \A j \in 1..(Len(a) + Len(b)) :
             (a \o b)[j] = IF j <= Len(a) THEN a[j] ELSE b[j - Len(a)]
    BY <1>2, <1>3, ConcatProperties
<1>6. Len(a) + Len(b) = Len(s) - 1
    BY <1>1, <1>2, <1>3
<1>7. ASSUME NEW j \in 1..(Len(s) - 1)
      PROVE  (a \o b)[j] = IF j < i THEN s[j] ELSE s[j + 1]
    <2>1. CASE j < i
        <3>1. j \in 1..(i - 1)
            BY <1>1, <2>1
        <3> QED
            BY <1>1, <1>2, <1>5, <1>6, <2>1, <3>1
    <2>2. CASE ~(j < i)
        <3>1. j - (i - 1) \in 1..(Len(s) - i) /\ i + (j - (i - 1)) = j + 1
              /\ ~(j <= i - 1)
            BY <1>1, <2>2
        <3> QED
            BY <1>1, <1>2, <1>3, <1>5, <1>6, <2>2, <3>1
    <2> QED
        BY <2>1, <2>2
<1> QED
    BY <1>4, <1>5, <1>6, <1>7

\* Numbers in a row without the i-th.
Without(n, f, i) == [j \in 1..(n - 1) |-> IF j < i THEN f[j] ELSE f[j + 1]]

LEMMA SumWithout ==
    ASSUME NEW n \in Nat, NEW f \in [1..n -> Nat], NEW i \in 1..n
    PROVE  Sum(f) = Sum(Without(n, f, i)) + f[i]
<1> DEFINE rest == [j \in 1..n |-> IF j = i THEN 0 ELSE f[j]]
           others == [j \in (1..n) \ {i} |-> f[j]]
           kept == Without(n, f, i)
           to == [j \in 1..(n - 1) |-> IF j < i THEN j ELSE j + 1]
<1>1. n - 1 \in Nat /\ DOMAIN kept = 1..(n - 1)
    BY DEF Without
<1>2. IsFiniteSet(1..n) /\ IsFiniteSet((1..n) \ {i}) /\ IsFiniteSet(1..(n - 1))
    <2>1. IsFiniteSet(1..n) /\ IsFiniteSet(1..(n - 1))
        BY <1>1, FS_Interval
    <2> QED
        BY <2>1, FS_Subset
<1>3. \A j \in 1..(n - 1) : to[j] \in (1..n) \ {i} /\ kept[j] = f[to[j]]
    BY <1>1 DEF Without
<1>4. to \in Bijection(1..(n - 1), (1..n) \ {i})
    <2>1. to \in [1..(n - 1) -> (1..n) \ {i}]
        BY <1>3
    <2>2. \A a, b \in 1..(n - 1) : to[a] = to[b] => a = b
        BY <1>1
    <2>3. \A y \in (1..n) \ {i} : \E a \in 1..(n - 1) : to[a] = y
        <3> SUFFICES ASSUME NEW y \in (1..n) \ {i}
                     PROVE  \E a \in 1..(n - 1) : to[a] = y
            OBVIOUS
        <3>1. CASE y < i
            <4>1. y \in 1..(n - 1) /\ to[y] = y
                BY <1>1, <3>1
            <4> QED
                BY <4>1
        <3>2. CASE ~(y < i)
            <4>1. y - 1 \in 1..(n - 1) /\ ~(y - 1 < i) /\ (y - 1) + 1 = y
                BY <1>1, <3>2
            <4>2. to[y - 1] = y
                BY <4>1
            <4> QED
                BY <4>1, <4>2
        <3> QED
            BY <3>1, <3>2
    <2> HIDE DEF to
    <2> QED
        BY <2>1, <2>2, <2>3 DEF Bijection, Injection, Surjection, IsInjective
<1>5. /\ Tally(others) /\ DOMAIN others = (1..n) \ {i}
      /\ \A j \in DOMAIN others : others[j] = f[j]
    BY <1>2 DEF Tally
<1>6. /\ Tally(rest) /\ DOMAIN rest = 1..n /\ rest \in [1..n -> Nat]
      /\ \A j \in (1..n) \ {i} : others[j] = rest[j]
      /\ rest[i] = 0 /\ \A j \in 1..n : j # i => f[j] = rest[j]
    BY <1>2 DEF Tally
<1> HIDE DEF to, kept, others, rest
<1>7. Tally(kept)
    BY <1>1, <1>2, <1>3 DEF Tally
<1>8. Sum(kept) = Sum(others)
    <2>1. to \in Bijection(DOMAIN kept, DOMAIN others)
        BY <1>1, <1>4, <1>5
    <2>2. \A j \in DOMAIN kept : kept[j] = others[to[j]]
        BY <1>1, <1>3, <1>5
    <2> QED
        BY ZenonT(30), <1>5, <1>7, <2>1, <2>2, SumRenamed
<1>9. Sum(others) = Sum(rest)
    <2>1. DOMAIN others \subseteq DOMAIN rest
        BY <1>5, <1>6
    <2>2. \A j \in DOMAIN rest \ DOMAIN others : rest[j] = 0
        BY <1>5, <1>6
    <2>3. \A j \in DOMAIN others : others[j] = rest[j]
        BY <1>5, <1>6
    <2> QED
        BY <1>5, <1>6, <2>1, <2>2, <2>3, SumOver
<1>10. Sum(f) + rest[i] = Sum(rest) + f[i]
    BY <1>6, LinesSum
<1>11. Sum(rest) \in Nat /\ Sum(f) \in Nat
    <2>1. Tally(f)
        BY <1>2 DEF Tally
    <2> QED
        BY <1>6, <2>1, SumNat
<1> QED
    BY <1>6, <1>8, <1>9, <1>10, <1>11 DEF kept

LEMMA LineRemoved ==
    ASSUME NEW s \in Seq(Loads), NEW i \in 1..Len(s)
    PROVE  \A g : KgOf(s, g) = KgOf(RemoveAt(s, i), g)
                                   + (IF s[i].good = g THEN s[i].kg ELSE 0)
<1> SUFFICES ASSUME NEW g
             PROVE  KgOf(s, g) = KgOf(RemoveAt(s, i), g)
                                     + (IF s[i].good = g THEN s[i].kg ELSE 0)
    OBVIOUS
<1> DEFINE n == Len(s)
           m == RemoveAt(s, i)
           k == [j \in 1..n |-> IF s[j].good = g THEN s[j].kg ELSE 0]
<1>1. n \in Nat /\ i \in 1..n /\ DOMAIN s = 1..n
      /\ \A j \in 1..n : s[j].kg \in Nat
    <2>1. \A l \in Loads : l.kg \in Nat
        BY DEF Loads
    <2> QED
        BY <2>1
<1>2. /\ DOMAIN m = 1..(n - 1)
      /\ \A j \in 1..(n - 1) : m[j] = IF j < i THEN s[j] ELSE s[j + 1]
    <2>1. m \in Seq(Loads) /\ Len(m) = n - 1
          /\ \A j \in 1..(n - 1) : m[j] = IF j < i THEN s[j] ELSE s[j + 1]
        BY RemovedParts
    <2> HIDE DEF m, n
    <2> QED
        BY <2>1
<1>3. k \in [1..n -> Nat] /\ k[i] = IF s[i].good = g THEN s[i].kg ELSE 0
    BY <1>1
<1>4. KgOf(s, g) = Sum(k)
    BY <1>1 DEF KgOf
<1> HIDE DEF m, n
<1>5. [j \in DOMAIN m |-> IF m[j].good = g THEN m[j].kg ELSE 0] = Without(n, k, i)
    <2>1. \A j \in 1..(n - 1) : (j < i => j \in 1..n) /\ (~(j < i) => j + 1 \in 1..n)
        BY <1>1
    <2>2. \A j \in 1..(n - 1) : (IF m[j].good = g THEN m[j].kg ELSE 0)
                                    = IF j < i THEN k[j] ELSE k[j + 1]
        BY <1>2, <2>1
    <2> HIDE DEF k
    <2> QED
        BY <1>2, <2>2 DEF Without
<1>6. KgOf(m, g) = Sum(Without(n, k, i))
    BY <1>5 DEF KgOf
<1> HIDE DEF k
<1>7. Sum(k) = Sum(Without(n, k, i)) + k[i]
    BY <1>1, <1>3, SumWithout
<1> QED
    BY <1>3, <1>4, <1>6, <1>7 DEF m

LEMMA LoadKg ==
    ASSUME NEW l \in Loads, NEW k \in Nat, k > 0
    PROVE  /\ [l EXCEPT !.kg = k] \in Loads /\ [l EXCEPT !.kg = k].kg = k
           /\ [l EXCEPT !.kg = k].good = l.good /\ [l EXCEPT !.kg = k].order = l.order
BY DEF Loads

LEMMA LineSet ==
    ASSUME NEW s \in Seq(Loads), NEW i \in 1..Len(s), NEW l \in Loads
    PROVE  /\ [s EXCEPT ![i] = l] \in Seq(Loads) \ {<<>>}
           /\ Len([s EXCEPT ![i] = l]) = Len(s)
           /\ [s EXCEPT ![i] = l][i] = l
           /\ \A j \in 1..Len(s) : j # i => [s EXCEPT ![i] = l][j] = s[j]
OBVIOUS

LEMMA EditLineType ==
    ASSUME TypeOK, NEW f \in Flights, NEW i \in 1..MaxLines, NEW kg \in 0..MaxWanted,
           EditLine(f, i, kg)
    PROVE  TypeOK' /\ ("shared" \notin Edits => (CargoConserved => CargoConserved'))
<1> DEFINE x == flight[f]
           c == x.by
           l == x.lines[i]
           more == kg - l.kg
           b == [board EXCEPT ![l.order] =
                   IF more < 0 THEN GivenBack(board[l.order], -more)
                   ELSE [board[l.order] EXCEPT !.rem = board[l.order].rem - more]]
           back == IF more < 0 THEN <<[l EXCEPT !.kg = -more]>> ELSE <<>>
           m == IF kg = 0 THEN RemoveAt(x.lines, i) ELSE [x.lines EXCEPT ![i].kg = kg]
           y == [x EXCEPT !.lines = m]
<1>1. /\ i \in DOMAIN x.lines /\ Len(x.lines) > 1 /\ more # 0
      /\ (IF more < 0 THEN "lower" ELSE "shared") \in Edits
      /\ more > 0 => board[l.order].st # "none" /\ more <= board[l.order].rem
    BY Zenon DEF EditLine
<1>2. \/ /\ Saves(b)
         /\ Stored(c, back)
         /\ flight' = [flight EXCEPT ![f].lines = m]
         /\ UNCHANGED <<hold, late, owed, marred, slips>>
      \/ HalfSaves(b)
    BY DEF EditLine
<1>3. /\ x \in Sortie /\ x # Grounded /\ c \in Companies
      /\ x.lines \in Seq(Loads) /\ i \in 1..Len(x.lines) /\ l \in Loads
    <2>1. x \in Sortie /\ x.lines \in Seq(Loads)
        BY TypeParts, SortieParts
    <2>2. x # Grounded
        BY <1>1 DEF Grounded
    <2>3. l \in Loads /\ i \in 1..Len(x.lines)
        BY <1>1, <2>1
    <2> QED
        BY <2>1, <2>2, <2>3, SortieParts
<1>4. l.good \in Goods /\ l.kg \in Nat /\ l.order \in Orders /\ kg \in Nat /\ l.kg > 0
      /\ l.until \in 0..Sail
    <2>1. kg \in Nat
        BY MaxWantedNat
    <2> HIDE DEF l
    <2> QED
        BY <1>3, <2>1 DEF Loads
<1>5. more \in Int /\ (more < 0 => -more \in Nat /\ -more > 0 /\ l.kg = kg + (-more))
    BY <1>4
<1>6. board[l.order] \in Row /\ board[l.order].rem \in Nat
    <2>1. board[l.order] \in Row
        BY <1>4, TypeParts
    <2> HIDE DEF l
    <2> QED
        BY <2>1, RowParts
<1>7. b \in Boards
    <2>1. CASE more < 0
        <3>1. GivenBack(board[l.order], -more) \in Row
            <4> HIDE DEF more, l
            <4> QED
                BY <1>5, <1>6, <2>1, RestoredType
        <3> HIDE DEF more, l
        <3> QED
            BY <2>1, <3>1, TypeParts DEF Boards
    <2>2. CASE ~(more < 0)
        <3>1. board[l.order].rem - more \in Nat /\ board[l.order] # NoRow
            <4> HIDE DEF more, l
            <4> QED
                BY SMTT(30), <1>1, <1>5, <1>6, <2>2, RowParts
        <3> HIDE DEF more, l
        <3>2. [board[l.order] EXCEPT !.rem = board[l.order].rem - more] \in Row
            BY Zenon, <1>6, <3>1, RowChanged
        <3> QED
            BY <2>2, <3>2, TypeParts DEF Boards
    <2> QED
        BY <2>1, <2>2
<1>8. m \in Seq(Loads) \ {<<>>}
    <2>1. CASE kg = 0
        <3>1. RemoveAt(x.lines, i) \in Seq(Loads)
              /\ Len(RemoveAt(x.lines, i)) = Len(x.lines) - 1
            BY <1>3, RemovedParts
        <3>2. Len(x.lines) \in Nat /\ Len(x.lines) - 1 > 0
            BY <1>1, <1>3
        <3> QED
            BY <2>1, <3>1, <3>2
    <2>2. CASE kg # 0
        <3>1. [l EXCEPT !.kg = kg] \in Loads
            <4> HIDE DEF l
            <4> QED
                BY <1>3, <1>4, <2>2, LoadKg
        <3>2. m = [x.lines EXCEPT ![i] = [l EXCEPT !.kg = kg]]
            BY <2>2
        <3> DEFINE e == [l EXCEPT !.kg = kg]
        <3> HIDE DEF e, x
        <3>3. e \in Loads
            BY <3>1 DEF e
        <3>4. [x.lines EXCEPT ![i] = e] \in Seq(Loads) \ {<<>>}
            BY <1>3, <3>3, LineSet
        <3> QED
            BY <3>2, <3>4 DEF e
    <2> QED
        BY <2>1, <2>2
<1>9. flight' = [flight EXCEPT ![f] = y] \/ HalfSaves(b)
    <2> HIDE DEF m, b
    <2> QED
        BY <1>2
<1>10. y \in Sortie /\ y.by = c /\ y.lines = m
    <2> HIDE DEF m
    <2> QED
        BY <1>3, <1>8, Manifest
<1>11. \E n \in Nat : back \in [1..n -> Parcel]
    <2>1. CASE more < 0
        <3>1. [l EXCEPT !.kg = -more] \in Loads
            <4> HIDE DEF l, more
            <4> QED
                BY <1>3, <1>4, <1>5, <2>1, LoadKg
        <3>2. <<[l EXCEPT !.kg = -more]>> \in Seq(Loads)
            BY <3>1
        <3>3. back \in Seq(Loads)
            BY <2>1, <3>2
        <3> HIDE DEF back
        <3> QED
            BY <3>3, LoadsParcels
    <2>2. CASE ~(more < 0)
        <3>1. back \in Seq(Loads)
            BY <2>2
        <3> HIDE DEF back
        <3> QED
            BY <3>1, LoadsParcels
    <2> QED
        BY <2>1, <2>2
<1>12. more < 0 => \A g \in Goods : Load(x, c, g) = Load(y, c, g) + KgOf(back, g)
    <2> SUFFICES ASSUME more < 0, NEW g \in Goods
                 PROVE  Load(x, c, g) = Load(y, c, g) + KgOf(back, g)
        OBVIOUS
    <2>1. KgOf(back, g) = IF l.good = g THEN -more ELSE 0
        <3>1. [l EXCEPT !.kg = -more] \in Loads /\ [l EXCEPT !.kg = -more].kg = -more
              /\ [l EXCEPT !.kg = -more].good = l.good
            <4> HIDE DEF l, more
            <4> QED
                BY <1>3, <1>4, <1>5, LoadKg
        <3>2. back = <<[l EXCEPT !.kg = -more]>>
            OBVIOUS
        <3> HIDE DEF l, more, back
        <3> QED
            BY <3>1, <3>2, OneLine
    <2>2. KgOf(x.lines, g) = KgOf(m, g) + (IF l.good = g THEN -more ELSE 0)
        <3>1. CASE kg = 0
            <4>1. KgOf(x.lines, g) = KgOf(RemoveAt(x.lines, i), g)
                                         + (IF l.good = g THEN l.kg ELSE 0)
                BY <1>3, LineRemoved
            <4>2. m = RemoveAt(x.lines, i) /\ -more = l.kg
                BY <1>4, <3>1
            <4> HIDE DEF m, l, more
            <4> QED
                BY <4>1, <4>2
        <3>2. CASE kg # 0
            <4> DEFINE n == Len(x.lines)
            <4>1. /\ n \in Nat /\ i \in 1..n /\ x.lines \in [1..n -> Parcel]
                  /\ m \in Seq(Loads)
                BY <1>3, <1>8, LoadsParcels
            <4>2. m = [x.lines EXCEPT ![i] = [l EXCEPT !.kg = kg]]
                BY <3>2
            <4>3. Len(m) = n
                <5> HIDE DEF l, m
                <5> QED
                    BY <1>3, <4>2
            <4>4. m \in [1..n -> Parcel]
                <5> HIDE DEF m, n
                <5> QED
                    BY <4>1, <4>3, LoadsParcels
            <4>5. /\ \A j \in 1..n : j # i => x.lines[j] = m[j]
                  /\ m[i].good = l.good /\ m[i].kg = kg
                <5>1. m[i] = [l EXCEPT !.kg = kg] /\ \A j \in 1..n : j # i => x.lines[j] = m[j]
                    <6> HIDE DEF l, m
                    <6> QED
                        BY <1>3, <4>2
                <5> HIDE DEF l, m
                <5> QED
                    BY <1>3, <5>1 DEF Loads
            <4>6. KgOf(x.lines, g) + (IF x.lines[i].good = g THEN m[i].kg ELSE 0)
                      = KgOf(m, g) + (IF x.lines[i].good = g THEN x.lines[i].kg ELSE 0)
                <5> DEFINE p == x.lines
                <5> HIDE DEF m, n, p
                <5>1. /\ n \in Nat /\ i \in 1..n /\ p \in [1..n -> Parcel]
                      /\ m \in [1..n -> Parcel]
                      /\ \A j \in 1..n : j # i => p[j] = m[j]
                      /\ m[i].good = p[i].good
                    BY <4>1, <4>4, <4>5 DEF p
                <5>2. KgOf(p, g) + (IF p[i].good = g THEN m[i].kg ELSE 0)
                          = KgOf(m, g) + (IF p[i].good = g THEN p[i].kg ELSE 0)
                    BY <5>1, LineChanged
                <5> QED
                    BY <5>2 DEF p
            <4>7. KgOf(x.lines, g) \in Nat /\ KgOf(m, g) \in Nat
                BY <4>1, <4>4, KgNat
            <4>8. x.lines[i].good = l.good /\ x.lines[i].kg = l.kg
                OBVIOUS
            <4> HIDE DEF m, l, more, x
            <4> QED
                BY <1>4, <1>5, <4>5, <4>6, <4>7, <4>8
        <3> QED
            BY <3>1, <3>2
    <2>3. Load(x, c, g) = KgOf(x.lines, g) /\ Load(y, c, g) = KgOf(m, g)
        BY <1>10 DEF Load
    <2> HIDE DEF m, l, more, x, y, back
    <2> QED
        BY <2>1, <2>2, <2>3
<1>13. CASE HalfSaves(b)
    <2> HIDE DEF b
    <2> QED
        BY <1>7, <1>13, HalfSavesType
<1>14. CASE ~HalfSaves(b)
    <2> HIDE DEF b, m, y, back, more, l, c
    <2>1. /\ Saves(b) /\ Stored(c, back) /\ flight' = [flight EXCEPT ![f] = y]
          /\ UNCHANGED <<hold, late, owed, marred, slips>>
        BY <1>2, <1>9, <1>14
    <2>2. board' \in [Orders -> Row] /\ landed' \in [Orders -> Nat]
        BY <1>7, <2>1, SavesType
    <2>3. PICK n \in Nat : back \in [1..n -> Parcel]
        BY <1>11
    <2>4. /\ stock' \in [Companies -> [Goods -> Nat]]
          /\ yard' \in [Companies -> [Goods -> Nat]]
          /\ \A d \in Companies : Room(d)' >= 0
        BY <1>3, <2>1, <2>3, StoredKeeps, TypeParts
    <2>5. flight' \in [Flights -> Sortie]
        BY <1>10, <2>1, TypeParts
    <2>6. "shared" \notin Edits => (CargoConserved => CargoConserved')
        <3> SUFFICES ASSUME "shared" \notin Edits
                     PROVE  CargoConserved => CargoConserved'
            OBVIOUS
        <3>1. more < 0
            BY <1>1
        <3>2. flight[f].by \in {c, None} /\ y.by \in {c, None}
            BY <1>10 DEF c
        <3>3. \A g \in Goods : Load(flight[f], c, g) = Load(y, c, g) + KgOf(back, g)
            BY <1>12, <3>1
        <3>4. owed' = owed
            BY <2>1
        <3> HIDE DEF x
        <3> QED
            BY ZenonT(30), <1>3, <1>10, <2>1, <2>3, <3>2, <3>3, <3>4, Unloading
    <2> QED
        BY <2>1, <2>2, <2>4, <2>5, <2>6 DEF TypeOK
<1> QED
    BY Zenon, <1>13, <1>14

LEMMA BeforeGrows ==
    ASSUME NEW n \in Nat, NEW cargo \in [1..n -> Parcel], NEW i \in 1..(n + 1),
           NEW j \in 1..(n + 1), i <= j
    PROVE  Before(cargo, i) <= Before(cargo, j)
<1> DEFINE a == [k \in 1..(i - 1) |-> cargo[k].kg]
           b == [k \in 1..(j - 1) |-> cargo[k].kg]
<1>1. IsFiniteSet(1..(i - 1)) /\ IsFiniteSet(1..(j - 1))
    BY FS_Interval
<1>2. /\ \A k \in 1..(j - 1) : k \in 1..n /\ cargo[k].kg \in Nat
      /\ \A k \in 1..(i - 1) : k \in 1..(j - 1)
    BY DEF Parcel
<1>3. Tally(a) /\ Tally(b) /\ DOMAIN a \subseteq DOMAIN b
      /\ \A k \in DOMAIN a : a[k] <= b[k]
    BY <1>1, <1>2 DEF Tally
<1> HIDE DEF a, b
<1>4. Sum(a) <= Sum(b)
    BY <1>3, SumLess
<1> QED
    BY <1>4 DEF a, b, Before

\* The lines behind which nothing is carried.
LEMMA LinesCut ==
    ASSUME NEW n \in Nat, NEW cargo \in [1..n -> Parcel], NEW m \in 0..n,
           NEW first \in [1..m -> Parcel], \A i \in 1..m : first[i] = cargo[i],
           \A i \in (m + 1)..n : cargo[i].kg = 0
    PROVE  \A g : KgOf(cargo, g) = KgOf(first, g)
<1> SUFFICES ASSUME NEW g PROVE KgOf(cargo, g) = KgOf(first, g)
    OBVIOUS
<1> DEFINE a == [i \in 1..m |-> IF first[i].good = g THEN first[i].kg ELSE 0]
           b == [i \in 1..n |-> IF cargo[i].good = g THEN cargo[i].kg ELSE 0]
<1>1. IsFiniteSet(1..m) /\ IsFiniteSet(1..n) /\ DOMAIN cargo = 1..n /\ DOMAIN first = 1..m
    BY FS_Interval
<1>2. \A i \in 1..n : cargo[i].kg \in Nat
    BY DEF Parcel
<1>3. \A i \in 1..m : i \in 1..n /\ first[i].kg \in Nat
    BY DEF Parcel
<1>4. Tally(a) /\ Tally(b) /\ DOMAIN a \subseteq DOMAIN b
    BY <1>1, <1>2, <1>3 DEF Tally
<1>5. \A i \in DOMAIN a : a[i] = b[i]
    BY <1>3
<1>6. \A i \in DOMAIN b \ DOMAIN a : b[i] = 0
    <2>1. \A i \in 1..n : i \notin 1..m => i \in (m + 1)..n
        OBVIOUS
    <2> QED
        BY <2>1
<1>7. KgOf(cargo, g) = Sum(b) /\ KgOf(first, g) = Sum(a)
    BY <1>1 DEF KgOf
<1> HIDE DEF a, b
<1> QED
    BY <1>4, <1>5, <1>6, <1>7, SumOver

LEMMA TrimType ==
    ASSUME TypeOK, NEW f \in Flights, NEW target \in Int, Trim(f, target)
    PROVE  TypeOK' /\ (CargoConserved => CargoConserved')
<1> DEFINE x == flight[f]
           s == x.lines
           n == Len(s)
           c == x.by
           kept(i) == Most(0, Least(s[i].kg, target - Before(s, i)))
           cut == [i \in DOMAIN s |-> [s[i] EXCEPT !.kg = @ - kept(i)]]
           keep == [i \in DOMAIN s |-> [s[i] EXCEPT !.kg = kept(i)]]
<1>1. /\ x # Grounded /\ Stored(c, cut)
      /\ SavesLater(x.order, GivenBack(board[x.order], KgFor(cut, x.order)))
      /\ UNCHANGED <<hold, owed, landed, marred>>
    BY DEF Trim
<1>2. PICK m \in DOMAIN s :
         /\ Before(s, m) < target /\ target <= Before(s, m + 1)
         /\ flight' = [flight EXCEPT ![f].lines =
                         [i \in 1..m |-> [s[i] EXCEPT !.kg = kept(i)]]]
    BY DEF Trim
<1> DEFINE first == [i \in 1..m |-> [s[i] EXCEPT !.kg = kept(i)]]
           y == [x EXCEPT !.lines = first]
<1>3. /\ x \in Sortie /\ c \in Companies /\ x.order \in Orders
      /\ n \in Nat /\ DOMAIN s = 1..n /\ s \in [1..n -> Loads] /\ s \in [1..n -> Parcel]
    BY <1>1, TypeParts, SortieParts
<1>4. \A i \in 1..(n + 1) : Before(s, i) \in Nat
    BY <1>3, KgNat
<1>5. m \in 1..n /\ m \in Nat /\ m > 0 /\ m <= n /\ 1..m \subseteq 1..n /\ m \in 0..n
    BY <1>3
<1>6. \A i \in 1..n : s[i] \in Loads /\ s[i] \in Parcel /\ s[i].kg \in Nat /\ s[i].kg > 0
    <2>1. \A l \in Loads : l.kg \in Nat /\ l.kg > 0
        BY DEF Loads
    <2> HIDE DEF s
    <2> QED
        BY <1>3, <2>1
<1>7. \A i \in 1..n : /\ kept(i) \in Nat /\ kept(i) <= s[i].kg /\ s[i].kg - kept(i) \in Nat
    <2> SUFFICES ASSUME NEW i \in 1..n
                 PROVE  kept(i) \in Nat /\ kept(i) <= s[i].kg /\ s[i].kg - kept(i) \in Nat
        OBVIOUS
    <2>1. i \in 1..(n + 1)
        BY <1>3
    <2>2. Before(s, i) \in Nat /\ s[i].kg \in Nat
        BY <1>4, <1>6, <2>1
    <2> HIDE DEF s
    <2> QED
        BY <2>2 DEF Most, Least
<1>8. \A i \in 1..m : kept(i) > 0
    <2> SUFFICES ASSUME NEW i \in 1..m PROVE kept(i) > 0
        OBVIOUS
    <2>1. i \in 1..(n + 1) /\ m \in 1..(n + 1) /\ i <= m /\ i \in 1..n
        BY <1>3, <1>5
    <2>2. Before(s, i) <= Before(s, m)
        <3> HIDE DEF s, n
        <3> QED
            BY <1>3, <2>1, BeforeGrows
    <2>3. Before(s, i) \in Nat /\ Before(s, m) \in Nat /\ s[i].kg \in Nat /\ s[i].kg > 0
          /\ Before(s, m) < target
        BY <1>2, <1>4, <1>6, <2>1
    <2> HIDE DEF s
    <2> QED
        BY <2>2, <2>3 DEF Most, Least
<1>9. \A i \in (m + 1)..n : kept(i) = 0
    <2> SUFFICES ASSUME NEW i \in (m + 1)..n PROVE kept(i) = 0
        OBVIOUS
    <2>1. i \in 1..(n + 1) /\ m + 1 \in 1..(n + 1) /\ m + 1 <= i /\ i \in 1..n
        BY <1>3, <1>5
    <2>2. Before(s, m + 1) <= Before(s, i)
        <3> DEFINE j == m + 1
        <3> HIDE DEF s, n, j
        <3>1. Before(s, j) <= Before(s, i)
            BY <1>3, <2>1, BeforeGrows DEF j
        <3> QED
            BY <3>1 DEF j
    <2>3. Before(s, i) \in Nat /\ Before(s, m + 1) \in Nat /\ s[i].kg \in Nat
          /\ target <= Before(s, m + 1)
        BY <1>2, <1>4, <1>6, <2>1
    <2> HIDE DEF s
    <2> QED
        BY <2>2, <2>3 DEF Most, Least
<1> HIDE DEF kept
<1>10. \A i \in 1..n : /\ cut[i] \in Parcel /\ keep[i] \in Parcel
                       /\ cut[i].kg = s[i].kg - kept(i) /\ keep[i].kg = kept(i)
                       /\ cut[i].good = s[i].good /\ keep[i].good = s[i].good
                       /\ cut[i].order = s[i].order /\ keep[i].order = s[i].order
    <2> SUFFICES ASSUME NEW i \in 1..n
                 PROVE  /\ cut[i] \in Parcel /\ keep[i] \in Parcel
                        /\ cut[i].kg = s[i].kg - kept(i) /\ keep[i].kg = kept(i)
                        /\ cut[i].good = s[i].good /\ keep[i].good = s[i].good
                        /\ cut[i].order = s[i].order /\ keep[i].order = s[i].order
        OBVIOUS
    <2>1. cut[i] = [s[i] EXCEPT !.kg = s[i].kg - kept(i)]
          /\ keep[i] = [s[i] EXCEPT !.kg = kept(i)]
        BY <1>3
    <2>2. s[i] \in Parcel /\ kept(i) \in Nat /\ s[i].kg - kept(i) \in Nat
        BY <1>6, <1>7
    <2> HIDE DEF cut, keep, s
    <2> QED
        BY <2>1, <2>2, ParcelKg
<1>11. cut \in [1..n -> Parcel] /\ keep \in [1..n -> Parcel]
    BY <1>3, <1>10
<1>12. \A i \in 1..m : first[i] \in Loads /\ first[i] = keep[i]
    <2> SUFFICES ASSUME NEW i \in 1..m PROVE first[i] \in Loads /\ first[i] = keep[i]
        OBVIOUS
    <2>1. i \in 1..n /\ first[i] = [s[i] EXCEPT !.kg = kept(i)]
          /\ keep[i] = [s[i] EXCEPT !.kg = kept(i)]
        BY <1>3, <1>5
    <2>2. s[i] \in Loads /\ kept(i) \in Nat /\ kept(i) > 0
        BY <1>6, <1>7, <1>8, <2>1
    <2> HIDE DEF first, keep, s
    <2> QED
        BY <2>1, <2>2, LoadKg
<1>13. first \in Seq(Loads) \ {<<>>} /\ first \in [1..m -> Parcel]
    <2>1. first \in [1..m -> Loads] /\ DOMAIN first = 1..m
        BY <1>12
    <2> HIDE DEF first
    <2>2. first \in Seq(Loads) /\ 1 \in DOMAIN first
        BY <1>5, <2>1
    <2>3. first # <<>>
        BY <2>2
    <2>4. \A i \in 1..m : first[i] \in Parcel
        BY <1>5, <1>11, <1>12
    <2> QED
        BY <2>1, <2>2, <2>3, <2>4
<1>14. flight' = [flight EXCEPT ![f] = y]
    BY <1>2 DEF kept
<1> HIDE DEF first
<1>15. y \in Sortie /\ y.by = c /\ y.lines = first
    BY <1>1, <1>3, <1>13, Manifest
<1>16. \A g \in Goods : Load(flight[f], c, g) = Load(y, c, g) + KgOf(cut, g)
    <2> SUFFICES ASSUME NEW g \in Goods
                 PROVE  Load(flight[f], c, g) = Load(y, c, g) + KgOf(cut, g)
        OBVIOUS
    <2>1. KgOf(s, g) = KgOf(keep, g) + KgOf(cut, g)
        <3> HIDE DEF s, keep, cut, n
        <3>1. \A i \in 1..n : /\ s[i].kg = keep[i].kg + cut[i].kg
                              /\ keep[i].good = s[i].good /\ cut[i].good = s[i].good
                              /\ keep[i].order = s[i].order /\ cut[i].order = s[i].order
            BY <1>6, <1>7, <1>10
        <3>2. n \in Nat /\ s \in [1..n -> Parcel] /\ keep \in [1..n -> Parcel]
              /\ cut \in [1..n -> Parcel]
            BY <1>3, <1>11
        <3>3. \A h : KgOf(s, h) = KgOf(keep, h) + KgOf(cut, h)
            BY <3>1, <3>2, KgDivided
        <3> QED
            BY <3>3
    <2>2. KgOf(keep, g) = KgOf(first, g)
        <3> HIDE DEF s, keep, cut, n
        <3>1. \A i \in (m + 1)..n : keep[i].kg = 0
            BY <1>5, <1>9, <1>10
        <3> QED
            BY ZenonT(30), <1>3, <1>5, <1>11, <1>12, <1>13, <3>1, LinesCut
    <2>3. Load(flight[f], c, g) = KgOf(s, g) /\ Load(y, c, g) = KgOf(first, g)
        BY <1>15 DEF Load
    <2> HIDE DEF s, keep, cut, y, x, c
    <2> QED
        BY <2>1, <2>2, <2>3
<1>17. flight[f].by \in {c, None} /\ y.by \in {c, None}
    BY <1>15
<1>18. KgFor(cut, x.order) \in Nat
    BY <1>3, <1>11, KgNat
<1> HIDE DEF x, s, n, c, cut, keep, y
<1>19. /\ stock' \in [Companies -> [Goods -> Nat]]
       /\ yard' \in [Companies -> [Goods -> Nat]]
       /\ \A d \in Companies : Room(d)' >= 0
       /\ flight' \in [Flights -> Sortie]
       /\ CargoConserved => CargoConserved'
    BY <1>1, <1>3, <1>11, <1>14, <1>15, <1>16, <1>17, Unloading
<1>20. GivenBack(board[x.order], KgFor(cut, x.order)) \in Row
    BY <1>3, <1>18, BackType
<1>21. /\ board' \in [Orders -> Row] /\ late' \in [Orders -> Row \X Row]
       /\ slips' \in 0..MaxSlips
    BY <1>1, <1>3, <1>20, SavesLaterType
<1> QED
    BY <1>1, <1>19, <1>21 DEF TypeOK

-----------------------------------------------------------------------------
(* All behaviours.                                                         *)

LEMMA DeskInit ==
    ASSUME Init
    PROVE  TypeOK /\ CargoConserved
<1>1. /\ NoRow \in Row /\ NoHold \in Held /\ Grounded \in Sortie /\ MaxSlips \in Nat
    BY GroundedLoad, Limits DEF Row, Held
<1>2. /\ board \in [Orders -> Row] /\ hold \in [Companies -> [Orders -> Held]]
      /\ stock \in [Companies -> [Goods -> Nat]] /\ yard \in [Companies -> [Goods -> Nat]]
      /\ owed \in [Companies -> [Goods -> Int]] /\ landed \in [Orders -> Nat]
      /\ late \in [Orders -> Row \X Row] /\ marred \subseteq Orders
      /\ slips \in 0..MaxSlips /\ flight \in [Flights -> Sortie]
    BY <1>1 DEF Init
<1>3. ASSUME NEW c \in Companies
      PROVE  Room(c) >= 0
    <2>1. stock[c] = [g \in Goods |-> 0]
        BY DEF Init
    <2>2. Tally(stock[c]) /\ \A g \in DOMAIN stock[c] : stock[c][g] = 0
        BY <2>1, GoodsFinite DEF Tally
    <2>3. Sum(stock[c]) = 0 /\ Capacity[c] \in Nat
        BY <2>2, SumZero, DeskAssumption
    <2> QED
        BY <2>3 DEF Room
<1>4. ASSUME NEW c \in Companies, NEW g \in Goods
      PROVE  Balanced(c, g)
    <2> DEFINE k == [f \in Flights |-> Load(flight[f], c, g)]
    <2>1. \A f \in Flights : flight[f] = Grounded
        BY DEF Init
    <2>2. Tally(k) /\ \A f \in DOMAIN k : k[f] = 0
        BY <2>1, GroundedLoad, GoodsFinite DEF Tally
    <2> HIDE DEF k
    <2>3. Sum(k) = 0
        BY <2>2, SumZero
    <2>4. Carried(c, g) = 0
        BY <2>3 DEF k, Carried
    <2>5. owed[c][g] = 0 /\ stock[c][g] = 0 /\ yard[c][g] = 0
        BY DEF Init
    <2> QED
        BY <2>4, <2>5 DEF Balanced
<1>5. CargoConserved
    BY <1>4, ConservedBalanced DEF AllBalanced
<1> QED
    BY <1>2, <1>3, <1>5 DEF TypeOK

LEMMA DeskNext ==
    ASSUME TypeOK, [Next]_vars
    PROVE  TypeOK' /\ ("shared" \notin Edits => (CargoConserved => CargoConserved'))
<1>1. CASE \E c \in Companies : Look(c) \/ OpenPorts(c) \/ Pulse(c)
    BY <1>1, LookType, OpenPortsType, PulseType
<1>2. CASE \E c \in Companies, o \in Orders :
              Hold(c, o) \/ CancelHold(c, o) \/ \E f \in Flights : FlyNow(c, o, f)
    BY <1>2, HoldType, CancelHoldType, FlyNowType
<1>3. CASE \E c \in Companies, f \in Flights : Dispatch(c, f)
    BY <1>3, DispatchType
<1>4. CASE \E f \in Flights :
              \/ Cancel(f) \/ Settle(f) \/ Impact(f)
              \/ \E kg \in 1..MaxWanted : EditOnly(f, kg)
              \/ \E i \in 1..MaxLines, kg \in 0..MaxWanted : EditLine(f, i, kg)
              \/ \E target \in 1..(MaxLines * MaxWanted) : Trim(f, target)
    <2>1. PICK f \in Flights :
              \/ Cancel(f) \/ Settle(f) \/ Impact(f)
              \/ \E kg \in 1..MaxWanted : EditOnly(f, kg)
              \/ \E i \in 1..MaxLines, kg \in 0..MaxWanted : EditLine(f, i, kg)
              \/ \E target \in 1..(MaxLines * MaxWanted) : Trim(f, target)
        BY <1>4
    <2>2. CASE Cancel(f) \/ Settle(f) \/ Impact(f)
        BY <2>2, CancelType, SettleType, ImpactType
    <2>3. CASE \E kg \in 1..MaxWanted : EditOnly(f, kg)
        BY <2>3, EditOnlyType
    <2>4. CASE \E i \in 1..MaxLines, kg \in 0..MaxWanted : EditLine(f, i, kg)
        BY <2>4, EditLineType
    <2>5. CASE \E target \in 1..(MaxLines * MaxWanted) : Trim(f, target)
        <3>1. PICK target \in Int : Trim(f, target)
            BY <2>5
        <3> QED
            BY <3>1, TrimType
    <2> QED
        BY <2>1, <2>2, <2>3, <2>4, <2>5
<1>5. CASE \E o \in Orders : LateSave(o)
    BY <1>5, LateSaveType
<1>6. CASE \E c \in Companies, g \in Goods : Deposit(c, g) \/ Abandon(c, g)
    BY <1>6, DepositType, AbandonType
<1>7. CASE UNCHANGED vars
    <2>1. UNCHANGED <<board, hold, stock, yard, flight, late, owed, landed, marred, slips>>
        BY <1>7 DEF vars, row
    <2>2. \A d \in Companies : Room(d)' >= 0
        BY <2>1, RoomKept
    <2> QED
        BY <2>1, <2>2, Undisturbed DEF TypeOK
<1> QED
    BY <1>1, <1>2, <1>3, <1>4, <1>5, <1>6, <1>7 DEF Next

\* Type correctness, which is more than types here: whatever the desk is asked
\* to load, lower, trim or put back, no warehouse goes below nothing or above
\* what it holds, no order's row goes below nothing, and no flight keeps a line
\* with nothing on it.
THEOREM DeskTypeCorrect == Spec => []TypeOK
<1>1. Init => TypeOK
    BY DeskInit
<1>2. TypeOK /\ [Next]_vars => TypeOK'
    BY DeskNext
<1> QED
    BY <1>1, <1>2, PTL DEF Spec

\* Cargo is conserved as long as no line among several is raised: whatever is
\* reserved, loaded, lowered, trimmed, dropped, cancelled or put back, what a
\* company bought is in its warehouse, in its yard or on a flight of its own.
\* (A line that is raised among several draws on the order and not on the
\* warehouse: there the code makes cargo out of nothing.)
THEOREM DeskCargoConserved ==
    ASSUME "shared" \notin Edits
    PROVE  Spec => []CargoConserved
<1>1. Init => TypeOK /\ CargoConserved
    BY DeskInit
<1>2. TypeOK /\ CargoConserved /\ [Next]_vars => (TypeOK /\ CargoConserved)'
    BY DeskNext
<1> QED
    BY <1>1, <1>2, PTL DEF Spec

-----------------------------------------------------------------------------
(* What becomes of an order's row.                                         *)

Asks(r) == r.st \in {"open", "filled"}

\* A row expires when it runs out, unless it is cut.
Past(r) == r.st = "expired" => r.left <= 0

\* The row s is what may become of the row r when kg come back to it.
Follows(r, s, kg) ==
    /\ r.st = "none" => s.st = "none"
    /\ Past(r) => /\ Past(s)
                  /\ Asks(s) => Asks(r) /\ s.good = r.good /\ s.rem <= r.rem + kg

LEMMA FollowsTwice ==
    ASSUME NEW r \in Row, NEW s \in Row, NEW t \in Row, NEW k \in Nat, NEW l \in Nat,
           Follows(r, s, k), Follows(s, t, l)
    PROVE  Follows(r, t, k + l)
<1>1. r.rem \in Nat /\ s.rem \in Nat /\ t.rem \in Nat
    BY RowParts
<1> QED
    BY <1>1 DEF Follows

LEMMA FollowsLoosely ==
    ASSUME NEW r \in Row, NEW s \in Row, NEW k \in Nat, NEW l \in Nat, k <= l,
           Follows(r, s, k)
    PROVE  Follows(r, s, l)
<1>1. r.rem \in Nat /\ s.rem \in Nat
    BY RowParts
<1> QED
    BY <1>1 DEF Follows

\* Holds that run out, and flights that are cancelled, give back no more than
\* they carry, and never wake an order that ended.
LEMMA BackFollows ==
    ASSUME NEW r \in Row, NEW kg \in Nat
    PROVE  Follows(r, Restored(r, kg), kg) /\ Follows(r, GivenBack(r, kg), kg)
<1>1. CASE r = NoRow
    BY <1>1 DEF Follows, Restored, GivenBack, NoRow, Asks, Past
<1>2. CASE r # NoRow
    <2>1. /\ r.st \in {"open", "filled", "expired"} /\ r.good \in Goods
          /\ r.rem \in Nat /\ r.left \in Int
          /\ DOMAIN r = {"st", "good", "rem", "left"}
        BY <1>2, RowParts DEF Row
    <2>2. Wanted[r.good] \in Nat
        BY <2>1, Limits
    <2>3. Least(Wanted[r.good], r.rem + kg) <= r.rem + kg
        BY <2>1, <2>2 DEF Least
    <2>4. Follows(r, r, kg)
        BY <2>1 DEF Follows
    <2>5. ASSUME NEW st \in {"open", "filled", "expired"}, NEW rem \in Nat
          PROVE  LET s == [r EXCEPT !.st = st, !.rem = rem]
                 IN  s.st = st /\ s.rem = rem /\ s.good = r.good /\ s.left = r.left
        BY <2>1
    <2>6. Least(Wanted[r.good], r.rem + kg) \in Nat
        BY <2>1, <2>2 DEF Least
    <2>7. Follows(r, Restored(r, kg), kg)
        <3>1. CASE r.left <= 0 \/ kg = 0
            BY <2>4, <3>1 DEF Restored
        <3>2. CASE ~(r.left <= 0 \/ kg = 0)
            <4>1. Restored(r, kg) = [r EXCEPT !.st = "open",
                                              !.rem = Least(Wanted[r.good], r.rem + kg)]
                BY <3>2 DEF Restored
            <4>2. /\ Restored(r, kg).st = "open" /\ Restored(r, kg).good = r.good
                  /\ Restored(r, kg).rem = Least(Wanted[r.good], r.rem + kg)
                BY <2>5, <2>6, <4>1
            <4>3. Past(r) => Asks(r)
                BY <2>1, <3>2 DEF Past, Asks
            <4> QED
                BY <2>1, <2>3, <4>2, <4>3 DEF Follows, Past, Asks
        <3> QED
            BY <3>1, <3>2
    <2>8. Follows(r, GivenBack(r, kg), kg)
        <3>1. CASE kg = 0
            BY <2>4, <3>1 DEF GivenBack
        <3>2. CASE kg # 0
            <4> DEFINE st == IF r.st = "filled" THEN "open" ELSE r.st
            <4>1. GivenBack(r, kg) = [r EXCEPT !.st = st,
                                               !.rem = Least(Wanted[r.good], r.rem + kg)]
                BY <2>1, <3>2 DEF GivenBack
            <4>2. st \in {"open", "filled", "expired"}
                BY <2>1
            <4>3. /\ GivenBack(r, kg).st = st /\ GivenBack(r, kg).good = r.good
                  /\ GivenBack(r, kg).rem = Least(Wanted[r.good], r.rem + kg)
                  /\ GivenBack(r, kg).left = r.left
                BY <2>5, <2>6, <4>1, <4>2
            <4> QED
                BY <2>1, <2>3, <4>3 DEF Follows, Past, Asks
        <3> QED
            BY <3>1, <3>2
    <2> QED
        BY <2>7, <2>8
<1> QED
    BY <1>1, <1>2

\* A row that is saved late asks for no less than the row it is based on.
Grows(r, s) == Asks(s) /\ r.rem <= Wanted[r.good] => r.rem <= s.rem

LEMMA BackGrows ==
    ASSUME NEW r \in Row, NEW kg \in Nat
    PROVE  /\ Grows(r, GivenBack(r, kg)) /\ Grows(r, r)
           /\ Grows(r, Released(r))
<1>1. CASE r = NoRow
    BY <1>1 DEF Grows, Asks, GivenBack, Released, NoRow
<1>2. CASE r # NoRow
    <2>1. /\ r.st \in {"open", "filled", "expired"} /\ r.rem \in Nat
          /\ Wanted[r.good] \in Nat /\ DOMAIN r = {"st", "good", "rem", "left"}
        BY <1>2, RowParts, Limits DEF Row
    <2>2. Grows(r, r)
        BY <2>1 DEF Grows
    <2>3. Grows(r, Released(r))
        BY <2>1 DEF Grows, Released, Closed, Asks
    <2>4. GivenBack(r, kg).rem = IF kg = 0 THEN r.rem
                                 ELSE Least(Wanted[r.good], r.rem + kg)
        BY <2>1 DEF GivenBack
    <2>5. Grows(r, GivenBack(r, kg))
        BY <2>1, <2>4 DEF Grows, Least
    <2> QED
        BY <2>2, <2>3, <2>5
<1> QED
    BY <1>1, <1>2

\* Claims, releases, time and pruning ask for nothing more.
LEMMA RowFollows ==
    ASSUME NEW r \in Row
    PROVE  /\ Follows(r, r, 0) /\ Follows(r, Due(r), 0) /\ Follows(r, Pruned(r), 0)
           /\ Follows(r, Released(r), 0) /\ Follows(r, AgoRow(r), 0)
           /\ \A until \in Int : Follows(r, Claimed(r, until), 0)
           /\ r.st # "none" => Follows(r, Closed(r), 0)
<1>0. Day \in Nat
    BY Limits
<1>1. CASE r = NoRow
    <2>1. r.st = "none"
        BY <1>1 DEF NoRow
    <2>2. /\ Due(r) = r /\ Pruned(r) = r /\ Released(r) = r /\ AgoRow(r) = r
          /\ \A until \in Int : Claimed(r, until) = r
        BY <2>1 DEF Due, Pruned, Released, AgoRow, Claimed
    <2>3. Follows(r, r, 0)
        BY <2>1 DEF Follows, Past, Asks
    <2> QED
        BY <2>1, <2>2, <2>3
<1>2. CASE r # NoRow
    <2>1. /\ r.st \in {"open", "filled", "expired"} /\ r.good \in Goods
          /\ r.rem \in Nat /\ r.left \in Int
          /\ DOMAIN r = {"st", "good", "rem", "left"}
        BY <1>2, RowParts DEF Row
    <2>2. Follows(r, r, 0)
        BY <2>1 DEF Follows
    <2>3. Follows(r, Due(r), 0)
        BY <2>1 DEF Follows, Past, Asks, Due
    <2>4. Follows(r, Pruned(r), 0)
        BY <2>1 DEF Follows, Past, Asks, Pruned, NoRow
    <2>5. Follows(r, Closed(r), 0)
        BY <1>0, <2>1 DEF Follows, Past, Asks, Closed
    <2>6. Follows(r, Released(r), 0)
        BY <2>2, <2>5 DEF Released
    <2>7. Follows(r, AgoRow(r), 0)
        BY <1>0, <2>1 DEF Follows, Past, Asks, AgoRow, Most
    <2>8. \A until \in Int : Follows(r, Claimed(r, until), 0)
        BY <1>0, <2>1 DEF Follows, Past, Asks, Claimed, Most
    <2> QED
        BY <2>2, <2>3, <2>4, <2>5, <2>6, <2>7, <2>8
<1> QED
    BY <1>1, <1>2

\* What a company takes, the order asks for no more.
LEMMA TakenFollows ==
    ASSUME NEW r \in Row, Asks(r), NEW kg \in Nat, kg <= r.rem
    PROVE  /\ Past(Taken(r, kg)) /\ Asks(Taken(r, kg))
           /\ Taken(r, kg).good = r.good /\ Taken(r, kg).rem = r.rem - kg
<1>1. r # NoRow
    BY DEF Asks, NoRow
<1>2. r.rem \in Nat /\ DOMAIN r = {"st", "good", "rem", "left"}
    BY <1>1 DEF Row
<1> QED
    BY <1>2 DEF Taken, Past, Asks

-----------------------------------------------------------------------------
(* What has been promised of an order, and its invariant.                  *)

\* What the save of a row that comes late will give back.
Pending(o) == IF Asks(late[o][1]) THEN late[o][1].rem - late[o][2].rem ELSE 0

LateAgrees(o) ==
    late[o][1].st # "none" =>
       /\ Past(late[o][1])
       /\ Asks(late[o][1]) => /\ Asks(late[o][2])
                              /\ late[o][1].good = late[o][2].good
                              /\ late[o][2].rem <= late[o][1].rem

Promised(o) == OnHold(o) + Aboard(o) + landed[o]

PromiseKept(o) ==
    /\ Past(board[o]) /\ LateAgrees(o)
    /\ Asks(board[o]) =>
         board[o].rem + Pending(o) + Promised(o) <= Wanted[board[o].good]

\* Nothing has landed of an order that is not on the board.
BlankIsNew == \A o \in Orders : board[o].st = "none" => landed[o] = 0

Promises == BlankIsNew /\ \A o \in Orders \ marred : PromiseKept(o)

PromiseTyped ==
    \A o \in Orders :
       /\ OnHold(o) \in Nat /\ Aboard(o) \in Nat /\ landed[o] \in Nat
       /\ Promised(o) \in Nat
       /\ late[o][1] \in Row /\ late[o][2] \in Row /\ board[o] \in Row
       /\ Pending(o) \in Int

LEMMA PromisedType == TypeOK => PromiseTyped
<1> SUFFICES ASSUME TypeOK, NEW o \in Orders
             PROVE  /\ OnHold(o) \in Nat /\ Aboard(o) \in Nat /\ landed[o] \in Nat
                    /\ Promised(o) \in Nat
                    /\ late[o][1] \in Row /\ late[o][2] \in Row /\ board[o] \in Row
                    /\ Pending(o) \in Int
    BY DEF PromiseTyped
<1>1. Tally([c \in Companies |-> hold[c][o].kg])
    BY TypeParts, HeldNat, DeskAssumption DEF Tally
<1>2. Tally([f \in Flights |-> KgFor(flight[f].lines, o)])
    BY TypeParts, LoadNat, DeskAssumption DEF Tally
<1>3. late[o][1] \in Row /\ late[o][2] \in Row /\ board[o] \in Row /\ landed[o] \in Nat
    BY DEF TypeOK
<1>4. late[o][1].rem \in Nat /\ late[o][2].rem \in Nat
    BY <1>3, RowParts
<1>5. OnHold(o) \in Nat /\ Aboard(o) \in Nat
    BY <1>1, <1>2, SumNat DEF OnHold, Aboard
<1> QED
    BY <1>3, <1>4, <1>5 DEF Promised, Pending

LEMMA PromisedTypeNext == TypeOK' => PromiseTyped'
BY PromisedType, PTL

\* The holds of one company change.
LEMMA HoldChanged ==
    ASSUME TypeOK, TypeOK', NEW c \in Companies, NEW o \in Orders,
           \A d \in Companies \ {c} : hold'[d][o].kg = hold[d][o].kg
    PROVE  OnHold(o)' + hold[c][o].kg = OnHold(o) + hold'[c][o].kg
<1> DEFINE p == [d \in Companies |-> hold[d][o].kg]
           q == [d \in Companies |-> hold'[d][o].kg]
<1>1. hold \in [Companies -> Holds] /\ hold' \in [Companies -> Holds]
    BY DEF TypeOK, Holds
<1>2. p \in [Companies -> Nat] /\ q \in [Companies -> Nat] /\ IsFiniteSet(Companies)
    BY <1>1, HeldNat, DeskAssumption
<1>3. \A d \in Companies : d # c => q[d] = p[d]
    OBVIOUS
<1>4. p[c] = hold[c][o].kg /\ q[c] = hold'[c][o].kg
    OBVIOUS
<1>5. OnHold(o) = Sum(p) /\ OnHold(o)' = Sum(q)
    BY DEF OnHold
<1> HIDE DEF p, q
<1>6. Sum(q) + p[c] = Sum(p) + q[c]
    BY <1>2, <1>3, SumChanged
<1> QED
    BY <1>4, <1>5, <1>6

\* One flight changes.
LEMMA CargoChanged ==
    ASSUME TypeOK, TypeOK', NEW f \in Flights, NEW o \in Orders,
           \A e \in Flights \ {f} : flight'[e] = flight[e]
    PROVE  Aboard(o)' + KgFor(flight[f].lines, o)
               = Aboard(o) + KgFor(flight'[f].lines, o)
<1> DEFINE p == [e \in Flights |-> KgFor(flight[e].lines, o)]
           q == [e \in Flights |-> KgFor(flight'[e].lines, o)]
<1>1. \A e \in Flights : flight[e] \in Sortie /\ flight'[e] \in Sortie
    BY DEF TypeOK
<1>2. p \in [Flights -> Nat] /\ q \in [Flights -> Nat]
    BY <1>1, LoadNat
<1>3. \A e \in Flights : e # f => q[e] = p[e]
    OBVIOUS
<1>4. p[f] = KgFor(flight[f].lines, o) /\ q[f] = KgFor(flight'[f].lines, o)
    OBVIOUS
<1>5. Aboard(o) = Sum(p) /\ Aboard(o)' = Sum(q)
    BY DEF Aboard
<1> HIDE DEF p, q
<1>6. Sum(q) + p[f] = Sum(p) + q[f]
    BY <1>2, <1>3, FlightsChanged
<1> QED
    BY <1>4, <1>5, <1>6

\* A step that gives an order no more than its holds and flights lost.
LEMMA PromiseStep ==
    ASSUME TypeOK, TypeOK', NEW o \in Orders, PromiseKept(o), NEW kg \in Nat,
           Follows(board[o], board'[o], kg), LateAgrees(o)', Pending(o)' = Pending(o),
           Promised(o)' + kg <= Promised(o)
    PROVE  PromiseKept(o)'
<1>1. /\ Promised(o) \in Nat /\ Promised(o)' \in Nat /\ Pending(o) \in Int
      /\ board[o] \in Row /\ board'[o] \in Row
    BY PromisedType, PromisedTypeNext DEF PromiseTyped
<1>2. Past(board[o])
    BY DEF PromiseKept
<1>3. Past(board'[o])
    BY <1>2 DEF Follows
<1>4. ASSUME Asks(board'[o])
      PROVE  board'[o].rem + Pending(o)' + Promised(o)' <= Wanted[board'[o].good]
    <2>1. Asks(board[o]) /\ board'[o].good = board[o].good
          /\ board'[o].rem <= board[o].rem + kg
        BY <1>2, <1>4 DEF Follows
    <2>2. board[o].rem + Pending(o) + Promised(o) <= Wanted[board[o].good]
        BY <2>1 DEF PromiseKept
    <2>3. board[o] # NoRow
        BY <2>1 DEF Asks, NoRow
    <2>4. /\ board[o].rem \in Nat /\ board'[o].rem \in Nat
          /\ Wanted[board[o].good] \in Nat
        BY <1>1, <2>3, RowParts, Limits
    <2> QED
        BY <1>1, <2>1, <2>2, <2>4
<1> QED
    BY <1>3, <1>4 DEF PromiseKept

\* Such a step that leaves alone what is saved late.
LEMMA PlainStep ==
    ASSUME TypeOK, TypeOK', NEW o \in Orders, PromiseKept(o), NEW kg \in Nat,
           Follows(board[o], board'[o], kg), UNCHANGED late,
           Promised(o)' + kg <= Promised(o)
    PROVE  PromiseKept(o)'
<1>1. LateAgrees(o)' /\ Pending(o)' = Pending(o)
    BY DEF PromiseKept, LateAgrees, Pending
<1> QED
    BY <1>1, PromiseStep

\* A company takes part of an order.
LEMMA TakingStep ==
    ASSUME TypeOK, TypeOK', NEW o \in Orders, PromiseKept(o), NEW k \in Nat,
           NEW r \in Row, Follows(board[o], r, k), Asks(r), NEW kg \in Nat,
           Past(board'[o]), Asks(board'[o]), board'[o].good = r.good,
           board'[o].rem = r.rem - kg, UNCHANGED late,
           Promised(o)' + k <= Promised(o) + kg
    PROVE  PromiseKept(o)'
<1>1. /\ Promised(o) \in Nat /\ Promised(o)' \in Nat /\ Pending(o) \in Int
      /\ board[o] \in Row /\ board'[o] \in Row
    BY PromisedType, PromisedTypeNext DEF PromiseTyped
<1>2. LateAgrees(o)' /\ Pending(o)' = Pending(o)
    BY DEF PromiseKept, LateAgrees, Pending
<1>3. /\ Asks(board[o]) /\ r.good = board[o].good /\ r.rem <= board[o].rem + k
      /\ board[o].rem + Pending(o) + Promised(o) <= Wanted[board[o].good]
    BY DEF PromiseKept, Follows
<1>4. board[o] # NoRow
    BY <1>3 DEF Asks, NoRow
<1>5. /\ board[o].rem \in Nat /\ r.rem \in Nat /\ Wanted[board[o].good] \in Nat
    BY <1>1, <1>4, RowParts, Limits
<1>6. board'[o].rem + Pending(o)' + Promised(o)' <= Wanted[board'[o].good]
    BY <1>1, <1>2, <1>3, <1>5
<1> QED
    BY <1>2, <1>6 DEF PromiseKept

\* A city lists an id that nothing refers to: of the row r, that becomes s.
Listed(o, r, s) ==
    /\ r.st = "none" /\ late[o][1].st = "none"
    /\ \A c \in Companies : hold[c][o].kg = 0
    /\ \A f \in Flights : o \notin Named(flight[f])
    /\ \E g \in Goods : s = [st |-> "open", good |-> g, rem |-> Wanted[g],
                             left |-> OrderTtl]

\* Nobody holds or flies an order that nothing refers to.
LEMMA ListedUnpromised ==
    ASSUME TypeOK, NEW o \in Orders, NEW r, NEW s, Listed(o, r, s)
    PROVE  OnHold(o) = 0 /\ Aboard(o) = 0
<1>1. OnHold(o) = 0
    <2> DEFINE p == [c \in Companies |-> hold[c][o].kg]
    <2>1. Tally(p) /\ \A c \in DOMAIN p : p[c] = 0
        BY TypeParts, HeldNat, DeskAssumption DEF Tally, Listed
    <2> HIDE DEF p
    <2>2. Sum(p) = 0
        BY <2>1, SumZero
    <2> QED
        BY <2>2 DEF OnHold, p
<1>2. ASSUME NEW f \in Flights
      PROVE  KgFor(flight[f].lines, o) = 0
    <2> DEFINE x == flight[f].lines
               p == [i \in DOMAIN x |-> IF x[i].order = o THEN x[i].kg ELSE 0]
    <2>1. \A i \in DOMAIN x : x[i].order # o
        BY DEF Listed, Named
    <2>2. DOMAIN x = 1..Len(x) /\ Len(x) \in Nat
        BY TypeParts, SortieParts
    <2>3. IsFiniteSet(1..Len(x))
        BY <2>2, FS_Interval
    <2>4. Tally(p) /\ \A i \in DOMAIN p : p[i] = 0
        BY <2>1, <2>2, <2>3 DEF Tally
    <2> HIDE DEF p
    <2>5. Sum(p) = 0
        BY <2>4, SumZero
    <2> QED
        BY <2>5 DEF KgFor, p
<1>3. Aboard(o) = 0
    <2> DEFINE p == [f \in Flights |-> KgFor(flight[f].lines, o)]
    <2>1. Tally(p) /\ \A f \in DOMAIN p : p[f] = 0
        BY <1>2, DeskAssumption DEF Tally
    <2> HIDE DEF p
    <2>2. Sum(p) = 0
        BY <2>1, SumZero
    <2> QED
        BY <2>2 DEF Aboard, p
<1> QED
    BY <1>1, <1>3

\* What a city asks for anew was promised to nobody.
LEMMA ListedStep ==
    ASSUME TypeOK, TypeOK', BlankIsNew, NEW o \in Orders,
           Listed(o, board[o], board'[o]), late'[o][1].st = "none",
           OnHold(o)' <= OnHold(o), Aboard(o)' <= Aboard(o), landed'[o] <= landed[o]
    PROVE  PromiseKept(o)'
<1>1. /\ OnHold(o)' \in Nat /\ Aboard(o)' \in Nat /\ landed'[o] \in Nat
    BY PromisedTypeNext DEF PromiseTyped
<1>2. OnHold(o) = 0 /\ Aboard(o) = 0 /\ landed[o] = 0
    BY ListedUnpromised DEF BlankIsNew, Listed
<1>3. Promised(o)' = 0
    BY <1>1, <1>2 DEF Promised
<1>4. PICK g \in Goods : board'[o] = [st |-> "open", good |-> g, rem |-> Wanted[g],
                                      left |-> OrderTtl]
    BY DEF Listed
<1>5. Wanted[g] \in Nat
    BY Limits
<1>6. LateAgrees(o)' /\ Pending(o)' = 0
    BY DEF LateAgrees, Pending, Asks
<1>7. board'[o].st = "open" /\ board'[o].good = g /\ board'[o].rem = Wanted[g]
    BY <1>4
<1> QED
    BY <1>3, <1>5, <1>6, <1>7 DEF PromiseKept, Past

\* An id that neither the board nor a late save knows keeps every promise.
LEMMA UnusedStep ==
    ASSUME NEW o \in Orders, board'[o].st = "none", late'[o][1].st = "none"
    PROVE  PromiseKept(o)'
BY DEF PromiseKept, Past, LateAgrees, Asks

\* The whole board, saved, forgets what landed of the orders that left it.
LEMMA SavesBlank ==
    ASSUME TypeOK, NEW b, Saves(b)
    PROVE  /\ BlankIsNew' /\ board' = b
           /\ \A o \in Orders : landed'[o] <= landed[o]
BY DEF Saves, Blank, BlankIsNew, TypeOK

\* The board is saved and the row is not: the orders that changed are marred,
\* but for those that nobody has a part of.
LEMMA HalfStep ==
    ASSUME TypeOK, TypeOK', Promises, NEW b \in Boards, HalfSaves(b),
           \A o \in Orders : board[o].st = "none" /\ b[o].st # "none"
                                => Listed(o, board[o], b[o])
    PROVE  Promises'
<1>1. /\ Saves(b) /\ UNCHANGED <<hold, stock, yard, flight, late, owed>>
      /\ marred' = (marred \cup {o \in Orders : b[o] # board[o]}) \ Fresh(b)
    BY DEF HalfSaves, row
<1>2. BlankIsNew' /\ board' = b /\ \A o \in Orders : landed'[o] <= landed[o]
    BY <1>1, SavesBlank
<1>3. ASSUME NEW o \in Orders
      PROVE  OnHold(o)' = OnHold(o) /\ Aboard(o)' = Aboard(o)
    BY <1>1 DEF OnHold, Aboard
<1>4. ASSUME NEW o \in Orders \ marred'
      PROVE  PromiseKept(o)'
    <2>1. \/ o \in Unused(b)
          \/ board[o].st = "none" /\ b[o].st # "none"
          \/ o \notin marred /\ b[o] = board[o]
        BY <1>1 DEF Fresh, Blank
    <2>2. CASE o \in Unused(b)
        BY <1>1, <1>2, <2>2, UnusedStep DEF Unused
    <2>3. CASE board[o].st = "none" /\ b[o].st # "none"
        <3>1. Listed(o, board[o], board'[o]) /\ late'[o][1].st = "none"
            BY <1>1, <1>2, <2>3 DEF Listed
        <3>2. OnHold(o)' <= OnHold(o) /\ Aboard(o)' <= Aboard(o)
            BY <1>3, PromisedType DEF PromiseTyped
        <3> QED
            BY <1>2, <3>1, <3>2, ListedStep DEF Promises
    <2>4. CASE o \notin marred /\ b[o] = board[o]
        <3>1. PromiseKept(o)
            BY <2>4 DEF Promises
        <3>2. Follows(board[o], board'[o], 0)
            BY <1>2, <2>4, RowFollows, TypeParts
        <3>3. Promised(o)' + 0 <= Promised(o)
            BY <1>2, <1>3, PromisedType, PromisedTypeNext DEF Promised, PromiseTyped
        <3> QED
            BY <1>1, <3>1, <3>2, <3>3, PlainStep
    <2> QED
        BY <2>1, <2>2, <2>3, <2>4
<1> QED
    BY <1>2, <1>4 DEF Promises

-----------------------------------------------------------------------------
(* The board is listed.                                                    *)

\* Only pruning and listing make a row blank, or end that.
LEMMA BlankKept ==
    ASSUME NEW r \in Row
    PROVE  /\ Due(r).st = "none" <=> r.st = "none"
           /\ Released(r).st = "none" <=> r.st = "none"
           /\ AgoRow(r).st = "none" <=> r.st = "none"
           /\ \A kg \in Nat : /\ Restored(r, kg).st = "none" <=> r.st = "none"
                              /\ GivenBack(r, kg).st = "none" <=> r.st = "none"
           /\ \A until \in Int : Claimed(r, until).st = "none" <=> r.st = "none"
           /\ r.st # "none" => Closed(r).st # "none"
<1>1. CASE r = NoRow
    BY <1>1 DEF Due, Released, AgoRow, Restored, GivenBack, Claimed, NoRow
<1>2. CASE r # NoRow
    <2>1. /\ r.st \in {"open", "filled", "expired"}
          /\ DOMAIN r = {"st", "good", "rem", "left"}
        BY <1>2, RowParts DEF Row
    <2>2. Due(r).st # "none" /\ Released(r).st # "none" /\ Closed(r).st # "none"
        BY <2>1 DEF Due, Released, Closed
    <2>3. AgoRow(r).st # "none" /\ \A until \in Int : Claimed(r, until).st # "none"
        BY <2>1 DEF AgoRow, Claimed
    <2>4. ASSUME NEW kg \in Nat
          PROVE  Restored(r, kg).st # "none" /\ GivenBack(r, kg).st # "none"
        BY <2>1 DEF Restored, GivenBack
    <2> QED
        BY <2>1, <2>2, <2>3, <2>4
<1> QED
    BY <1>1, <1>2

\* Listing prunes a row, cuts it, or asks for something new.
LEMMA EnsuredFollows ==
    ASSUME TypeOK, NEW b \in Boards, NEW b2 \in Ensured(b), NEW o \in Orders
    PROVE  \/ Follows(b[o], b2[o], 0)
           \/ b[o].st # "none" /\ o \in Cut(b2)
           \/ Listed(o, b[o], b2[o])
<1>1. b[o] \in Row
    BY DEF Boards
<1>2. CASE b2[o] = Pruned(b[o])
    BY <1>1, <1>2, RowFollows
<1>3. CASE IsOpen(b[o]) /\ b2[o] = Pruned([b[o] EXCEPT !.st = "expired"])
    <2> DEFINE r == [b[o] EXCEPT !.st = "expired"]
    <2>1. b[o].st = "open" /\ b[o].left > 0 /\ b[o].left \in Int
        BY <1>1, <1>3, RowParts DEF IsOpen
    <2>2. b[o] # NoRow
        BY <2>1 DEF NoRow
    <2>3. DOMAIN b[o] = {"st", "good", "rem", "left"}
        BY <1>1, <2>2 DEF Row
    <2>4. r.st = "expired" /\ r.left = b[o].left
        BY <2>3
    <2>5. b2[o] = Pruned(r)
        BY <1>3
    <2> HIDE DEF r
    <2>6. b2[o] = r
        BY <2>1, <2>4, <2>5, Limits DEF Pruned
    <2> QED
        BY <2>1, <2>4, <2>6 DEF Cut
<1>4. CASE /\ o \in Unused(b)
           /\ \E g \in Goods : b2[o] = [st |-> "open", good |-> g,
                                        rem |-> Wanted[g], left |-> OrderTtl]
    BY <1>4 DEF Unused, Listed
<1> QED
    BY <1>2, <1>3, <1>4, EnsuredRow

LEMMA SweptFollows ==
    ASSUME NEW b \in Boards
    PROVE  /\ Swept(b) \in Boards
           /\ \A o \in Orders : /\ Follows(b[o], Swept(b)[o], 0)
                                /\ Swept(b)[o].st = "none" <=> b[o].st = "none"
<1>1. \A o \in Orders : b[o] \in Row
    BY DEF Boards
<1> QED
    BY <1>1, ReleasedType, RowFollows, BlankKept DEF Swept, Boards

LEMMA ReconciledFollows ==
    ASSUME NEW b \in Boards, NEW h \in [Companies -> Holds],
           NEW fl \in [Flights -> Sortie], NEW read \in SUBSET Companies, NEW o \in Orders
    PROVE  /\ Follows(b[o], Reconciled(b, h, fl, read)[o], 0)
           /\ Reconciled(b, h, fl, read)[o].st = "none" <=> b[o].st = "none"
<1> DEFINE claims == Claims(h, fl, o, read)
           r == Reconciled(b, h, fl, read)[o]
<1>1. b[o] \in Row
    BY DEF Boards
<1>2. r = IF b[o].st # "filled" THEN b[o]
          ELSE IF claims = {} THEN Closed(b[o])
          ELSE Claimed(b[o], Max(claims))
    BY DEF Reconciled
<1>3. claims # {} => Max(claims) \in Int
    <2>1. claims \subseteq Nat /\ \A x \in claims : x <= HoldTtl + Sail
        BY ClaimsType
    <2>2. HoldTtl + Sail \in Int /\ claims \in SUBSET Int
        BY <2>1, Limits
    <2> HIDE DEF claims
    <2> QED
        BY <2>1, <2>2, MaxMember
<1> HIDE DEF claims, r
<1>4. Follows(b[o], r, 0) /\ (r.st = "none" <=> b[o].st = "none")
    <2>1. CASE b[o].st # "filled"
        BY <1>1, <1>2, <2>1, RowFollows
    <2>2. CASE b[o].st = "filled" /\ claims = {}
        BY <1>1, <1>2, <2>2, RowFollows, BlankKept
    <2>3. CASE b[o].st = "filled" /\ claims # {}
        BY <1>1, <1>2, <1>3, <2>3, RowFollows, BlankKept
    <2> QED
        BY <2>1, <2>2, <2>3
<1> QED
    BY <1>4 DEF r

LEMMA WatchedFollows ==
    ASSUME TypeOK, NEW b \in Boards, NEW h \in [Companies -> Holds],
           NEW fl \in [Flights -> Sortie], NEW read \in SUBSET Companies,
           NEW b2 \in Watched(b, h, fl, read), NEW o \in Orders
    PROVE  \/ Follows(b[o], b2[o], 0)
           \/ b[o].st # "none" /\ o \in Cut(b2)
           \/ Listed(o, b[o], b2[o])
<1> DEFINE m == IF read = Companies THEN Reconciled(Swept(b), h, fl, read)
                ELSE Swept(b)
<1>1. b2 \in Ensured(m)
    BY DEF Watched
<1>2. /\ Swept(b) \in Boards /\ Follows(b[o], Swept(b)[o], 0)
      /\ Swept(b)[o].st = "none" <=> b[o].st = "none"
    BY SweptFollows
<1>3. m \in Boards /\ m[o] \in Row /\ Swept(b)[o] \in Row /\ b[o] \in Row
    BY <1>2, ReconciledType DEF Boards
<1>4. Follows(Swept(b)[o], m[o], 0) /\ (m[o].st = "none" <=> Swept(b)[o].st = "none")
    BY <1>2, <1>3, ReconciledFollows, RowFollows
<1> HIDE DEF m
<1>5. Follows(b[o], m[o], 0)
    <2>1. Follows(b[o], m[o], 0 + 0)
        BY <1>2, <1>3, <1>4, FollowsTwice
    <2> QED
        BY <2>1
<1>6. CASE Follows(m[o], b2[o], 0)
    <2>1. b2[o] \in Row
        BY <1>1, <1>3, EnsuredType DEF Boards
    <2>2. Follows(b[o], b2[o], 0 + 0)
        BY <1>3, <1>5, <1>6, <2>1, FollowsTwice
    <2> QED
        BY <2>2
<1>7. CASE m[o].st # "none" /\ o \in Cut(b2)
    BY <1>2, <1>4, <1>7
<1>8. CASE Listed(o, m[o], b2[o])
    BY <1>2, <1>4, <1>8 DEF Listed
<1> QED
    BY <1>1, <1>3, <1>6, <1>7, <1>8, EnsuredFollows

\* Orders that are cut are marred; what was listed was promised to nobody.
LEMMA FullStep ==
    ASSUME TypeOK, TypeOK', Promises, NEW b \in Boards, Saves(b),
           NEW M, marred' = (marred \cup M \cup Cut(b)) \ Fresh(b),
           \A o \in Orders : late'[o][1].st = "none" <=> late[o][1].st = "none",
           \A o \in Orders : Listed(o, board[o], b[o]) =>
                                OnHold(o)' <= OnHold(o) /\ Aboard(o)' <= Aboard(o),
           \A o \in Orders :
              \/ board[o].st # "none" /\ o \in Cut(b)
              \/ Listed(o, board[o], b[o])
              \/ /\ board[o].st = "none" => b[o].st = "none"
                 /\ o \notin M /\ PromiseKept(o) => PromiseKept(o)'
    PROVE  Promises'
<1>1. BlankIsNew' /\ board' = b /\ \A o \in Orders : landed'[o] <= landed[o]
    BY SavesBlank
<1>2. ASSUME NEW o \in Orders \ marred'
      PROVE  PromiseKept(o)'
    <2>1. CASE o \in Unused(b)
        BY <1>1, <2>1, UnusedStep DEF Unused
    <2>2. CASE Listed(o, board[o], b[o])
        <3>1. Listed(o, board[o], board'[o]) /\ late'[o][1].st = "none"
            BY <1>1, <2>2 DEF Listed
        <3>2. OnHold(o)' <= OnHold(o) /\ Aboard(o)' <= Aboard(o)
            BY <2>2
        <3> QED
            BY <1>1, <3>1, <3>2, ListedStep DEF Promises
    <2>3. CASE o \notin Unused(b) /\ ~Listed(o, board[o], b[o])
        <3>1. CASE board[o].st # "none"
            BY <2>3, <3>1 DEF Fresh, Blank, Promises
        <3>2. CASE board[o].st = "none"
            <4>1. b[o].st = "none"
                BY <2>3, <3>2
            <4>2. o \notin Fresh(b)
                BY <2>3, <4>1 DEF Fresh, Blank
            <4> QED
                BY <2>3, <3>2, <4>2 DEF Promises
        <3> QED
            BY <3>1, <3>2
    <2> QED
        BY <2>1, <2>2, <2>3
<1> QED
    BY <1>1, <1>2 DEF Promises

-----------------------------------------------------------------------------
(* Reading the board, and time.                                            *)

\* What runs out of the holds h of an order.
Lapsed(h, o) == IF o \in Stale(h) THEN h[o].kg ELSE 0

LEMMA LapsedKg ==
    ASSUME NEW h \in Holds, NEW o \in Orders
    PROVE  /\ Lapsed(h, o) \in Nat /\ Lapsed(h, o) <= h[o].kg
           /\ Kept(h)[o].kg + Lapsed(h, o) = h[o].kg
           /\ Kept(h)[o].kg \in Nat
<1>1. h[o].kg \in Nat
    BY HeldNat
<1> QED
    BY <1>1 DEF Lapsed, Kept, NoHold

LEMMA ExpiredFollows ==
    ASSUME NEW b \in Boards, NEW h \in Holds, NEW o \in Orders
    PROVE  /\ Follows(b[o], Expired(b, h)[o], Lapsed(h, o))
           /\ Expired(b, h)[o].st = "none" <=> b[o].st = "none"
<1>1. b[o] \in Row /\ h[o].kg \in Nat
    BY HeldNat DEF Boards
<1>2. CASE o \in Stale(h)
    <2>1. Expired(b, h)[o] = Restored(b[o], h[o].kg) /\ Lapsed(h, o) = h[o].kg
        BY <1>2 DEF Expired, Lapsed
    <2> QED
        BY <1>1, <2>1, BackFollows, BlankKept
<1>3. CASE o \notin Stale(h)
    BY <1>1, <1>3, RowFollows DEF Expired, Lapsed
<1> QED
    BY <1>2, <1>3

\* A company's holds that ran out go back to the board.
LEMMA LapsedStep ==
    ASSUME TypeOK, TypeOK', NEW c \in Companies, NEW o \in Orders,
           \A d \in Companies \ {c} : hold'[d][o].kg = hold[d][o].kg,
           NEW h \in Holds, h[o].kg = hold[c][o].kg, hold'[c][o].kg = Kept(h)[o].kg,
           \A f \in Flights : KgFor(flight'[f].lines, o) = KgFor(flight[f].lines, o)
    PROVE  /\ OnHold(o)' + Lapsed(h, o) = OnHold(o) /\ OnHold(o)' <= OnHold(o)
           /\ Aboard(o)' = Aboard(o)
<1>1. OnHold(o)' + hold[c][o].kg = OnHold(o) + hold'[c][o].kg
    BY HoldChanged
<1>2. OnHold(o) \in Nat /\ OnHold(o)' \in Nat
    BY PromisedType, PromisedTypeNext DEF PromiseTyped
<1>3. /\ Lapsed(h, o) \in Nat /\ hold[c][o].kg \in Nat
      /\ hold'[c][o].kg + Lapsed(h, o) = hold[c][o].kg /\ hold'[c][o].kg \in Nat
    BY LapsedKg
<1>4. Aboard(o)' = Aboard(o)
    BY DEF Aboard
<1> QED
    BY <1>1, <1>2, <1>3, <1>4

LEMMA LookPromise ==
    ASSUME TypeOK, TypeOK', Promises, NEW c \in Companies, Look(c)
    PROVE  Promises'
<1>1. PICK read \in Reads(c) :
         \E b \in Watched(Expired(board, hold[c]), hold, flight, read) :
          \/ /\ Saves(b)
             /\ Read(c, read)
             /\ hold' = [hold EXCEPT ![c] = Kept(@)]
             /\ marred' = (marred \cup Missed(board, read) \cup Cut(b)) \ Fresh(b)
             /\ UNCHANGED <<stock, yard, flight, late, owed>>
          \/ HalfSaves(b)
    BY DEF Look
<1>2. PICK b \in Watched(Expired(board, hold[c]), hold, flight, read) :
          \/ /\ Saves(b)
             /\ Read(c, read)
             /\ hold' = [hold EXCEPT ![c] = Kept(@)]
             /\ marred' = (marred \cup Missed(board, read) \cup Cut(b)) \ Fresh(b)
             /\ UNCHANGED <<stock, yard, flight, late, owed>>
          \/ HalfSaves(b)
    BY <1>1
<1> DEFINE e == Expired(board, hold[c])
<1>3. /\ e \in Boards /\ read \in SUBSET Companies /\ hold[c] \in Holds
      /\ hold \in [Companies -> Holds] /\ flight \in [Flights -> Sortie]
      /\ board \in Boards
    BY TypeParts, ExpiredType, ReadsType
<1>4. b \in Boards
    BY <1>2, <1>3, WatchedType
<1>5. ASSUME NEW o \in Orders
      PROVE  /\ Follows(board[o], e[o], Lapsed(hold[c], o))
             /\ e[o].st = "none" <=> board[o].st = "none"
             /\ board[o] \in Row /\ e[o] \in Row /\ b[o] \in Row
             /\ \/ Follows(e[o], b[o], 0)
                \/ e[o].st # "none" /\ o \in Cut(b)
                \/ Listed(o, e[o], b[o])
    BY <1>2, <1>3, <1>4, ExpiredFollows, WatchedFollows DEF Boards
<1> HIDE DEF e
<1>6. ASSUME NEW o \in Orders
      PROVE  \/ Follows(board[o], b[o], Lapsed(hold[c], o))
             \/ board[o].st # "none" /\ o \in Cut(b)
             \/ Listed(o, board[o], b[o])
    <2>1. CASE Follows(e[o], b[o], 0)
        <3>1. Lapsed(hold[c], o) \in Nat
            BY <1>3, LapsedKg
        <3>2. Follows(board[o], b[o], Lapsed(hold[c], o) + 0)
            BY <1>5, <2>1, <3>1, FollowsTwice
        <3> QED
            BY <3>1, <3>2
    <2>2. CASE Listed(o, e[o], b[o])
        BY <1>5, <2>2 DEF Listed
    <2> QED
        BY <1>5, <2>1, <2>2
<1>7. CASE HalfSaves(b)
    <2>1. \A o \in Orders : board[o].st = "none" /\ b[o].st # "none"
                               => Listed(o, board[o], b[o])
        BY <1>6 DEF Follows
    <2> QED
        BY <1>4, <1>7, <2>1, HalfStep
<1>8. CASE /\ Saves(b)
           /\ Read(c, read)
           /\ hold' = [hold EXCEPT ![c] = Kept(@)]
           /\ marred' = (marred \cup Missed(board, read) \cup Cut(b)) \ Fresh(b)
           /\ UNCHANGED <<stock, yard, flight, late, owed>>
    <2>1. ASSUME NEW o \in Orders
          PROVE  /\ OnHold(o)' + Lapsed(hold[c], o) = OnHold(o)
                 /\ OnHold(o)' <= OnHold(o) /\ Aboard(o)' = Aboard(o)
        <3>1. /\ \A d \in Companies \ {c} : hold'[d][o].kg = hold[d][o].kg
              /\ hold'[c][o].kg = Kept(hold[c])[o].kg
            BY <1>3, <1>8
        <3> QED
            BY <1>3, <1>8, <3>1, LapsedStep
    <2>2. board' = b /\ \A o \in Orders : landed'[o] <= landed[o]
        BY <1>8, SavesBlank
    <2>3. ASSUME NEW o \in Orders, PromiseKept(o),
                 Follows(board[o], b[o], Lapsed(hold[c], o))
          PROVE  PromiseKept(o)'
        <3>1. Lapsed(hold[c], o) \in Nat
            BY <1>3, LapsedKg
        <3>2. Promised(o)' + Lapsed(hold[c], o) <= Promised(o)
            BY <2>1, <2>2, <3>1, PromisedType, PromisedTypeNext DEF Promised, PromiseTyped
        <3> QED
            BY <1>8, <2>2, <2>3, <3>1, <3>2, PlainStep
    <2>4. ASSUME NEW o \in Orders
          PROVE  \/ board[o].st # "none" /\ o \in Cut(b)
                 \/ Listed(o, board[o], b[o])
                 \/ /\ board[o].st = "none" => b[o].st = "none"
                    /\ o \notin Missed(board, read) /\ PromiseKept(o) => PromiseKept(o)'
        BY <1>6, <2>3 DEF Follows
    <2>5. \A o \in Orders : OnHold(o)' <= OnHold(o) /\ Aboard(o)' <= Aboard(o)
        BY <2>1, PromisedType DEF PromiseTyped
    <2> DEFINE M == Missed(board, read)
    <2>6. marred' = (marred \cup M \cup Cut(b)) \ Fresh(b)
        BY <1>8
    <2> QED
        BY <1>4, <1>8, <2>4, <2>5, <2>6, FullStep
<1> QED
    BY <1>2, <1>7, <1>8

LEMMA OpenPortsPromise ==
    ASSUME TypeOK, TypeOK', Promises, NEW c \in Companies, OpenPorts(c)
    PROVE  Promises'
<1>1. /\ hold' = [hold EXCEPT ![c] = Kept(@)]
      /\ UNCHANGED <<board, stock, yard, flight, late, owed, landed, marred, slips>>
    BY DEF OpenPorts
<1>2. ASSUME NEW o \in Orders, PromiseKept(o)
      PROVE  PromiseKept(o)'
    <2>1. hold[c] \in Holds /\ hold \in [Companies -> Holds] /\ board[o] \in Row
        BY TypeParts
    <2>2. /\ \A d \in Companies \ {c} : hold'[d][o].kg = hold[d][o].kg
          /\ hold'[c][o].kg = Kept(hold[c])[o].kg
        BY <1>1, <2>1
    <2>3. /\ OnHold(o)' + Lapsed(hold[c], o) = OnHold(o)
          /\ OnHold(o)' <= OnHold(o) /\ Aboard(o)' = Aboard(o)
        BY <1>1, <2>1, <2>2, LapsedStep
    <2>4. Promised(o)' + 0 <= Promised(o)
        BY <1>1, <2>3, PromisedType, PromisedTypeNext DEF Promised, PromiseTyped
    <2>5. Follows(board[o], board'[o], 0)
        BY <1>1, <2>1, RowFollows
    <2> QED
        BY <1>1, <1>2, <2>4, <2>5, PlainStep
<1> QED
    BY <1>1, <1>2 DEF Promises, BlankIsNew

\* Time does not touch what a row asks for.
LEMMA AgoRowParts ==
    ASSUME NEW r \in Row
    PROVE  /\ AgoRow(r).st = r.st /\ AgoRow(r).good = r.good /\ AgoRow(r).rem = r.rem
           /\ Past(r) => Past(AgoRow(r))
<1>1. CASE r = NoRow
    BY <1>1 DEF AgoRow, NoRow
<1>2. CASE r # NoRow
    <2>1. /\ r.left \in Int /\ DOMAIN r = {"st", "good", "rem", "left"}
        BY <1>2, RowParts DEF Row
    <2> QED
        BY <2>1, Limits DEF AgoRow, Past, Most
<1> QED
    BY <1>1, <1>2

LEMMA LateAgo ==
    ASSUME TypeOK, NEW o \in Orders, LateAgrees(o),
           late'[o] = <<AgoRow(late[o][1]), AgoRow(late[o][2])>>
    PROVE  LateAgrees(o)' /\ Pending(o)' = Pending(o)
<1> DEFINE r == late[o][1]
           s == late[o][2]
<1>1. r \in Row /\ s \in Row
    BY PromisedType DEF PromiseTyped
<1>2. /\ AgoRow(r).st = r.st /\ AgoRow(r).good = r.good /\ AgoRow(r).rem = r.rem
      /\ AgoRow(s).st = s.st /\ AgoRow(s).good = s.good /\ AgoRow(s).rem = s.rem
      /\ Past(r) => Past(AgoRow(r))
    BY <1>1, AgoRowParts
<1>3. late'[o][1] = AgoRow(r) /\ late'[o][2] = AgoRow(s)
    OBVIOUS
<1> QED
    BY <1>2, <1>3 DEF LateAgrees, Pending, Asks

LEMMA PulsePromise ==
    ASSUME TypeOK, TypeOK', Promises, NEW c \in Companies, Pulse(c)
    PROVE  Promises'
<1> DEFINE b1 == [o \in Orders |-> AgoRow(board[o])]
           h == [d \in Companies |-> [o \in Orders |-> AgoHold(hold[d][o])]]
           fl == [f \in Flights |-> AgoFlight(flight[f])]
<1>1. PICK read \in Reads(c) :
          \E b \in Watched(Expired(b1, h[c]), h, fl, read) :
          /\ Saves(b)
          /\ Read(c, read)
          /\ hold' = [h EXCEPT ![c] = Kept(@)]
          /\ flight' = fl
          /\ late' = [o \in Orders |-> <<AgoRow(late[o][1]), AgoRow(late[o][2])>>]
          /\ marred' = (marred \cup Missed(b1, read) \cup Cut(b)) \ Fresh(b)
          /\ UNCHANGED <<stock, yard, owed>>
    BY DEF Pulse
<1>2. PICK b \in Watched(Expired(b1, h[c]), h, fl, read) :
          /\ Saves(b)
          /\ Read(c, read)
          /\ hold' = [h EXCEPT ![c] = Kept(@)]
          /\ flight' = fl
          /\ late' = [o \in Orders |-> <<AgoRow(late[o][1]), AgoRow(late[o][2])>>]
          /\ marred' = (marred \cup Missed(b1, read) \cup Cut(b)) \ Fresh(b)
          /\ UNCHANGED <<stock, yard, owed>>
    BY <1>1
<1> DEFINE e == Expired(b1, h[c])
<1>3. /\ b1 \in Boards /\ h \in [Companies -> Holds] /\ fl \in [Flights -> Sortie]
      /\ board \in Boards /\ read \in SUBSET Companies
    <2>1. b1 \in Boards
        BY TypeParts, ReleasedType DEF Boards
    <2>2. h \in [Companies -> Holds]
        BY TypeParts, AgoType DEF Holds
    <2>3. fl \in [Flights -> Sortie]
        BY TypeParts, AgoType
    <2> QED
        BY <2>1, <2>2, <2>3, TypeParts, ReadsType
<1>4. ASSUME NEW o \in Orders
      PROVE  /\ \A d \in Companies : h[d][o].kg = hold[d][o].kg
             /\ \A f \in Flights : KgFor(fl[f].lines, o) = KgFor(flight[f].lines, o)
             /\ Follows(board[o], b1[o], 0) /\ (b1[o].st = "none" <=> board[o].st = "none")
             /\ late'[o] = <<AgoRow(late[o][1]), AgoRow(late[o][2])>>
             /\ late'[o][1].st = "none" <=> late[o][1].st = "none"
    <2>1. \A d \in Companies : h[d][o].kg = hold[d][o].kg
        <3> SUFFICES ASSUME NEW d \in Companies PROVE h[d][o].kg = hold[d][o].kg
            OBVIOUS
        <3>1. hold[d][o] \in Held
            BY TypeParts DEF Holds
        <3>2. AgoHold(hold[d][o]).kg = hold[d][o].kg
            BY <3>1 DEF AgoHold, Held, NoHold
        <3> QED
            BY <3>2
    <2>2. \A f \in Flights : KgFor(fl[f].lines, o) = KgFor(flight[f].lines, o)
        BY TypeParts, AgoLoads
    <2>3. Follows(board[o], b1[o], 0) /\ (b1[o].st = "none" <=> board[o].st = "none")
        BY TypeParts, RowFollows, BlankKept
    <2>4. late'[o] = <<AgoRow(late[o][1]), AgoRow(late[o][2])>>
        BY <1>2
    <2>5. late'[o][1].st = "none" <=> late[o][1].st = "none"
        BY <2>4, PromisedType, AgoRowParts DEF PromiseTyped
    <2> QED
        BY <2>1, <2>2, <2>3, <2>4, <2>5
<1> HIDE DEF b1, h, fl
<1>5. e \in Boards /\ h[c] \in Holds
    BY <1>3, ExpiredType
<1>6. b \in Boards
    BY <1>2, <1>3, <1>5, WatchedType
<1>7. ASSUME NEW o \in Orders
      PROVE  /\ Follows(b1[o], e[o], Lapsed(h[c], o))
             /\ e[o].st = "none" <=> b1[o].st = "none"
             /\ board[o] \in Row /\ b1[o] \in Row /\ e[o] \in Row /\ b[o] \in Row
             /\ \/ Follows(e[o], b[o], 0)
                \/ e[o].st # "none" /\ o \in Cut(b)
                \/ Listed(o, e[o], b[o])
    BY <1>2, <1>3, <1>5, <1>6, ExpiredFollows, WatchedFollows DEF Boards
<1> HIDE DEF e
<1>8. ASSUME NEW o \in Orders
      PROVE  \/ Follows(board[o], b[o], Lapsed(h[c], o))
             \/ board[o].st # "none" /\ o \in Cut(b)
             \/ Listed(o, board[o], b[o])
    <2>1. CASE Follows(e[o], b[o], 0)
        <3>1. Lapsed(h[c], o) \in Nat
            BY <1>5, LapsedKg
        <3>2. Follows(board[o], e[o], 0 + Lapsed(h[c], o))
            BY <1>4, <1>7, <3>1, FollowsTwice
        <3>3. Follows(board[o], e[o], Lapsed(h[c], o))
            BY <3>1, <3>2
        <3>4. Follows(board[o], b[o], Lapsed(h[c], o) + 0)
            BY <1>7, <2>1, <3>1, <3>3, FollowsTwice
        <3> QED
            BY <3>1, <3>4
    <2>2. CASE Listed(o, e[o], b[o])
        BY <1>4, <1>7, <2>2 DEF Listed
    <2> QED
        BY <1>4, <1>7, <2>1, <2>2
<1>9. ASSUME NEW o \in Orders
      PROVE  /\ OnHold(o)' + Lapsed(h[c], o) = OnHold(o)
             /\ OnHold(o)' <= OnHold(o) /\ Aboard(o)' = Aboard(o)
    <2>1. /\ \A d \in Companies \ {c} : hold'[d][o].kg = hold[d][o].kg
          /\ hold'[c][o].kg = Kept(h[c])[o].kg /\ h[c][o].kg = hold[c][o].kg
        BY <1>2, <1>3, <1>4
    <2>2. \A f \in Flights : KgFor(flight'[f].lines, o) = KgFor(flight[f].lines, o)
        BY <1>2, <1>4
    <2> QED
        BY <1>5, <2>1, <2>2, LapsedStep
<1>10. board' = b /\ \A o \in Orders : landed'[o] <= landed[o]
    BY <1>2, SavesBlank
<1>11. ASSUME NEW o \in Orders, PromiseKept(o), Follows(board[o], b[o], Lapsed(h[c], o))
       PROVE  PromiseKept(o)'
    <2>1. Lapsed(h[c], o) \in Nat
        BY <1>5, LapsedKg
    <2>2. Promised(o)' + Lapsed(h[c], o) <= Promised(o)
        BY <1>9, <1>10, <2>1, PromisedType, PromisedTypeNext DEF Promised, PromiseTyped
    <2>3. LateAgrees(o)' /\ Pending(o)' = Pending(o)
        BY <1>4, <1>11, LateAgo DEF PromiseKept
    <2> QED
        BY <1>10, <1>11, <2>1, <2>2, <2>3, PromiseStep
<1>12. ASSUME NEW o \in Orders
       PROVE  \/ board[o].st # "none" /\ o \in Cut(b)
              \/ Listed(o, board[o], b[o])
              \/ /\ board[o].st = "none" => b[o].st = "none"
                 /\ o \notin Missed(b1, read) /\ PromiseKept(o) => PromiseKept(o)'
    BY <1>8, <1>11 DEF Follows
<1>13. \A o \in Orders : OnHold(o)' <= OnHold(o) /\ Aboard(o)' <= Aboard(o)
    BY <1>9, PromisedType DEF PromiseTyped
<1> DEFINE M == Missed(b1, read)
<1>14. marred' = (marred \cup M \cup Cut(b)) \ Fresh(b)
    BY <1>2
<1>15. Saves(b)
    BY <1>2
<1> QED
    BY <1>4, <1>6, <1>12, <1>13, <1>14, <1>15, FullStep

-----------------------------------------------------------------------------
(* The desk.                                                               *)

LEMMA OfferedFollows ==
    ASSUME TypeOK, NEW c \in Companies, NEW o \in Orders
    PROVE  /\ Offered(c, o) \in Row
           /\ Follows(board[o], Offered(c, o), Lapsed(hold[c], o))
           /\ Offered(c, o).st = "none" <=> board[o].st = "none"
<1> DEFINE k == Lapsed(hold[c], o)
           d == Due(board[o])
<1>1. board[o] \in Row /\ d \in Row /\ k \in Nat
    BY TypeParts, ReleasedType, LapsedKg
<1>2. Offered(c, o) = Restored(d, k)
    BY DEF Offered, Lapsed
<1>3. Follows(board[o], d, 0) /\ (d.st = "none" <=> board[o].st = "none")
    BY <1>1, RowFollows, BlankKept
<1> HIDE DEF k, d
<1>4. /\ Follows(d, Restored(d, k), k) /\ Restored(d, k) \in Row
      /\ Restored(d, k).st = "none" <=> d.st = "none"
    BY <1>1, BackFollows, RestoredType, BlankKept
<1>5. Follows(board[o], Restored(d, k), 0 + k)
    BY <1>1, <1>3, <1>4, FollowsTwice
<1>6. Follows(board[o], Restored(d, k), k)
    BY <1>1, <1>5
<1> QED
    BY <1>2, <1>3, <1>4, <1>6 DEF k

LEMMA ClaimedParts ==
    ASSUME NEW r \in Row, NEW until \in Int
    PROVE  /\ Claimed(r, until).st = r.st /\ Claimed(r, until).good = r.good
           /\ Claimed(r, until).rem = r.rem
           /\ Asks(r) => Past(Claimed(r, until)) /\ Asks(Claimed(r, until))
<1>1. CASE r = NoRow
    BY <1>1 DEF Claimed, NoRow, Asks
<1>2. CASE r # NoRow
    <2>1. /\ r.left \in Int /\ DOMAIN r = {"st", "good", "rem", "left"}
        BY <1>2, RowParts DEF Row
    <2> QED
        BY <2>1 DEF Claimed, Past, Asks
<1> QED
    BY <1>1, <1>2

\* The board is saved, maybe without the row, and no order is listed.
LEMMA DeskStep ==
    ASSUME TypeOK, TypeOK', Promises, NEW b \in Boards, Saves(b), UNCHANGED marred,
           \A o \in Orders : PromiseKept(o) => PromiseKept(o)'
    PROVE  Promises'
BY SavesBlank DEF Promises

LEMMA HoldPromise ==
    ASSUME TypeOK, TypeOK', Promises, NEW c \in Companies, NEW o \in Orders, Hold(c, o)
    PROVE  Promises'
<1> DEFINE h == Kept(hold[c])
           r == Offered(c, o)
<1>1. PICK kg \in 1..Least(r.rem, Free(h, c, r.good)) :
             LET until == Least(HoldTtl, r.left)
                 b == [board EXCEPT ![o] = Claimed(Taken(r, kg), until)]
             IN \/ /\ Saves(b)
                   /\ hold' = [hold EXCEPT ![c] = [h EXCEPT ![o] =
                                  [good |-> r.good, kg |-> kg, left |-> until]]]
                   /\ UNCHANGED <<stock, yard, flight, late, owed, marred, slips>>
                \/ HalfSaves(b)
    BY DEF Hold
<1>2. IsOpen(r) /\ h[o].kg = 0
    BY DEF Hold
<1> DEFINE until == Least(HoldTtl, r.left)
           s == Claimed(Taken(r, kg), until)
           b == [board EXCEPT ![o] = s]
           n == [good |-> r.good, kg |-> kg, left |-> until]
<1>3. /\ Taken(r, kg) \in Row /\ r.left \in Nat /\ kg \in Nat /\ kg <= r.rem
      /\ r.st = "open"
    BY <1>2, TakesType
<1>4. until \in Int
    BY <1>3, Limits DEF Least
<1>5. \/ /\ Saves(b)
         /\ hold' = [hold EXCEPT ![c] = [h EXCEPT ![o] = n]]
         /\ UNCHANGED <<stock, yard, flight, late, owed, marred, slips>>
      \/ HalfSaves(b)
    BY <1>1
<1>6. /\ r \in Row /\ Follows(board[o], r, Lapsed(hold[c], o))
      /\ r.st = "none" <=> board[o].st = "none"
    BY OfferedFollows
<1>7. /\ hold \in [Companies -> Holds] /\ hold[c] \in Holds /\ board \in Boards
      /\ h \in Holds
    BY TypeParts, KeptType
<1>8. n.kg = kg
    OBVIOUS
<1> HIDE DEF r, until, n
<1>9. Past(s) /\ Asks(s) /\ s.good = r.good /\ s.rem = r.rem - kg /\ s \in Row
    <2> DEFINE t == Taken(r, kg)
    <2>1. Asks(r)
        BY <1>3 DEF Asks
    <2>2. Asks(t) /\ t.good = r.good /\ t.rem = r.rem - kg
        BY <1>3, <1>6, <2>1, TakenFollows
    <2>3. t \in Row /\ s = Claimed(t, until)
        BY <1>3
    <2> HIDE DEF s, t
    <2>4. /\ s.good = t.good /\ s.rem = t.rem /\ Past(s) /\ Asks(s)
        BY <1>4, <2>2, <2>3, ClaimedParts
    <2>5. s \in Row
        BY <1>4, <2>3, ClaimedType
    <2> QED
        BY <2>2, <2>4, <2>5
<1> HIDE DEF s
<1>10. b \in Boards /\ b[o] = s /\ \A q \in Orders : q # o => b[q] = board[q]
    BY <1>7, <1>9 DEF Boards
<1> HIDE DEF b
<1>11. CASE HalfSaves(b)
    <2>1. \A q \in Orders : board[q].st = "none" => b[q].st = "none"
        BY <1>3, <1>6, <1>10
    <2> QED
        BY <1>10, <1>11, <2>1, HalfStep
<1>12. CASE /\ Saves(b)
            /\ hold' = [hold EXCEPT ![c] = [h EXCEPT ![o] = n]]
            /\ UNCHANGED <<stock, yard, flight, late, owed, marred, slips>>
    <2>1. board' = b /\ \A q \in Orders : landed'[q] <= landed[q]
        BY <1>12, SavesBlank
    <2>2. \A q \in Orders : \A d \in Companies \ {c} : hold'[d][q].kg = hold[d][q].kg
        BY <1>7, <1>12
    <2>3. hold'[c][o].kg = kg /\ \A q \in Orders : q # o => hold'[c][q].kg = h[q].kg
        BY <1>7, <1>8, <1>12 DEF Holds
    <2>4. \A q \in Orders : Aboard(q)' = Aboard(q)
        BY <1>12 DEF Aboard
    <2>5. ASSUME PromiseKept(o)
          PROVE  PromiseKept(o)'
        <3>1. OnHold(o)' + hold[c][o].kg = OnHold(o) + kg
            BY <2>2, <2>3, HoldChanged
        <3>2. Lapsed(hold[c], o) = hold[c][o].kg /\ Lapsed(hold[c], o) \in Nat
            BY <1>2, <1>7, LapsedKg
        <3>3. Promised(o)' + Lapsed(hold[c], o) <= Promised(o) + kg
            BY <1>3, <2>1, <2>4, <3>1, <3>2, PromisedType, PromisedTypeNext
               DEF Promised, PromiseTyped
        <3>4. UNCHANGED late /\ Asks(r)
            BY <1>3, <1>12 DEF Asks
        <3>5. board'[o] = s
            BY <1>10, <2>1
        <3> QED
            BY <1>3, <1>6, <1>9, <2>5, <3>2, <3>3, <3>4, <3>5, TakingStep
    <2>6. ASSUME NEW q \in Orders, q # o, PromiseKept(q)
          PROVE  PromiseKept(q)'
        <3>1. \A f \in Flights : KgFor(flight'[f].lines, q) = KgFor(flight[f].lines, q)
            BY <1>12
        <3>2. hold'[c][q].kg = Kept(hold[c])[q].kg
            BY <2>3, <2>6
        <3>3. OnHold(q)' <= OnHold(q) /\ Aboard(q)' = Aboard(q)
            BY <1>7, <2>2, <3>1, <3>2, LapsedStep
        <3>4. Promised(q)' + 0 <= Promised(q)
            BY <2>1, <3>3, PromisedType, PromisedTypeNext DEF Promised, PromiseTyped
        <3>5. Follows(board[q], board'[q], 0)
            BY <1>10, <2>1, <2>6, TypeParts, RowFollows
        <3> QED
            BY <1>12, <2>6, <3>4, <3>5, PlainStep
    <2> QED
        BY <1>10, <1>12, <2>5, <2>6, DeskStep
<1> QED
    BY <1>5, <1>11, <1>12

LEMMA CancelHoldPromise ==
    ASSUME TypeOK, TypeOK', Promises, NEW c \in Companies, NEW o \in Orders,
           CancelHold(c, o)
    PROVE  Promises'
<1> DEFINE h == Kept(hold[c])
           e == Expired(board, hold[c])
           b == [e EXCEPT ![o] = Restored(@, h[o].kg)]
<1>1. \/ /\ Saves(b)
         /\ hold' = [hold EXCEPT ![c] = [h EXCEPT ![o] = NoHold]]
         /\ UNCHANGED <<stock, yard, flight, late, owed, marred, slips>>
      \/ HalfSaves(b)
    BY DEF CancelHold
<1>2. /\ hold \in [Companies -> Holds] /\ hold[c] \in Holds /\ board \in Boards
      /\ h \in Holds /\ e \in Boards /\ h[o].kg \in Nat
    BY TypeParts, KeptType, HeldNat, ExpiredType
<1>3. \A q \in Orders : /\ Follows(board[q], e[q], Lapsed(hold[c], q))
                        /\ e[q].st = "none" <=> board[q].st = "none"
                        /\ Lapsed(hold[c], q) \in Nat
                        /\ h[q].kg + Lapsed(hold[c], q) = hold[c][q].kg
                        /\ h[q].kg \in Nat /\ hold[c][q].kg \in Nat
                        /\ board[q] \in Row /\ e[q] \in Row
    BY <1>2, ExpiredFollows, LapsedKg, HeldNat DEF Boards
<1> HIDE DEF h, e
<1>4. b[o] = Restored(e[o], h[o].kg) /\ \A q \in Orders : q # o => b[q] = e[q]
    BY <1>2 DEF Boards
<1>5. /\ b[o] \in Row /\ Follows(e[o], b[o], h[o].kg)
      /\ b[o].st = "none" <=> e[o].st = "none"
    <2> DEFINE k == h[o].kg
               r == e[o]
    <2>1. k \in Nat /\ r \in Row /\ b[o] = Restored(r, k)
        BY <1>2, <1>3, <1>4
    <2> HIDE DEF k, r
    <2>2. /\ Restored(r, k) \in Row /\ Follows(r, Restored(r, k), k)
          /\ Restored(r, k).st = "none" <=> r.st = "none"
        BY <2>1, RestoredType, BackFollows, BlankKept
    <2> QED
        BY <2>1, <2>2 DEF k, r
<1>6. b \in Boards
    BY <1>2, <1>5 DEF Boards
<1> HIDE DEF b
<1>7. CASE HalfSaves(b)
    <2>1. \A q \in Orders : board[q].st = "none" => b[q].st = "none"
        BY <1>3, <1>4, <1>5
    <2> QED
        BY <1>6, <1>7, <2>1, HalfStep
<1>8. CASE /\ Saves(b)
           /\ hold' = [hold EXCEPT ![c] = [h EXCEPT ![o] = NoHold]]
           /\ UNCHANGED <<stock, yard, flight, late, owed, marred, slips>>
    <2>1. board' = b /\ \A q \in Orders : landed'[q] <= landed[q]
        BY <1>8, SavesBlank
    <2>2. \A q \in Orders : \A d \in Companies \ {c} : hold'[d][q].kg = hold[d][q].kg
        BY <1>2, <1>8
    <2>3. hold'[c][o].kg = 0 /\ \A q \in Orders : q # o => hold'[c][q].kg = h[q].kg
        BY <1>2, <1>8 DEF Holds, NoHold
    <2>4. \A q \in Orders : Aboard(q)' = Aboard(q)
        BY <1>8 DEF Aboard
    <2>5. ASSUME NEW q \in Orders, NEW k \in Nat, PromiseKept(q),
                 Follows(board[q], b[q], k), hold'[c][q].kg + k = hold[c][q].kg
          PROVE  PromiseKept(q)'
        <3>1. OnHold(q)' + hold[c][q].kg = OnHold(q) + hold'[c][q].kg
            BY <2>2, HoldChanged
        <3>2. hold'[c][q].kg \in Nat
            BY <1>3, <2>3
        <3>3. Promised(q)' + k <= Promised(q)
            BY <1>3, <2>1, <2>4, <2>5, <3>1, <3>2, PromisedType, PromisedTypeNext
               DEF Promised, PromiseTyped
        <3> QED
            BY <1>8, <2>1, <2>5, <3>3, PlainStep
    <2>6. ASSUME PromiseKept(o)
          PROVE  PromiseKept(o)'
        <3>1. Follows(board[o], b[o], Lapsed(hold[c], o) + h[o].kg)
            BY <1>3, <1>5, FollowsTwice
        <3>2. Lapsed(hold[c], o) + h[o].kg = hold[c][o].kg
            BY <1>3
        <3> QED
            BY <1>3, <2>3, <2>5, <2>6, <3>1, <3>2
    <2>7. ASSUME NEW q \in Orders, q # o, PromiseKept(q)
          PROVE  PromiseKept(q)'
        BY <1>3, <1>4, <2>3, <2>5, <2>7
    <2> QED
        BY <1>6, <1>8, <2>6, <2>7, DeskStep
<1> QED
    BY <1>1, <1>7, <1>8

LEMMA OneLineFor ==
    ASSUME NEW l \in Loads
    PROVE  \A o : KgFor(<<l>>, o) = IF l.order = o THEN l.kg ELSE 0
<1> SUFFICES ASSUME NEW o PROVE KgFor(<<l>>, o) = IF l.order = o THEN l.kg ELSE 0
    OBVIOUS
<1> DEFINE s == <<l>>
           k == [i \in DOMAIN s |-> IF s[i].order = o THEN s[i].kg ELSE 0]
<1>1. DOMAIN s = {1} /\ s[1] = l /\ l.kg \in Nat
    BY DEF Loads
<1> HIDE DEF s
<1>2. DOMAIN k = {1} /\ k[1] = IF l.order = o THEN l.kg ELSE 0
    BY <1>1
<1>3. IsFiniteSet({1})
    BY FS_Singleton
<1>4. k[1] \in Nat
    BY <1>1, <1>2
<1>5. KgFor(s, o) = Sum(k)
    BY DEF KgFor
<1> HIDE DEF k
<1>6. Tally(k) /\ \A x \in DOMAIN k : x # 1 => k[x] = 0
    BY <1>2, <1>3, <1>4 DEF Tally
<1>7. Sum(k) = k[1]
    BY <1>2, <1>6, SumOne
<1> QED
    BY <1>2, <1>5, <1>7 DEF s

LEMMA GroundedFor == \A o : KgFor(Grounded.lines, o) = 0
<1> SUFFICES ASSUME NEW o PROVE KgFor(Grounded.lines, o) = 0
    OBVIOUS
<1> DEFINE s == Grounded.lines
           k == [i \in DOMAIN s |-> IF s[i].order = o THEN s[i].kg ELSE 0]
<1>1. s = <<>>
    BY DEF Grounded
<1>2. DOMAIN k = {}
    BY <1>1
<1> HIDE DEF k
<1>3. Sum(k) = 0
    BY <1>2, SumEmpty
<1> QED
    BY <1>3 DEF KgFor, k

LEMMA FlyNowPromise ==
    ASSUME TypeOK, TypeOK', Promises, NEW c \in Companies, NEW o \in Orders,
           NEW f \in Flights, FlyNow(c, o, f)
    PROVE  Promises'
<1> DEFINE h == Kept(hold[c])
           r == Offered(c, o)
<1>1. flight[f] = Grounded /\ IsOpen(r) /\ h[o].kg = 0
    BY DEF FlyNow
<1>2. PICK kg \in 1..Least(r.rem, Free(h, c, r.good)) :
             LET b == [board EXCEPT ![o] = Taken(r, kg)]
             IN \/ /\ Saves(b)
                   /\ hold' = [hold EXCEPT ![c] = h]
                   /\ stock' = [stock EXCEPT ![c][r.good] = @ - kg]
                   /\ flight' = [flight EXCEPT ![f] =
                                   [by |-> c, order |-> o, lines |-> <<Line(o, r.good, kg, r)>>]]
                   /\ UNCHANGED <<yard, late, owed, marred, slips>>
                \/ HalfSaves(b)
    BY DEF FlyNow
<1> DEFINE s == Taken(r, kg)
           b == [board EXCEPT ![o] = s]
           l == Line(o, r.good, kg, r)
           x == [by |-> c, order |-> o, lines |-> <<l>>]
<1>3. /\ s \in Row /\ kg \in Nat /\ kg <= r.rem /\ r.st = "open"
      /\ r.good \in Goods /\ kg > 0
    BY <1>1, TakesType
<1>4. \/ /\ Saves(b)
         /\ hold' = [hold EXCEPT ![c] = h]
         /\ flight' = [flight EXCEPT ![f] = x]
         /\ UNCHANGED <<late, marred>>
      \/ HalfSaves(b)
    BY <1>2
<1>5. /\ r \in Row /\ Follows(board[o], r, Lapsed(hold[c], o))
      /\ r.st = "none" <=> board[o].st = "none"
    BY OfferedFollows
<1>6. /\ hold \in [Companies -> Holds] /\ hold[c] \in Holds /\ board \in Boards
      /\ flight \in [Flights -> Sortie]
    BY TypeParts
<1> HIDE DEF r
<1>7. Past(s) /\ Asks(s) /\ Asks(r) /\ s.good = r.good /\ s.rem = r.rem - kg
    BY <1>3, <1>5, TakenFollows DEF Asks
<1>8. l \in Loads /\ l.kg = kg /\ l.order = o
    BY <1>3, <1>5, LineType
<1> HIDE DEF s, l
<1>9. b \in Boards /\ b[o] = s /\ \A q \in Orders : q # o => b[q] = board[q]
    BY <1>3, <1>6 DEF Boards
<1>10. /\ x.lines = <<l>>
       /\ \A q \in Orders : KgFor(x.lines, q) = IF q = o THEN kg ELSE 0
    BY <1>8, OneLineFor
<1> HIDE DEF b, x, h
<1>11. CASE HalfSaves(b)
    <2>1. \A q \in Orders : board[q].st = "none" => b[q].st = "none"
        BY <1>3, <1>5, <1>9
    <2> QED
        BY <1>9, <1>11, <2>1, HalfStep
<1>12. CASE /\ Saves(b)
            /\ hold' = [hold EXCEPT ![c] = h]
            /\ flight' = [flight EXCEPT ![f] = x]
            /\ UNCHANGED <<late, marred>>
    <2>1. board' = b /\ \A q \in Orders : landed'[q] <= landed[q]
        BY <1>12, SavesBlank
    <2>2. /\ \A q \in Orders : /\ \A d \in Companies \ {c} : hold'[d][q].kg = hold[d][q].kg
                               /\ hold'[c][q].kg = h[q].kg
          /\ \A e \in Flights \ {f} : flight'[e] = flight[e]
          /\ flight'[f] = x
        BY <1>6, <1>12
    <2>3. ASSUME NEW q \in Orders
          PROVE  /\ OnHold(q)' + Lapsed(hold[c], q) = OnHold(q)
                 /\ Aboard(q)' = Aboard(q) + (IF q = o THEN kg ELSE 0)
                 /\ Lapsed(hold[c], q) \in Nat
        <3>1. OnHold(q)' + hold[c][q].kg = OnHold(q) + hold'[c][q].kg
            BY <2>2, HoldChanged
        <3>2. /\ h[q].kg + Lapsed(hold[c], q) = hold[c][q].kg /\ h[q].kg \in Nat
              /\ Lapsed(hold[c], q) \in Nat /\ hold'[c][q].kg = h[q].kg
            BY <1>6, <2>2, LapsedKg DEF h
        <3>3. Aboard(q)' + KgFor(flight[f].lines, q) = Aboard(q) + KgFor(flight'[f].lines, q)
            BY <2>2, CargoChanged
        <3>4. KgFor(flight[f].lines, q) = 0
            BY <1>1, GroundedFor
        <3>5. KgFor(flight'[f].lines, q) = IF q = o THEN kg ELSE 0
            BY <1>10, <2>2
        <3>6. /\ OnHold(q) \in Nat /\ OnHold(q)' \in Nat
              /\ Aboard(q) \in Nat /\ Aboard(q)' \in Nat
            BY PromisedType, PromisedTypeNext DEF PromiseTyped
        <3>7. OnHold(q)' + Lapsed(hold[c], q) = OnHold(q)
            BY <3>1, <3>2, <3>6
        <3>8. Aboard(q)' = Aboard(q) + (IF q = o THEN kg ELSE 0)
            BY <1>3, <3>3, <3>4, <3>5, <3>6
        <3> QED
            BY <3>2, <3>7, <3>8
    <2>4. ASSUME PromiseKept(o)
          PROVE  PromiseKept(o)'
        <3>1. Promised(o)' + Lapsed(hold[c], o) <= Promised(o) + kg
            BY <1>3, <2>1, <2>3, PromisedType, PromisedTypeNext DEF Promised, PromiseTyped
        <3>2. board'[o] = s /\ UNCHANGED late /\ Lapsed(hold[c], o) \in Nat
            BY <1>9, <1>12, <2>1, <2>3
        <3> QED
            BY <1>3, <1>5, <1>7, <2>4, <3>1, <3>2, TakingStep
    <2>5. ASSUME NEW q \in Orders, q # o, PromiseKept(q)
          PROVE  PromiseKept(q)'
        <3>1. Promised(q)' + 0 <= Promised(q)
            BY <2>1, <2>3, <2>5, PromisedType, PromisedTypeNext DEF Promised, PromiseTyped
        <3>2. Follows(board[q], board'[q], 0)
            BY <1>9, <2>1, <2>5, TypeParts, RowFollows
        <3> QED
            BY <1>12, <2>5, <3>1, <3>2, PlainStep
    <2> QED
        BY <1>9, <1>12, <2>4, <2>5, DeskStep
<1> QED
    BY <1>4, <1>11, <1>12

LEMMA DispatchPromise ==
    ASSUME TypeOK, TypeOK', Promises, NEW c \in Companies, NEW f \in Flights,
           Dispatch(c, f)
    PROVE  Promises'
<1> DEFINE h == Kept(hold[c])
<1>1. flight[f] = Grounded
    BY DEF Dispatch
<1>2. PICK p \in Picks(h) :
       /\ \A g \in Goods : Loaded(h, p, g) <= stock[c][g]
       /\ hold' = [hold EXCEPT ![c] = [o \in Orders |->
                     IF h[o].kg = Drawn(p, o) THEN NoHold
                     ELSE [h[o] EXCEPT !.kg = h[o].kg - Drawn(p, o)]]]
       /\ stock' = [stock EXCEPT ![c] = [g \in Goods |-> @[g] - Loaded(h, p, g)]]
       /\ flight' = [flight EXCEPT ![f] =
                       [by |-> c, order |-> p[1][1],
                        lines |-> [i \in DOMAIN p |->
                          Line(p[i][1], h[p[i][1]].good, p[i][2],
                               Pruned(Offered(c, p[i][1])))]]]
       /\ UNCHANGED <<board, yard, late, owed, landed, marred, slips>>
    BY DEF Dispatch
<1>3. /\ h \in Holds /\ hold \in [Companies -> Holds] /\ hold[c] \in Holds
      /\ flight \in [Flights -> Sortie]
    BY TypeParts, KeptType
<1>4. \A q \in Orders : /\ h[q].kg <= hold[c][q].kg /\ h[q].kg \in Nat
                        /\ hold[c][q].kg \in Nat
    BY <1>3, LapsedKg, HeldNat
<1> HIDE DEF h
<1>5. PICK n \in Nat \ {0} :
             /\ p \in [1..n -> Orders \X Nat] /\ DOMAIN p = 1..n
             /\ \A i \in 1..n : /\ p[i][1] \in Orders /\ p[i][2] \in Nat /\ p[i][2] > 0
                                /\ p[i][2] <= h[p[i][1]].kg
                                /\ h[p[i][1]].good \in Goods
             /\ \A i, j \in 1..n : i # j => p[i][1] # p[j][1]
    BY <1>3, PicksParts
<1> DEFINE cargo == [i \in DOMAIN p |-> Line(p[i][1], h[p[i][1]].good, p[i][2],
                                             Pruned(Offered(c, p[i][1])))]
<1>6. \A i \in 1..n : cargo[i].kg = p[i][2] /\ cargo[i].order = p[i][1]
    <2> SUFFICES ASSUME NEW i \in 1..n
                 PROVE  LET l == Line(p[i][1], h[p[i][1]].good, p[i][2],
                                      Pruned(Offered(c, p[i][1])))
                        IN  l.kg = p[i][2] /\ l.order = p[i][1]
        BY <1>5
    <2>1. Pruned(Offered(c, p[i][1])) \in Row
        BY <1>5, OfferedType, ReleasedType
    <2> QED
        BY <1>5, <2>1, LineType
<1>7. DOMAIN cargo = DOMAIN p
    OBVIOUS
<1>8. /\ flight'[f].lines = cargo
      /\ \A e \in Flights \ {f} : flight'[e] = flight[e]
    BY <1>2, <1>3
<1> HIDE DEF cargo
<1>9. \A q \in Orders : KgFor(cargo, q) = Drawn(p, q)
    <2> SUFFICES ASSUME NEW q \in Orders PROVE KgFor(cargo, q) = Drawn(p, q)
        OBVIOUS
    <2>1. [i \in DOMAIN cargo |-> IF cargo[i].order = q THEN cargo[i].kg ELSE 0]
              = [i \in DOMAIN p |-> IF p[i][1] = q THEN p[i][2] ELSE 0]
        BY <1>5, <1>6, <1>7
    <2> QED
        BY <2>1 DEF KgFor, Drawn
<1>10. ASSUME NEW q \in Orders
       PROVE  /\ hold'[c][q].kg = h[q].kg - Drawn(p, q)
              /\ Drawn(p, q) \in Nat /\ Drawn(p, q) <= h[q].kg
              /\ \A d \in Companies \ {c} : hold'[d][q].kg = hold[d][q].kg
    <2>1. Drawn(p, q) \in Nat /\ Drawn(p, q) <= h[q].kg /\ h[q].kg \in Nat
        BY <1>3, <1>4, DrawnHeld
    <2>2. hold'[c][q] = IF h[q].kg = Drawn(p, q) THEN NoHold
                        ELSE [h[q] EXCEPT !.kg = h[q].kg - Drawn(p, q)]
        BY <1>2, <1>3
    <2>3. "kg" \in DOMAIN h[q] /\ NoHold.kg = 0
        BY <1>3 DEF Holds, Held, NoHold
    <2>4. hold'[c][q].kg = h[q].kg - Drawn(p, q)
        BY <2>1, <2>2, <2>3
    <2>5. \A d \in Companies \ {c} : hold'[d][q].kg = hold[d][q].kg
        BY <1>2, <1>3
    <2> QED
        BY <2>1, <2>4, <2>5
<1>11. ASSUME NEW q \in Orders, PromiseKept(q)
       PROVE  PromiseKept(q)'
    <2>1. OnHold(q)' + hold[c][q].kg = OnHold(q) + hold'[c][q].kg
        BY <1>10, HoldChanged
    <2>2. Aboard(q)' + KgFor(flight[f].lines, q) = Aboard(q) + KgFor(flight'[f].lines, q)
        BY <1>8, CargoChanged
    <2>3. KgFor(flight[f].lines, q) = 0 /\ KgFor(flight'[f].lines, q) = Drawn(p, q)
        BY <1>1, <1>8, <1>9, GroundedFor
    <2>4. landed' = landed /\ UNCHANGED late /\ board' = board
        BY <1>2
    <2>5. /\ OnHold(q) \in Nat /\ OnHold(q)' \in Nat /\ landed[q] \in Nat
          /\ Aboard(q) \in Nat /\ Aboard(q)' \in Nat
        BY PromisedType, PromisedTypeNext DEF PromiseTyped
    <2>6. Promised(q)' + 0 <= Promised(q)
        BY <1>4, <1>10, <2>1, <2>2, <2>3, <2>4, <2>5 DEF Promised
    <2>7. Follows(board[q], board'[q], 0)
        BY <2>4, TypeParts, RowFollows
    <2> QED
        BY <1>11, <2>4, <2>6, <2>7, PlainStep
<1> QED
    BY <1>2, <1>11 DEF Promises, BlankIsNew

-----------------------------------------------------------------------------
(* Flights that end, and late saves.                                       *)

\* A row saved after the locks gives back what a flight lost, now or later.
LEMMA LaterStep ==
    ASSUME TypeOK, TypeOK', NEW x \in Orders, NEW r \in Row, NEW k \in Nat,
           SavesLater(x, r), Follows(board[x], r, k), Grows(board[x], r), NEW q \in Orders, PromiseKept(q),
           Promised(q)' + (IF q = x THEN k ELSE 0) <= Promised(q)
    PROVE  PromiseKept(q)'
<1>1. /\ late[x][1].st = "none"
      /\ \/ /\ late' = [late EXCEPT ![x] = <<r, board[x]>>]
            /\ board' = board
         \/ /\ board' = [board EXCEPT ![x] = r]
            /\ late' = late
    BY DEF SavesLater
<1>2. /\ board \in [Orders -> Row] /\ late \in [Orders -> Row \X Row]
      /\ board[q] \in Row /\ board[x] \in Row
    BY DEF TypeOK
<1>3. CASE q # x
    <2>1. board'[q] = board[q] /\ late'[q] = late[q]
        BY <1>1, <1>2, <1>3
    <2>2. LateAgrees(q)' /\ Pending(q)' = Pending(q)
        BY <2>1 DEF PromiseKept, LateAgrees, Pending
    <2>3. Follows(board[q], board'[q], 0)
        BY <1>2, <2>1, RowFollows
    <2>4. Promised(q)' + 0 <= Promised(q)
        BY <1>3
    <2> QED
        BY <2>2, <2>3, <2>4, PromiseStep
<1>4. CASE q = x /\ late' = late /\ board' = [board EXCEPT ![x] = r]
    <2>1. board'[q] = r
        BY <1>2, <1>4
    <2> QED
        BY <1>4, <2>1, PlainStep
<1>5. CASE q = x /\ board' = board /\ late' = [late EXCEPT ![x] = <<r, board[x]>>]
    <2>1. late'[q][1] = r /\ late'[q][2] = board[q] /\ board'[q] = board[q]
        BY <1>2, <1>5
    <2>2. /\ Past(board[q]) /\ Past(r)
          /\ Asks(r) => Asks(board[q]) /\ r.good = board[q].good
                        /\ r.rem <= board[q].rem + k
        BY <1>5 DEF PromiseKept, Follows
    <2>3. r.rem \in Nat /\ board[q].rem \in Nat
        BY <1>2, RowParts
    <2>4. Asks(r) => board[q].rem <= r.rem
        <3> SUFFICES ASSUME Asks(r) PROVE board[q].rem <= r.rem
            OBVIOUS
        <3>1. Asks(board[q]) /\ Pending(q) = 0
            BY <1>1, <1>5, <2>2 DEF Pending, Asks
        <3>2. board[q].rem + Pending(q) + Promised(q) <= Wanted[board[q].good]
            BY <3>1 DEF PromiseKept
        <3>3. board[q] # NoRow
            BY <3>1 DEF Asks, NoRow
        <3>4. Wanted[board[q].good] \in Nat /\ Promised(q) \in Nat
            BY <1>2, <3>3, RowParts, Limits, PromisedType DEF PromiseTyped
        <3>5. board[q].rem <= Wanted[board[q].good]
            BY <2>3, <3>1, <3>2, <3>4
        <3> QED
            BY <1>5, <3>5 DEF Grows
    <2>5. LateAgrees(q)'
        BY <2>1, <2>2, <2>4 DEF LateAgrees
    <2>6. Pending(q) = 0 /\ Pending(q)' \in Int /\ Pending(q)' <= k
        BY <1>1, <1>5, <2>1, <2>2, <2>3 DEF Pending, Asks
    <2>7. ASSUME Asks(board[q])
          PROVE  board[q].rem + Pending(q)' + Promised(q)' <= Wanted[board[q].good]
        <3>1. board[q].rem + Pending(q) + Promised(q) <= Wanted[board[q].good]
            BY <2>7 DEF PromiseKept
        <3>2. board[q] # NoRow
            BY <2>7 DEF Asks, NoRow
        <3>3. Wanted[board[q].good] \in Nat
            BY <1>2, <3>2, RowParts, Limits
        <3>4. Promised(q) \in Nat /\ Promised(q)' \in Nat
            BY PromisedType, PromisedTypeNext DEF PromiseTyped
        <3>5. Promised(q)' + k <= Promised(q)
            BY <1>5
        <3> QED
            BY <2>3, <2>6, <3>1, <3>3, <3>4, <3>5
    <2> QED
        BY <2>1, <2>2, <2>5, <2>7 DEF PromiseKept
<1> QED
    BY <1>1, <1>3, <1>4, <1>5

LEMMA LaterBlank ==
    ASSUME TypeOK, NEW x \in Orders, NEW r \in Row, SavesLater(x, r),
           r.st = "none" <=> board[x].st = "none"
    PROVE  \A q \in Orders : board'[q].st = "none" => board[q].st = "none"
<1>1. board \in [Orders -> Row]
    BY DEF TypeOK
<1> QED
    BY <1>1 DEF SavesLater

\* A flight that is gone carries nothing.
LEMMA FlightGone ==
    ASSUME TypeOK, TypeOK', NEW f \in Flights, flight' = [flight EXCEPT ![f] = Grounded],
           hold' = hold, NEW q \in Orders
    PROVE  /\ Aboard(q)' + KgFor(flight[f].lines, q) = Aboard(q)
           /\ OnHold(q)' = OnHold(q) /\ KgFor(flight[f].lines, q) \in Nat
<1>1. flight \in [Flights -> Sortie]
    BY DEF TypeOK
<1>2. flight'[f] = Grounded /\ \A e \in Flights \ {f} : flight'[e] = flight[e]
    BY <1>1
<1>3. Aboard(q)' + KgFor(flight[f].lines, q) = Aboard(q) + KgFor(flight'[f].lines, q)
    BY <1>2, CargoChanged
<1>4. KgFor(flight'[f].lines, q) = 0
    BY <1>2, GroundedFor
<1>5. Aboard(q) \in Nat /\ KgFor(flight[f].lines, q) \in Nat
    BY <1>1, LoadNat, PromisedType DEF PromiseTyped
<1>6. OnHold(q)' = OnHold(q)
    BY DEF OnHold
<1> QED
    BY <1>3, <1>4, <1>5, <1>6

LEMMA CancelPromise ==
    ASSUME TypeOK, TypeOK', Promises, NEW f \in Flights, Cancel(f)
    PROVE  Promises'
<1> DEFINE x == flight[f]
           o == x.order
           k == KgFor(x.lines, o)
           r == GivenBack(board[o], k)
<1>1. /\ x # Grounded /\ flight' = [flight EXCEPT ![f] = Grounded]
      /\ SavesLater(o, r) /\ UNCHANGED <<hold, owed, landed, marred>>
    BY DEF Cancel
<1>2. o \in Orders /\ k \in Nat /\ board[o] \in Row
    BY <1>1, TypeParts, SortieParts, LoadNat
<1>3. \A q \in Orders : /\ Aboard(q)' + KgFor(x.lines, q) = Aboard(q)
                        /\ OnHold(q)' = OnHold(q) /\ KgFor(x.lines, q) \in Nat
    BY <1>1, FlightGone
<1>4. k = KgFor(x.lines, o)
    OBVIOUS
<1> HIDE DEF o, k, x
<1>5. /\ r \in Row /\ Follows(board[o], r, k) /\ (r.st = "none" <=> board[o].st = "none")
      /\ Grows(board[o], r)
    BY <1>2, RestoredType, BackFollows, BackGrows, BlankKept
<1> HIDE DEF r
<1>6. ASSUME NEW q \in Orders, PromiseKept(q)
      PROVE  PromiseKept(q)'
    <2>1. /\ Aboard(q)' + KgFor(x.lines, q) = Aboard(q) /\ OnHold(q)' = OnHold(q)
          /\ KgFor(x.lines, q) \in Nat /\ (q = o => KgFor(x.lines, q) = k)
        BY <1>3, <1>4
    <2>2. /\ Aboard(q) \in Nat /\ Aboard(q)' \in Nat /\ OnHold(q) \in Nat
          /\ landed[q] \in Nat /\ landed'[q] = landed[q]
        BY <1>1, PromisedType, PromisedTypeNext DEF PromiseTyped
    <2>3. Promised(q)' + (IF q = o THEN k ELSE 0) <= Promised(q)
        BY <1>2, <2>1, <2>2 DEF Promised
    <2> QED
        BY <1>1, <1>2, <1>5, <1>6, <2>3, LaterStep
<1>7. \A q \in Orders : board'[q].st = "none" => board[q].st = "none"
    BY <1>1, <1>2, <1>5, LaterBlank
<1> QED
    BY <1>1, <1>6, <1>7 DEF Promises, BlankIsNew

LEMMA SettlePromise ==
    ASSUME TypeOK, TypeOK', Promises, NEW f \in Flights, Settle(f)
    PROVE  Promises'
<1> DEFINE x == flight[f]
           o == x.order
           r == IF KgFor(x.lines, o) > 0 THEN Released(board[o]) ELSE board[o]
<1>1. /\ x # Grounded /\ flight' = [flight EXCEPT ![f] = Grounded]
      /\ landed' = [q \in Orders |-> IF q \in Blank(board) THEN 0
                       ELSE Least(MaxWanted + 1, landed[q] + KgFor(x.lines, q))]
      /\ SavesLater(o, r) /\ UNCHANGED <<hold, stock, yard, marred>>
    BY DEF Settle
<1>2. o \in Orders /\ board[o] \in Row
    BY <1>1, TypeParts, SortieParts
<1>3. \A q \in Orders : /\ Aboard(q)' + KgFor(x.lines, q) = Aboard(q)
                        /\ OnHold(q)' = OnHold(q) /\ KgFor(x.lines, q) \in Nat
    BY <1>1, FlightGone
<1> HIDE DEF o, x
<1>4. /\ r \in Row /\ Follows(board[o], r, 0) /\ (r.st = "none" <=> board[o].st = "none")
      /\ Grows(board[o], r)
    BY <1>2, ReleasedType, RowFollows, BackGrows, BlankKept
<1> HIDE DEF r
<1>5. ASSUME NEW q \in Orders
      PROVE  landed'[q] \in Nat /\ landed'[q] <= landed[q] + KgFor(x.lines, q)
    <2>1. landed[q] \in Nat /\ KgFor(x.lines, q) \in Nat /\ MaxWanted \in Nat
        BY <1>3, MaxWantedNat, PromisedType DEF PromiseTyped
    <2>2. landed'[q] = IF q \in Blank(board) THEN 0
                       ELSE Least(MaxWanted + 1, landed[q] + KgFor(x.lines, q))
        BY <1>1
    <2> QED
        BY <2>1, <2>2 DEF Least
<1>6. ASSUME NEW q \in Orders, PromiseKept(q)
      PROVE  PromiseKept(q)'
    <2>1. /\ Aboard(q)' + KgFor(x.lines, q) = Aboard(q) /\ OnHold(q)' = OnHold(q)
          /\ KgFor(x.lines, q) \in Nat
          /\ landed'[q] \in Nat /\ landed'[q] <= landed[q] + KgFor(x.lines, q)
        BY <1>3, <1>5
    <2>2. /\ Aboard(q) \in Nat /\ Aboard(q)' \in Nat /\ OnHold(q) \in Nat
          /\ landed[q] \in Nat
        BY PromisedType, PromisedTypeNext DEF PromiseTyped
    <2>3. Promised(q)' <= Promised(q) /\ Promised(q)' \in Nat
        BY <2>1, <2>2 DEF Promised
    <2>4. Promised(q)' + (IF q = o THEN 0 ELSE 0) <= Promised(q)
        BY <2>3
    <2> QED
        BY <1>1, <1>2, <1>4, <1>6, <2>4, LaterStep
<1>7. \A q \in Orders : board'[q].st = "none" => board[q].st = "none"
    BY <1>1, <1>2, <1>4, LaterBlank
<1>8. BlankIsNew'
    BY <1>1, <1>7 DEF BlankIsNew, Blank
<1> QED
    BY <1>1, <1>6, <1>8 DEF Promises

\* A step that leaves the board alone.
LEMMA CalmStep ==
    ASSUME TypeOK, TypeOK', Promises, UNCHANGED <<board, late, landed, marred>>,
           \A q \in Orders : OnHold(q)' + Aboard(q)' <= OnHold(q) + Aboard(q)
    PROVE  Promises'
<1>1. ASSUME NEW q \in Orders, PromiseKept(q)
      PROVE  PromiseKept(q)'
    <2>1. Promised(q)' + 0 <= Promised(q)
        BY PromisedType, PromisedTypeNext DEF Promised, PromiseTyped
    <2>2. Follows(board[q], board'[q], 0)
        BY TypeParts, RowFollows
    <2> QED
        BY <1>1, <2>1, <2>2, PlainStep
<1> QED
    BY <1>1 DEF Promises, BlankIsNew

LEMMA ImpactPromise ==
    ASSUME TypeOK, TypeOK', Promises, NEW f \in Flights, Impact(f)
    PROVE  Promises'
<1>1. /\ flight' = [flight EXCEPT ![f] = Grounded]
      /\ UNCHANGED <<board, hold, stock, yard, late, landed, marred, slips>>
    BY DEF Impact
<1>2. \A q \in Orders : /\ Aboard(q)' + KgFor(flight[f].lines, q) = Aboard(q)
                        /\ OnHold(q)' = OnHold(q) /\ KgFor(flight[f].lines, q) \in Nat
    BY <1>1, FlightGone
<1>3. \A q \in Orders : OnHold(q)' + Aboard(q)' <= OnHold(q) + Aboard(q)
    BY <1>2, PromisedType, PromisedTypeNext DEF PromiseTyped
<1> QED
    BY <1>1, <1>3, CalmStep

LEMMA CargoPromise ==
    ASSUME TypeOK, TypeOK', Promises,
           UNCHANGED <<board, hold, flight, late, landed, marred>>
    PROVE  Promises'
<1>1. \A q \in Orders : OnHold(q)' = OnHold(q) /\ Aboard(q)' = Aboard(q)
    BY DEF OnHold, Aboard
<1>2. \A q \in Orders : OnHold(q)' + Aboard(q)' <= OnHold(q) + Aboard(q)
    BY <1>1, PromisedType DEF PromiseTyped
<1> QED
    BY <1>2, CalmStep

LEMMA LateSavePromise ==
    ASSUME TypeOK, TypeOK', Promises, NEW o \in Orders, LateSave(o)
    PROVE  Promises'
<1>1. /\ late[o][1].st # "none"
      /\ board' = [board EXCEPT ![o] = late[o][1]]
      /\ late' = [late EXCEPT ![o] = <<NoRow, NoRow>>]
      /\ marred' = marred \cup (IF board[o] = late[o][2] THEN {} ELSE {o})
      /\ UNCHANGED <<hold, flight, landed>>
    BY DEF LateSave, row
<1>2. board \in [Orders -> Row] /\ late \in [Orders -> Row \X Row]
    BY DEF TypeOK
<1>3. ASSUME NEW q \in Orders
      PROVE  Promised(q)' = Promised(q) /\ Promised(q) \in Nat
    <2>1. OnHold(q)' = OnHold(q) /\ Aboard(q)' = Aboard(q)
        BY <1>1 DEF OnHold, Aboard
    <2> QED
        BY <1>1, <2>1, PromisedType DEF Promised, PromiseTyped
<1>4. ASSUME NEW q \in Orders, q # o, PromiseKept(q)
      PROVE  PromiseKept(q)'
    <2>1. board'[q] = board[q] /\ late'[q] = late[q]
        BY <1>1, <1>2, <1>4
    <2>2. LateAgrees(q)' /\ Pending(q)' = Pending(q)
        BY <1>4, <2>1 DEF PromiseKept, LateAgrees, Pending
    <2>3. Follows(board[q], board'[q], 0)
        BY <2>1, TypeParts, RowFollows
    <2>4. Promised(q)' + 0 <= Promised(q)
        BY <1>3
    <2> QED
        BY <1>4, <2>2, <2>3, <2>4, PromiseStep
<1>5. ASSUME PromiseKept(o), board[o] = late[o][2]
      PROVE  PromiseKept(o)'
    <2> DEFINE r == late[o][1]
    <2>1. board'[o] = r /\ late'[o][1] = NoRow /\ r \in Row /\ board[o] \in Row
        BY <1>1, <1>2
    <2>2. LateAgrees(o)' /\ Pending(o)' = 0
        BY <2>1 DEF LateAgrees, Pending, Asks, NoRow
    <2>3. /\ Past(r)
          /\ Asks(r) => Asks(board[o]) /\ r.good = board[o].good
        BY <1>1, <1>5 DEF PromiseKept, LateAgrees
    <2>4. ASSUME Asks(r)
          PROVE  r.rem + 0 + Promised(o)' <= Wanted[r.good]
        <3>1. Pending(o) = r.rem - board[o].rem
            BY <1>5, <2>4 DEF Pending
        <3>2. board[o].rem + Pending(o) + Promised(o) <= Wanted[board[o].good]
            BY <1>5, <2>3, <2>4 DEF PromiseKept
        <3>3. r # NoRow
            BY <2>4 DEF Asks, NoRow
        <3>4. r.rem \in Nat /\ board[o].rem \in Nat /\ Wanted[r.good] \in Nat
            BY <2>1, <3>3, RowParts, Limits
        <3> QED
            BY <1>3, <2>3, <2>4, <3>1, <3>2, <3>4
    <2> QED
        BY <2>1, <2>2, <2>3, <2>4 DEF PromiseKept
<1>6. BlankIsNew'
    <2>1. \A q \in Orders : board'[q].st = "none" => board[q].st = "none"
        BY <1>1, <1>2
    <2> QED
        BY <1>1, <2>1 DEF Promises, BlankIsNew
<1> QED
    BY <1>1, <1>4, <1>5, <1>6 DEF Promises

-----------------------------------------------------------------------------
(* Manifests.                                                              *)

LEMMA LineRemovedFor ==
    ASSUME NEW s \in Seq(Loads), NEW i \in 1..Len(s), NEW o
    PROVE  KgFor(s, o) = KgFor(RemoveAt(s, i), o)
                             + (IF s[i].order = o THEN s[i].kg ELSE 0)
<1> DEFINE n == Len(s)
           m == RemoveAt(s, i)
           k == [j \in 1..n |-> IF s[j].order = o THEN s[j].kg ELSE 0]
<1>1. n \in Nat /\ i \in 1..n /\ DOMAIN s = 1..n
      /\ \A j \in 1..n : s[j].kg \in Nat
    <2>1. \A l \in Loads : l.kg \in Nat
        BY DEF Loads
    <2> QED
        BY <2>1
<1>2. /\ DOMAIN m = 1..(n - 1)
      /\ \A j \in 1..(n - 1) : m[j] = IF j < i THEN s[j] ELSE s[j + 1]
    <2>1. m \in Seq(Loads) /\ Len(m) = n - 1
          /\ \A j \in 1..(n - 1) : m[j] = IF j < i THEN s[j] ELSE s[j + 1]
        BY RemovedParts
    <2> HIDE DEF m, n
    <2> QED
        BY <2>1
<1>3. k \in [1..n -> Nat] /\ k[i] = IF s[i].order = o THEN s[i].kg ELSE 0
    BY <1>1
<1>4. KgFor(s, o) = Sum(k)
    BY <1>1 DEF KgFor
<1> HIDE DEF m, n
<1>5. [j \in DOMAIN m |-> IF m[j].order = o THEN m[j].kg ELSE 0] = Without(n, k, i)
    <2>1. \A j \in 1..(n - 1) : (j < i => j \in 1..n) /\ (~(j < i) => j + 1 \in 1..n)
        BY <1>1
    <2>2. \A j \in 1..(n - 1) : (IF m[j].order = o THEN m[j].kg ELSE 0)
                                    = IF j < i THEN k[j] ELSE k[j + 1]
        BY <1>2, <2>1
    <2> HIDE DEF k
    <2> QED
        BY <1>2, <2>2 DEF Without
<1>6. KgFor(m, o) = Sum(Without(n, k, i))
    BY <1>5 DEF KgFor
<1> HIDE DEF k
<1>7. Sum(k) = Sum(Without(n, k, i)) + k[i]
    BY <1>1, <1>3, SumWithout
<1> QED
    BY <1>3, <1>4, <1>6, <1>7 DEF m

LEMMA LineChangedFor ==
    ASSUME NEW n \in Nat, NEW p \in [1..n -> Parcel], NEW q \in [1..n -> Parcel],
           NEW i \in 1..n, \A j \in 1..n : j # i => p[j] = q[j],
           q[i].order = p[i].order, NEW o
    PROVE  KgFor(p, o) + (IF p[i].order = o THEN q[i].kg ELSE 0)
               = KgFor(q, o) + (IF p[i].order = o THEN p[i].kg ELSE 0)
<1> DEFINE kp == [j \in 1..n |-> IF p[j].order = o THEN p[j].kg ELSE 0]
           kq == [j \in 1..n |-> IF q[j].order = o THEN q[j].kg ELSE 0]
<1>1. DOMAIN p = 1..n /\ DOMAIN q = 1..n
      /\ \A j \in 1..n : p[j].kg \in Nat /\ q[j].kg \in Nat
    BY DEF Parcel
<1>2. kp \in [1..n -> Nat] /\ kq \in [1..n -> Nat]
    BY <1>1
<1>3. \A j \in 1..n : j # i => kp[j] = kq[j]
    OBVIOUS
<1>4. kp[i] = (IF p[i].order = o THEN p[i].kg ELSE 0)
      /\ kq[i] = (IF p[i].order = o THEN q[i].kg ELSE 0)
    OBVIOUS
<1>5. KgFor(p, o) = Sum(kp) /\ KgFor(q, o) = Sum(kq)
    BY <1>1 DEF KgFor
<1> HIDE DEF kp, kq
<1>6. Sum(kp) + kq[i] = Sum(kq) + kp[i]
    BY <1>2, <1>3, LinesSum
<1> QED
    BY <1>4, <1>5, <1>6

\* The first lines weigh no more than all.
LEMMA FirstLines ==
    ASSUME NEW n \in Nat, NEW m \in 0..n, NEW p \in [1..m -> Parcel],
           NEW q \in [1..n -> Parcel], \A i \in 1..m : p[i] = q[i], NEW o
    PROVE  KgFor(p, o) <= KgFor(q, o)
<1> DEFINE kp == [j \in 1..m |-> IF p[j].order = o THEN p[j].kg ELSE 0]
           kq == [j \in 1..n |-> IF q[j].order = o THEN q[j].kg ELSE 0]
<1>1. /\ DOMAIN p = 1..m /\ DOMAIN q = 1..n /\ 1..m \subseteq 1..n
      /\ \A j \in 1..m : p[j].kg \in Nat
      /\ \A j \in 1..n : q[j].kg \in Nat
    BY DEF Parcel
<1>2. IsFiniteSet(1..m) /\ IsFiniteSet(1..n)
    BY FS_Interval
<1>3. Tally(kp) /\ Tally(kq) /\ DOMAIN kp \subseteq DOMAIN kq
    BY <1>1, <1>2 DEF Tally
<1>4. \A j \in DOMAIN kp : kp[j] <= kq[j]
    BY <1>1
<1>5. KgFor(p, o) = Sum(kp) /\ KgFor(q, o) = Sum(kq)
    BY <1>1 DEF KgFor
<1> HIDE DEF kp, kq
<1> QED
    BY <1>3, <1>4, <1>5, SumLess

\* A line among several, lowered, dropped or raised: what it had goes, what it
\* gets comes.
LEMMA LineEditedFor ==
    ASSUME NEW s \in Seq(Loads), NEW i \in 1..Len(s), NEW kg \in Nat, NEW o
    PROVE  LET m == IF kg = 0 THEN RemoveAt(s, i) ELSE [s EXCEPT ![i].kg = kg]
           IN  KgFor(s, o) + (IF s[i].order = o THEN kg ELSE 0)
                   = KgFor(m, o) + (IF s[i].order = o THEN s[i].kg ELSE 0)
<1> DEFINE l == s[i]
           n == Len(s)
           e == [l EXCEPT !.kg = kg]
           m == [s EXCEPT ![i] = e]
<1>1. /\ l \in Loads /\ n \in Nat /\ i \in 1..n /\ DOMAIN s = 1..n
      /\ s \in [1..n -> Parcel]
    BY LoadsParcels
<1>2. CASE kg = 0
    <2>1. KgFor(s, o) = KgFor(RemoveAt(s, i), o) + (IF l.order = o THEN l.kg ELSE 0)
        BY LineRemovedFor
    <2>2. KgFor(s, o) \in Nat
        BY <1>1, KgNat
    <2> HIDE DEF l, n
    <2> QED
        BY <1>2, <2>1, <2>2 DEF l
<1>3. CASE kg # 0
    <2>1. e \in Loads /\ e.kg = kg /\ e.order = l.order
        <3> HIDE DEF l
        <3> QED
            BY <1>1, <1>3, LoadKg
    <2> HIDE DEF e
    <2>2. /\ m \in Seq(Loads) /\ Len(m) = n /\ m[i] = e
          /\ \A j \in 1..n : j # i => s[j] = m[j]
        BY <1>1, <2>1
    <2>3. m \in [1..n -> Parcel]
        <3> HIDE DEF m, n
        <3> QED
            BY <2>2, LoadsParcels
    <2>4. m = [s EXCEPT ![i].kg = kg]
        BY DEF e
    <2> HIDE DEF m, n
    <2>5. KgFor(s, o) + (IF s[i].order = o THEN m[i].kg ELSE 0)
              = KgFor(m, o) + (IF s[i].order = o THEN s[i].kg ELSE 0)
        BY <1>1, <2>1, <2>2, <2>3, LineChangedFor
    <2> QED
        BY <1>3, <2>1, <2>2, <2>4, <2>5
<1> QED
    BY <1>2, <1>3

\* What becomes of the row of an order whose line is edited among several.
LineRow(r, more) ==
    IF more < 0 THEN GivenBack(r, -more) ELSE [r EXCEPT !.rem = r.rem - more]

LEMMA LineRowParts ==
    ASSUME NEW r \in Row, NEW more \in Int, more # 0,
           more > 0 => r.st # "none" /\ more <= r.rem
    PROVE  /\ LineRow(r, more) \in Row
           /\ LineRow(r, more).st = "none" <=> r.st = "none"
           /\ more < 0 => Follows(r, LineRow(r, more), -more)
           /\ more > 0 => /\ LineRow(r, more).rem = r.rem - more
                          /\ LineRow(r, more).st = r.st
                          /\ LineRow(r, more).good = r.good
                          /\ Past(r) => Past(LineRow(r, more))
<1>1. r.rem \in Nat
    BY RowParts
<1>2. CASE more < 0
    <2>1. -more \in Nat /\ LineRow(r, more) = GivenBack(r, -more)
        BY <1>2 DEF LineRow
    <2> QED
        BY <1>2, <2>1, BackFollows, BlankKept, RestoredType
<1>3. CASE more > 0
    <2>1. r # NoRow /\ r.rem - more \in Nat
        BY <1>1, <1>3, RowParts
    <2>2. LineRow(r, more) = [r EXCEPT !.rem = r.rem - more]
        BY SMTT(30), <1>3 DEF LineRow
    <2>3. LineRow(r, more) \in Row
        BY Zenon, <2>1, <2>2, RowChanged
    <2>4. DOMAIN r = {"st", "good", "rem", "left"}
        BY <2>1 DEF Row
    <2>5. /\ LineRow(r, more).rem = r.rem - more /\ LineRow(r, more).st = r.st
          /\ LineRow(r, more).good = r.good /\ LineRow(r, more).left = r.left
        BY <2>2, <2>4
    <2> QED
        BY <1>3, <2>3, <2>5 DEF Past
<1> QED
    BY <1>2, <1>3

\* A line among several is edited: what it gets comes from the order it is for.
LEMMA EditLineParts ==
    ASSUME TypeOK, TypeOK', NEW f \in Flights, NEW i \in 1..MaxLines,
           NEW kg \in 0..MaxWanted, EditLine(f, i, kg)
    PROVE  \E o \in Orders, more \in Int, b \in Boards :
             /\ more # 0 /\ (more > 0 => "shared" \in Edits)
             /\ more > 0 => board[o].st # "none" /\ more <= board[o].rem
             /\ b[o] = LineRow(board[o], more) /\ \A q \in Orders : q # o => b[q] = board[q]
             /\ \/ /\ Saves(b) /\ UNCHANGED <<hold, late, marred>>
                   /\ \A e \in Flights \ {f} : flight'[e] = flight[e]
                   /\ \A q \in Orders : KgFor(flight'[f].lines, q)
                            = KgFor(flight[f].lines, q) + (IF q = o THEN more ELSE 0)
                   /\ \A j \in DOMAIN flight'[f].lines : \E n \in DOMAIN flight[f].lines :
                         /\ flight'[f].lines[j].order = flight[f].lines[n].order
                         /\ flight'[f].lines[j].good = flight[f].lines[n].good
                \/ HalfSaves(b)
<1> DEFINE s == flight[f].lines
           l == s[i]
           o == l.order
           more == kg - l.kg
           r == LineRow(board[o], more)
           b == [board EXCEPT ![o] = r]
           m == IF kg = 0 THEN RemoveAt(s, i) ELSE [s EXCEPT ![i].kg = kg]
<1>1. /\ i \in DOMAIN s /\ more # 0
      /\ more > 0 => board[o].st # "none" /\ more <= board[o].rem
      /\ ~(more < 0) => "shared" \in Edits
    BY Zenon DEF EditLine
<1>2. \/ /\ Saves(b)
         /\ flight' = [flight EXCEPT ![f].lines = m]
         /\ UNCHANGED <<hold, late, marred>>
      \/ HalfSaves(b)
    BY Zenon DEF EditLine, LineRow
<1>3. flight[f] \in Sortie /\ s \in Seq(Loads) /\ i \in 1..Len(s) /\ l \in Loads
    <2>1. flight[f] \in Sortie /\ s \in Seq(Loads)
        BY TypeParts, SortieParts
    <2> QED
        BY <1>1, <2>1
<1>4. l.kg \in Nat /\ o \in Orders /\ kg \in Nat
    <2>1. kg \in Nat
        BY MaxWantedNat
    <2> HIDE DEF l
    <2> QED
        BY <1>3, <2>1 DEF Loads
<1>5. more \in Int /\ board[o] \in Row /\ more = kg - l.kg
    BY <1>4, TypeParts
<1>6. \A q \in Orders : KgFor(s, q) + (IF o = q THEN kg ELSE 0)
                            = KgFor(m, q) + (IF o = q THEN l.kg ELSE 0)
    BY <1>3, <1>4, LineEditedFor
<1>7. flight' = [flight EXCEPT ![f].lines = m] =>
        /\ flight'[f].lines = m /\ \A e \in Flights \ {f} : flight'[e] = flight[e]
    <2>1. flight \in [Flights -> Sortie] /\ "lines" \in DOMAIN flight[f]
        BY <1>3, TypeParts DEF Sortie, Grounded
    <2> HIDE DEF m
    <2> QED
        BY <2>1
<1>8. \A q \in Orders : KgFor(s, q) \in Nat
    BY <1>3, LoadNat
<1>9. \A j \in DOMAIN m : \E n \in DOMAIN s : m[j].order = s[n].order /\ m[j].good = s[n].good
    <2>1. CASE kg = 0
        <3> DEFINE n == Len(s)
        <3>1. n \in Nat /\ DOMAIN s = 1..n /\ i \in 1..n
            BY <1>3
        <3>2. /\ m \in Seq(Loads) /\ Len(m) = n - 1
              /\ \A j \in 1..(n - 1) : m[j] = IF j < i THEN s[j] ELSE s[j + 1]
            BY <1>3, <2>1, RemovedParts
        <3> HIDE DEF m, n
        <3>3. DOMAIN m = 1..(n - 1)
            BY <3>1, <3>2
        <3>4. \A j \in 1..(n - 1) : j \in 1..n /\ j + 1 \in 1..n
            BY <3>1
        <3> HIDE DEF s, l, o, more, r, b
        <3> QED
            BY <3>1, <3>2, <3>3, <3>4
    <2>2. CASE kg # 0
        <3> DEFINE e == [l EXCEPT !.kg = kg]
        <3>1. kg \in Nat /\ kg > 0 /\ l \in Loads
            BY <1>3, <1>4, <2>2
        <3>2. m = [s EXCEPT ![i] = e] /\ DOMAIN m = DOMAIN s
            BY <2>2
        <3>3. e.order = l.order /\ e.good = l.good
            <4> HIDE DEF l
            <4> QED
                BY <3>1, LoadKg
        <3> HIDE DEF m, e
        <3> QED
            BY <1>1, <3>2, <3>3
    <2> QED
        BY <2>1, <2>2
<1>10. s = flight[f].lines
    OBVIOUS
<1> HIDE DEF s, l, o, more, r, m
<1>11. r \in Row
    BY <1>1, <1>5, LineRowParts DEF r
<1>12. b \in Boards /\ b[o] = r /\ \A q \in Orders : q # o => b[q] = board[q]
    BY <1>4, <1>11, TypeParts DEF Boards
<1> HIDE DEF b
<1>13. CASE HalfSaves(b)
    BY <1>1, <1>4, <1>5, <1>12, <1>13 DEF r
<1>14. CASE /\ Saves(b) /\ flight' = [flight EXCEPT ![f].lines = m]
            /\ UNCHANGED <<hold, late, marred>>
    <2>1. flight'[f].lines = m /\ \A e \in Flights \ {f} : flight'[e] = flight[e]
        BY <1>7, <1>14
    <2>2. \A q \in Orders : KgFor(m, q) \in Nat
        <3>1. flight'[f] \in Sortie
            BY DEF TypeOK
        <3> QED
            BY <2>1, <3>1, LoadNat
    <2>3. \A q \in Orders : KgFor(m, q) = KgFor(s, q) + (IF q = o THEN more ELSE 0)
        BY <1>4, <1>5, <1>6, <1>8, <2>2
    <2> QED
        BY <1>1, <1>4, <1>5, <1>9, <1>10, <1>12, <1>14, <2>1, <2>3 DEF r
<1> QED
    BY Zenon, <1>2, <1>13, <1>14

LEMMA EditLinePromise ==
    ASSUME TypeOK, TypeOK', Promises, NEW f \in Flights, NEW i \in 1..MaxLines,
           NEW kg \in 0..MaxWanted, EditLine(f, i, kg)
    PROVE  Promises'
<1>1. PICK o \in Orders, more \in Int, b \in Boards :
         /\ more # 0
         /\ more > 0 => board[o].st # "none" /\ more <= board[o].rem
         /\ b[o] = LineRow(board[o], more) /\ \A q \in Orders : q # o => b[q] = board[q]
         /\ \/ /\ Saves(b) /\ UNCHANGED <<hold, late, marred>>
               /\ \A e \in Flights \ {f} : flight'[e] = flight[e]
               /\ \A q \in Orders : KgFor(flight'[f].lines, q)
                        = KgFor(flight[f].lines, q) + (IF q = o THEN more ELSE 0)
            \/ HalfSaves(b)
    BY EditLineParts
<1> DEFINE r == LineRow(board[o], more)
<1>2. /\ r \in Row /\ (r.st = "none" <=> board[o].st = "none") /\ b[o] = r
      /\ more < 0 => -more \in Nat /\ Follows(board[o], r, -more)
      /\ more > 0 => /\ r.rem = board[o].rem - more /\ r.st = board[o].st
                     /\ r.good = board[o].good /\ (Past(board[o]) => Past(r))
    BY <1>1, TypeParts, LineRowParts
<1> HIDE DEF r
<1>3. CASE HalfSaves(b)
    <2>1. \A q \in Orders : board[q].st = "none" => b[q].st = "none"
        BY <1>1, <1>2
    <2> QED
        BY <1>3, <2>1, HalfStep
<1>4. CASE /\ Saves(b) /\ UNCHANGED <<hold, late, marred>>
           /\ \A e \in Flights \ {f} : flight'[e] = flight[e]
           /\ \A q \in Orders : KgFor(flight'[f].lines, q)
                    = KgFor(flight[f].lines, q) + (IF q = o THEN more ELSE 0)
    <2>1. board' = b /\ \A q \in Orders : landed'[q] <= landed[q]
        BY <1>4, SavesBlank
    <2>2. ASSUME NEW q \in Orders
          PROVE  /\ q # o => Promised(q)' <= Promised(q)
                 /\ q = o => Promised(q)' <= Promised(q) + more
        <3>1. Aboard(q)' + KgFor(flight[f].lines, q)
                  = Aboard(q) + KgFor(flight'[f].lines, q)
            BY <1>4, CargoChanged
        <3>2. KgFor(flight[f].lines, q) \in Nat
            BY TypeParts, LoadNat
        <3>3. OnHold(q)' = OnHold(q)
            BY <1>4 DEF OnHold
        <3>4. /\ OnHold(q) \in Nat /\ Aboard(q) \in Nat /\ Aboard(q)' \in Nat
              /\ landed[q] \in Nat /\ landed'[q] \in Nat
            BY PromisedType, PromisedTypeNext DEF PromiseTyped
        <3>5. Aboard(q)' = Aboard(q) + (IF q = o THEN more ELSE 0)
            BY <1>4, <3>1, <3>2, <3>4
        <3> QED
            BY <2>1, <3>3, <3>4, <3>5 DEF Promised
    <2>3. ASSUME NEW q \in Orders, q # o, PromiseKept(q)
          PROVE  PromiseKept(q)'
        <3>1. Promised(q)' + 0 <= Promised(q)
            BY <2>2, <2>3, PromisedType, PromisedTypeNext DEF PromiseTyped
        <3>2. Follows(board[q], board'[q], 0)
            BY <1>1, <2>1, <2>3, TypeParts, RowFollows
        <3> QED
            BY <1>4, <2>3, <3>1, <3>2, PlainStep
    <2>4. ASSUME PromiseKept(o)
          PROVE  PromiseKept(o)'
        <3>1. board'[o] = r /\ UNCHANGED late
            BY <1>2, <1>4, <2>1
        <3>2. Promised(o) \in Nat /\ Promised(o)' \in Nat /\ board[o] \in Row
            BY PromisedType, PromisedTypeNext DEF PromiseTyped
        <3>3. Promised(o)' <= Promised(o) + more
            BY <2>2
        <3>4. CASE more < 0
            <4>1. Promised(o)' + (-more) <= Promised(o)
                BY <3>2, <3>3
            <4>2. -more \in Nat /\ Follows(board[o], board'[o], -more)
                BY <1>2, <3>1, <3>4
            <4> QED
                BY <2>4, <3>1, <4>1, <4>2, PlainStep
        <3>5. CASE more > 0 /\ Asks(board[o])
            <4>1. Promised(o)' + 0 <= Promised(o) + more
                BY <3>2, <3>3
            <4>2. Follows(board[o], board[o], 0)
                BY <3>2, RowFollows
            <4>3. /\ Past(board'[o]) /\ Asks(board'[o]) /\ board'[o].good = board[o].good
                  /\ board'[o].rem = board[o].rem - more
                BY <1>2, <2>4, <3>1, <3>5 DEF PromiseKept, Asks
            <4>4. more \in Nat
                BY <3>5
            <4> QED
                BY <2>4, <3>1, <3>2, <3>5, <4>1, <4>2, <4>3, <4>4, TakingStep
        <3>6. CASE more > 0 /\ ~Asks(board[o])
            BY <1>2, <2>4, <3>1, <3>6 DEF PromiseKept, LateAgrees, Pending, Asks
        <3> QED
            BY <1>1, <3>4, <3>5, <3>6
    <2>5. \A q \in Orders : PromiseKept(q) => PromiseKept(q)'
        BY <2>3, <2>4
    <2> QED
        BY <1>4, <2>5, DeskStep
<1> QED
    BY <1>1, <1>3, <1>4

\* What a trim cuts off a flight goes back to the order it is named after, or
\* is lost to the orders.
LEMMA TrimParts ==
    ASSUME TypeOK, NEW f \in Flights, NEW target \in Int, Trim(f, target)
    PROVE  \E k \in Nat :
             /\ flight[f].order \in Orders
             /\ SavesLater(flight[f].order, GivenBack(board[flight[f].order], k))
             /\ UNCHANGED <<hold, landed, marred>>
             /\ \A e \in Flights \ {f} : flight'[e] = flight[e]
             /\ \A q : /\ KgFor(flight'[f].lines, q) \in Nat
                      /\ KgFor(flight[f].lines, q) \in Nat
                      /\ KgFor(flight'[f].lines, q) + (IF q = flight[f].order THEN k ELSE 0)
                            <= KgFor(flight[f].lines, q)
             /\ \A i \in DOMAIN flight'[f].lines :
                   /\ i \in DOMAIN flight[f].lines
                   /\ flight'[f].lines[i].order = flight[f].lines[i].order
                   /\ flight'[f].lines[i].good = flight[f].lines[i].good
<1> DEFINE x == flight[f]
           s == x.lines
           n == Len(s)
           o == x.order
           kept(i) == Most(0, Least(s[i].kg, target - Before(s, i)))
           cut == [i \in DOMAIN s |-> [s[i] EXCEPT !.kg = @ - kept(i)]]
           keep == [i \in DOMAIN s |-> [s[i] EXCEPT !.kg = kept(i)]]
<1>1. /\ x # Grounded
      /\ SavesLater(o, GivenBack(board[o], KgFor(cut, o)))
      /\ UNCHANGED <<hold, landed, marred>>
    BY DEF Trim
<1>2. PICK m \in DOMAIN s :
         flight' = [flight EXCEPT ![f].lines = [i \in 1..m |-> [s[i] EXCEPT !.kg = kept(i)]]]
    BY DEF Trim
<1> DEFINE first == [i \in 1..m |-> [s[i] EXCEPT !.kg = kept(i)]]
<1>3. /\ x \in Sortie /\ o \in Orders
      /\ n \in Nat /\ DOMAIN s = 1..n /\ s \in [1..n -> Parcel]
    BY <1>1, TypeParts, SortieParts
<1>4. m \in 1..n /\ 1..m \subseteq 1..n /\ m \in 0..n
    BY <1>3
<1>5. \A i \in 1..n : s[i] \in Parcel /\ s[i].kg \in Nat
    <2>1. \A l \in Parcel : l.kg \in Nat
        BY DEF Parcel
    <2> HIDE DEF s
    <2> QED
        BY <1>3, <2>1
<1>6. \A i \in 1..n : /\ kept(i) \in Nat /\ kept(i) <= s[i].kg /\ s[i].kg - kept(i) \in Nat
    <2> SUFFICES ASSUME NEW i \in 1..n
                 PROVE  kept(i) \in Nat /\ kept(i) <= s[i].kg /\ s[i].kg - kept(i) \in Nat
        OBVIOUS
    <2>1. i \in 1..(n + 1)
        BY <1>3
    <2>2. Before(s, i) \in Nat /\ s[i].kg \in Nat
        BY <1>3, <1>5, <2>1, KgNat
    <2> HIDE DEF s
    <2> QED
        BY <2>2 DEF Most, Least
<1> HIDE DEF kept
<1>7. \A i \in 1..n : /\ cut[i] \in Parcel /\ keep[i] \in Parcel
                      /\ cut[i].kg = s[i].kg - kept(i) /\ keep[i].kg = kept(i)
                      /\ cut[i].good = s[i].good /\ keep[i].good = s[i].good
                      /\ cut[i].order = s[i].order /\ keep[i].order = s[i].order
    <2> SUFFICES ASSUME NEW i \in 1..n
                 PROVE  /\ cut[i] \in Parcel /\ keep[i] \in Parcel
                        /\ cut[i].kg = s[i].kg - kept(i) /\ keep[i].kg = kept(i)
                        /\ cut[i].good = s[i].good /\ keep[i].good = s[i].good
                        /\ cut[i].order = s[i].order /\ keep[i].order = s[i].order
        OBVIOUS
    <2>1. cut[i] = [s[i] EXCEPT !.kg = s[i].kg - kept(i)]
          /\ keep[i] = [s[i] EXCEPT !.kg = kept(i)]
        BY <1>3
    <2>2. s[i] \in Parcel /\ kept(i) \in Nat /\ s[i].kg - kept(i) \in Nat
        BY <1>5, <1>6
    <2> HIDE DEF cut, keep, s
    <2> QED
        BY <2>1, <2>2, ParcelKg
<1>8. cut \in [1..n -> Parcel] /\ keep \in [1..n -> Parcel]
    BY <1>3, <1>7
<1>9. \A i \in 1..m : first[i] = keep[i]
    BY <1>3, <1>4
<1>10. first \in [1..m -> Parcel]
    BY <1>4, <1>8, <1>9
<1>11. /\ flight'[f].lines = first /\ \A e \in Flights \ {f} : flight'[e] = flight[e]
    <2>1. flight' = [flight EXCEPT ![f].lines = first]
        BY <1>2 DEF kept
    <2>2. flight \in [Flights -> Sortie] /\ "lines" \in DOMAIN flight[f]
        BY <1>3, TypeParts DEF Sortie, Grounded
    <2> HIDE DEF first
    <2> QED
        BY <2>1, <2>2
<1>12. KgFor(cut, o) \in Nat /\ \A q \in Orders : KgFor(cut, q) \in Nat
    BY <1>3, <1>8, KgNat
<1>13. \A q : KgFor(s, q) = KgFor(keep, q) + KgFor(cut, q)
    <2> HIDE DEF s, keep, cut, n
    <2>1. \A i \in 1..n : /\ s[i].kg = keep[i].kg + cut[i].kg
                          /\ keep[i].good = s[i].good /\ cut[i].good = s[i].good
                          /\ keep[i].order = s[i].order /\ cut[i].order = s[i].order
        BY <1>5, <1>6, <1>7
    <2> QED
        BY <1>3, <1>8, <2>1, KgDivided
<1>20. \A i \in 1..m : /\ i \in 1..n /\ first[i].order = s[i].order
                       /\ first[i].good = s[i].good
    BY <1>4, <1>7, <1>9
<1>21. DOMAIN flight'[f].lines = 1..m
    BY <1>11
<1> HIDE DEF s, keep, cut, n, first
<1>14. \A q : /\ KgFor(first, q) <= KgFor(keep, q)
              /\ KgFor(first, q) \in Nat /\ KgFor(keep, q) \in Nat
    <2>1. m \in Nat
        BY <1>3, <1>4
    <2>2. \A q : KgFor(first, q) <= KgFor(keep, q)
        BY <1>3, <1>4, <1>8, <1>9, <1>10, FirstLines
    <2>3. \A q : KgFor(first, q) \in Nat /\ KgFor(keep, q) \in Nat
        BY <1>3, <1>8, <1>10, <2>1, KgNat
    <2> QED
        BY <2>2, <2>3
<1> DEFINE k == KgFor(cut, o)
<1>15. s = flight[f].lines /\ k = KgFor(cut, o) /\ o = flight[f].order
    BY DEF s
<1>16. SavesLater(o, GivenBack(board[o], k)) /\ k \in Nat
    BY <1>1, <1>12
<1>17. \A q : KgFor(cut, q) \in Nat /\ KgFor(s, q) \in Nat
    BY <1>3, <1>8, KgNat
<1> HIDE DEF o, x, k
<1>18. \A q : KgFor(first, q) + (IF q = o THEN k ELSE 0) <= KgFor(s, q)
    BY <1>13, <1>14, <1>15, <1>16, <1>17
<1>19. \A i \in DOMAIN flight'[f].lines :
          /\ i \in DOMAIN flight[f].lines
          /\ flight'[f].lines[i].order = flight[f].lines[i].order
          /\ flight'[f].lines[i].good = flight[f].lines[i].good
    BY <1>3, <1>11, <1>15, <1>20, <1>21
<1> QED
    BY <1>1, <1>3, <1>11, <1>14, <1>15, <1>16, <1>17, <1>18, <1>19

LEMMA TrimPromise ==
    ASSUME TypeOK, TypeOK', Promises, NEW f \in Flights, NEW target \in Int,
           Trim(f, target)
    PROVE  Promises'
<1>1. PICK k \in Nat :
         /\ flight[f].order \in Orders
         /\ SavesLater(flight[f].order, GivenBack(board[flight[f].order], k))
         /\ UNCHANGED <<hold, landed, marred>>
         /\ \A e \in Flights \ {f} : flight'[e] = flight[e]
         /\ \A q : /\ KgFor(flight'[f].lines, q) \in Nat
                  /\ KgFor(flight[f].lines, q) \in Nat
                  /\ KgFor(flight'[f].lines, q) + (IF q = flight[f].order THEN k ELSE 0)
                        <= KgFor(flight[f].lines, q)
    BY TrimParts
<1> DEFINE o == flight[f].order
           r == GivenBack(board[o], k)
<1>2. o = flight[f].order /\ SavesLater(o, r) /\ o \in Orders
    BY <1>1
<1> HIDE DEF o
<1>3. /\ r \in Row /\ Follows(board[o], r, k) /\ (r.st = "none" <=> board[o].st = "none")
      /\ Grows(board[o], r)
    BY <1>2, TypeParts, RestoredType, BackFollows, BackGrows, BlankKept
<1> HIDE DEF r
<1>4. ASSUME NEW q \in Orders, PromiseKept(q)
      PROVE  PromiseKept(q)'
    <2>1. Aboard(q)' + KgFor(flight[f].lines, q) = Aboard(q) + KgFor(flight'[f].lines, q)
        BY <1>1, CargoChanged
    <2>2. OnHold(q)' = OnHold(q) /\ landed'[q] = landed[q]
        BY <1>1 DEF OnHold
    <2>3. /\ Aboard(q) \in Nat /\ Aboard(q)' \in Nat /\ OnHold(q) \in Nat
          /\ landed[q] \in Nat
        BY PromisedType, PromisedTypeNext DEF PromiseTyped
    <2>4. Promised(q)' + (IF q = o THEN k ELSE 0) <= Promised(q)
        BY <1>1, <1>2, <2>1, <2>2, <2>3 DEF Promised
    <2> QED
        BY <1>2, <1>3, <1>4, <2>4, LaterStep
<1>5. \A q \in Orders : board'[q].st = "none" => board[q].st = "none"
    BY <1>2, <1>3, LaterBlank
<1> QED
    BY <1>1, <1>4, <1>5 DEF Promises, BlankIsNew

\* The row of the order of an only line, before and after the edit.
PartRow(r, more) == IF more < 0 THEN GivenBack(r, -more) ELSE Taken(r, more)

LEMMA PartRowParts ==
    ASSUME NEW r \in Row, NEW more \in Int, more # 0, r.st # "none",
           more > 0 => Asks(r) /\ more <= r.rem
    PROVE  /\ PartRow(r, more) \in Row
           /\ more < 0 => /\ Follows(r, PartRow(r, more), -more)
                          /\ r.st = "expired" /\ r.left > 0 =>
                                PartRow(r, more).st = "expired" /\ PartRow(r, more).left > 0
           /\ more > 0 => /\ Past(PartRow(r, more)) /\ Asks(PartRow(r, more))
                          /\ PartRow(r, more).good = r.good
                          /\ PartRow(r, more).rem = r.rem - more
<1>1. r.rem \in Nat /\ r # NoRow /\ DOMAIN r = {"st", "good", "rem", "left"}
    BY RowParts DEF Row, NoRow
<1>2. CASE more < 0
    <2> DEFINE k == -more
    <2>1. k \in Nat /\ PartRow(r, more) = GivenBack(r, k)
        BY <1>2 DEF PartRow
    <2> HIDE DEF k
    <2>2. GivenBack(r, k) \in Row /\ Follows(r, GivenBack(r, k), k)
        BY <2>1, BackFollows, RestoredType
    <2>3. r.st = "expired" => GivenBack(r, k).st = "expired" /\ GivenBack(r, k).left = r.left
        BY <1>1 DEF GivenBack
    <2> QED
        BY <1>2, <2>1, <2>2, <2>3 DEF k
<1>3. CASE more > 0
    <2>1. more \in Nat /\ more <= r.rem /\ Asks(r) /\ PartRow(r, more) = Taken(r, more)
        BY <1>3 DEF PartRow
    <2>2. Taken(r, more) \in Row
        BY <2>1, TakenType
    <2>3. /\ Past(Taken(r, more)) /\ Asks(Taken(r, more))
          /\ Taken(r, more).good = r.good /\ Taken(r, more).rem = r.rem - more
        BY <2>1, TakenFollows
    <2> QED
        BY <1>3, <2>1, <2>2, <2>3
<1> QED
    BY <1>2, <1>3

\* The only line of a flight is edited, against an order that is on the board
\* when it is listed; the line may have been one for another order.
LEMMA EditOnlyParts ==
    ASSUME TypeOK, TypeOK', NEW f \in Flights, NEW kg \in 1..MaxWanted,
           EditOnly(f, kg)
    PROVE  \E b1 \in Boards, b \in Boards, o \in Orders, w \in Orders, more \in Int :
             /\ b1 \in Watched(board, hold, flight, {}) /\ b1 \in Ensured(Swept(board))
             /\ {} # Companies /\ {o, w} \subseteq Named(flight[f])
             /\ more # 0 /\ b1[o].st # "none"
             /\ more > 0 => Asks(b1[o]) /\ more <= b1[o].rem /\ b1[o].left > 0
             /\ b[o] = PartRow(b1[o], more) /\ \A q \in Orders : q # o => b[q] = b1[q]
             /\ \/ /\ Saves(b) /\ UNCHANGED <<hold, late>>
                   /\ marred' = (marred \cup (IF w = o THEN {} ELSE {o, w}) \cup Cut(b)) \ Fresh(b)
                   /\ \A e \in Flights \ {f} : flight'[e] = flight[e]
                   /\ \A q \in Orders :
                         /\ q \notin {o, w} => KgFor(flight'[f].lines, q) = KgFor(flight[f].lines, q)
                         /\ q = o /\ w = o => KgFor(flight'[f].lines, q)
                                                = KgFor(flight[f].lines, q) + more
                   /\ \A i \in DOMAIN flight'[f].lines : \E j \in DOMAIN flight[f].lines :
                         /\ flight'[f].lines[i].order = o /\ flight[f].lines[j].order = w
                         /\ flight'[f].lines[i].good = flight[f].lines[j].good
                \/ HalfSaves(b)
<1> DEFINE x == flight[f]
           l == x.lines[1]
           o == x.order
           w == l.order
           more == kg - l.kg
           M == IF w = o THEN {} ELSE {o, w}
<1>1. Len(x.lines) = 1 /\ more # 0
    BY Zenon DEF EditOnly
<1>2. PICK b1 \in Ensured(Swept(board)) :
             /\ b1[o].st # "none"
             /\ more > 0 => /\ b1[o].left > 0 /\ b1[o].st \in {"open", "filled"}
                            /\ more <= Least(b1[o].rem, stock[x.by][l.good])
             /\ LET b == [b1 EXCEPT ![o] = PartRow(@, more)]
                IN \/ /\ Saves(b)
                      /\ flight' = [flight EXCEPT ![f].lines =
                           <<[l EXCEPT !.order = o, !.kg = kg,
                                       !.until = Most(0, Least(l.until, b1[o].left))]>>]
                      /\ marred' = (marred \cup Cut(b) \cup M) \ Fresh(b)
                      /\ UNCHANGED <<hold, late>>
                   \/ HalfSaves(b)
    BY Zenon DEF EditOnly, PartRow
<1> DEFINE p == PartRow(b1[o], more)
           b == [b1 EXCEPT ![o] = p]
           l2 == [l EXCEPT !.order = o, !.kg = kg,
                           !.until = Most(0, Least(l.until, b1[o].left))]
<1>3. /\ x \in Sortie /\ x # Grounded /\ x.by \in Companies /\ o \in Orders
      /\ l \in Loads /\ x.lines = <<l>>
    <2>1. x \in Sortie /\ x.lines \in Seq(Loads)
        BY TypeParts, SortieParts
    <2>2. x # Grounded
        BY <1>1 DEF Grounded
    <2>3. l \in Loads /\ x.lines = <<l>>
        BY <1>1, <2>1
    <2> QED
        BY <2>1, <2>2, <2>3, SortieParts
<1>4. /\ l.good \in Goods /\ l.kg \in Nat /\ l.until \in 0..Sail /\ kg \in Nat /\ kg > 0
      /\ w \in Orders
    BY <1>3, MaxWantedNat DEF Loads
<1>5. /\ b1 \in Boards /\ b1 \in Watched(board, hold, flight, {})
      /\ b1 \in Ensured(Swept(board)) /\ {} # Companies
    <2>1. Swept(board) \in Boards
        BY TypeParts, SweptFollows
    <2>2. {} # Companies
        BY <1>3
    <2> QED
        BY <2>1, <2>2, EnsuredType DEF Watched
<1>7. b1[o] \in Row /\ b1[o].left \in Int /\ b1[o].rem \in Nat
    <2>1. b1[o] \in Row
        BY <1>3, <1>5 DEF Boards
    <2> HIDE DEF o
    <2> QED
        BY <1>2, <2>1, RowParts
<1>8. more \in Int /\ (more > 0 => more <= b1[o].rem /\ Asks(b1[o]))
    <2>1. stock[x.by][l.good] \in Nat
        BY <1>3, <1>4, TypeParts
    <2>2. more > 0 => more <= Least(b1[o].rem, stock[x.by][l.good])
                      /\ b1[o].st \in {"open", "filled"}
        BY <1>2
    <2>3. more \in Int
        BY <1>4
    <2> HIDE DEF more, x, l, o
    <2> QED
        BY <1>7, <2>1, <2>2, <2>3 DEF Least, Asks
<1>9. {o, w} \subseteq Named(flight[f])
    <2>1. x.lines[1].order = w /\ 1 \in DOMAIN x.lines
        BY <1>3
    <2> QED
        BY <2>1 DEF Named
<1>10. /\ l2 \in Loads /\ l2.kg = kg /\ l2.order = o /\ l2.good = l.good
    <2>1. Most(0, Least(l.until, b1[o].left)) \in 0..Sail
        <3> HIDE DEF l, o
        <3> QED
            BY <1>4, <1>7, Limits DEF Most, Least
    <2> DEFINE until == Most(0, Least(l.until, b1[o].left))
    <2>2. l2 = [l EXCEPT !.order = o, !.kg = kg, !.until = until]
        OBVIOUS
    <2> HIDE DEF l, o, l2, until
    <2>3. l \in Loads /\ o \in Orders /\ kg \in Nat \ {0} /\ until \in 0..Sail
        BY <1>3, <1>4, <2>1 DEF until
    <2> QED
        BY <2>2, <2>3 DEF Loads
<1>11. \A q \in Orders : /\ KgFor(x.lines, q) = IF w = q THEN l.kg ELSE 0
                         /\ KgFor(<<l2>>, q) = IF o = q THEN kg ELSE 0
    <2> HIDE DEF l, l2, o, x, w
    <2>1. /\ \A q : KgFor(<<l>>, q) = IF l.order = q THEN l.kg ELSE 0
          /\ \A q : KgFor(<<l2>>, q) = IF l2.order = q THEN l2.kg ELSE 0
        BY <1>3, <1>10, OneLineFor
    <2> QED
        BY <1>3, <1>10, <2>1 DEF w
<1>12. flight' = [flight EXCEPT ![f].lines = <<l2>>] =>
         /\ flight'[f].lines = <<l2>> /\ \A e \in Flights \ {f} : flight'[e] = flight[e]
    <2>1. flight \in [Flights -> Sortie] /\ "lines" \in DOMAIN flight[f]
        BY <1>3, TypeParts DEF Sortie, Grounded
    <2> HIDE DEF l2
    <2> QED
        BY <2>1
<1>13. \/ /\ Saves(b)
          /\ flight' = [flight EXCEPT ![f].lines = <<l2>>]
          /\ marred' = (marred \cup M \cup Cut(b)) \ Fresh(b)
          /\ UNCHANGED <<hold, late>>
       \/ HalfSaves(b)
    <2>1. \/ /\ Saves(b)
             /\ flight' = [flight EXCEPT ![f].lines = <<l2>>]
             /\ marred' = (marred \cup Cut(b) \cup M) \ Fresh(b)
             /\ UNCHANGED <<hold, late>>
          \/ HalfSaves(b)
        BY <1>2
    <2> HIDE DEF b, l2, M
    <2> QED
        BY <2>1
<1>6. more > 0 => b1[o].left > 0
    BY <1>2
<1>14. /\ b1[o].st # "none" /\ w = l.order /\ more = kg - l.kg
       /\ M = IF w = o THEN {} ELSE {o, w}
       /\ x.lines = flight[f].lines
    BY <1>2
<1> HIDE DEF x, l, o, w, more, M, p, l2
<1>15. p \in Row /\ p = PartRow(b1[o], more)
    BY <1>1, <1>7, <1>8, <1>14, PartRowParts DEF p
<1>16. b \in Boards /\ b[o] = p /\ \A q \in Orders : q # o => b[q] = b1[q]
    BY <1>3, <1>5, <1>15 DEF Boards
<1> HIDE DEF b
<1>17. /\ more # 0 /\ more \in Int /\ b1[o].st # "none"
       /\ more > 0 => Asks(b1[o]) /\ more <= b1[o].rem /\ b1[o].left > 0
       /\ b[o] = PartRow(b1[o], more)
    BY <1>1, <1>6, <1>8, <1>14, <1>15, <1>16
<1>18. CASE HalfSaves(b)
    BY <1>3, <1>4, <1>5, <1>9, <1>16, <1>17, <1>18
<1>19. CASE /\ Saves(b)
            /\ flight' = [flight EXCEPT ![f].lines = <<l2>>]
            /\ marred' = (marred \cup M \cup Cut(b)) \ Fresh(b)
            /\ UNCHANGED <<hold, late>>
    <2>1. flight'[f].lines = <<l2>> /\ \A e \in Flights \ {f} : flight'[e] = flight[e]
        BY <1>12, <1>19
    <2>2. ASSUME NEW q \in Orders
          PROVE  /\ q \notin {o, w} => KgFor(<<l2>>, q) = KgFor(x.lines, q)
                 /\ q = o /\ w = o => KgFor(<<l2>>, q) = KgFor(x.lines, q) + more
        BY <1>4, <1>11, <1>14
    <2>3. /\ DOMAIN <<l2>> = {1} /\ <<l2>>[1] = l2 /\ 1 \in DOMAIN x.lines
          /\ x.lines[1] = l
        BY <1>3
    <2>4. \A i \in DOMAIN flight'[f].lines : \E j \in DOMAIN flight[f].lines :
             /\ flight'[f].lines[i].order = o /\ flight[f].lines[j].order = w
             /\ flight'[f].lines[i].good = flight[f].lines[j].good
        BY <1>10, <1>14, <2>1, <2>3
    <2>5. marred' = (marred \cup (IF w = o THEN {} ELSE {o, w}) \cup Cut(b)) \ Fresh(b)
        BY <1>14, <1>19
    <2> QED
        BY <1>3, <1>4, <1>5, <1>9, <1>14, <1>16, <1>17, <1>19, <2>1, <2>2, <2>4, <2>5
<1> QED
    BY Zenon, <1>13, <1>18, <1>19

LEMMA EditOnlyPromise ==
    ASSUME TypeOK, TypeOK', Promises, NEW f \in Flights, NEW kg \in 1..MaxWanted,
           EditOnly(f, kg)
    PROVE  Promises'
<1>1. PICK b1 \in Boards, b \in Boards, o \in Orders, w \in Orders, more \in Int :
         /\ b1 \in Watched(board, hold, flight, {})
         /\ {o, w} \subseteq Named(flight[f])
         /\ more # 0 /\ b1[o].st # "none"
         /\ more > 0 => Asks(b1[o]) /\ more <= b1[o].rem
         /\ b[o] = PartRow(b1[o], more) /\ \A q \in Orders : q # o => b[q] = b1[q]
         /\ \/ /\ Saves(b) /\ UNCHANGED <<hold, late>>
               /\ marred' = (marred \cup (IF w = o THEN {} ELSE {o, w}) \cup Cut(b)) \ Fresh(b)
               /\ \A e \in Flights \ {f} : flight'[e] = flight[e]
               /\ \A q \in Orders :
                     /\ q \notin {o, w} => KgFor(flight'[f].lines, q) = KgFor(flight[f].lines, q)
                     /\ q = o /\ w = o => KgFor(flight'[f].lines, q)
                                            = KgFor(flight[f].lines, q) + more
            \/ HalfSaves(b)
    BY EditOnlyParts
<1> DEFINE M == IF w = o THEN {} ELSE {o, w}
<1>2. \A q \in Orders : \/ Follows(board[q], b1[q], 0)
                        \/ board[q].st # "none" /\ q \in Cut(b1)
                        \/ Listed(q, board[q], b1[q])
    BY <1>1, TypeParts, WatchedFollows
<1>3. \A q \in {o, w} : \A r, s : ~Listed(q, r, s)
    BY <1>1 DEF Listed
<1> DEFINE p == PartRow(b1[o], more)
<1>4. /\ p \in Row /\ b1[o] \in Row /\ b[o] = p
      /\ more < 0 => /\ Follows(b1[o], p, -more)
                     /\ b1[o].st = "expired" /\ b1[o].left > 0 =>
                           p.st = "expired" /\ p.left > 0
      /\ more > 0 => /\ Past(p) /\ Asks(p)
                     /\ p.good = b1[o].good /\ p.rem = b1[o].rem - more
    <2>1. b1[o] \in Row
        BY DEF Boards
    <2> QED
        BY <1>1, <2>1, PartRowParts
<1> HIDE DEF p
<1>5. \/ Follows(board[o], b1[o], 0) /\ board[o].st # "none"
      \/ board[o].st # "none" /\ o \in Cut(b)
    <2>1. CASE Follows(board[o], b1[o], 0)
        BY <1>1, <2>1 DEF Follows
    <2>2. CASE board[o].st # "none" /\ o \in Cut(b1)
        <3>1. b1[o].st = "expired" /\ b1[o].left > 0
            BY <2>2 DEF Cut
        <3>2. more < 0
            BY <1>1, <3>1 DEF Asks
        <3> QED
            BY <1>4, <2>2, <3>1, <3>2 DEF Cut
    <2> QED
        BY <1>2, <1>3, <2>1, <2>2
<1>6. \A q \in Orders \ {o} : \/ Follows(board[q], b[q], 0)
                              \/ board[q].st # "none" /\ q \in Cut(b)
                              \/ Listed(q, board[q], b[q])
    BY <1>1, <1>2 DEF Cut
<1>7. CASE HalfSaves(b)
    <2>1. ASSUME NEW q \in Orders, board[q].st = "none", b[q].st # "none"
          PROVE  Listed(q, board[q], b[q])
        BY <1>5, <1>6, <2>1 DEF Follows
    <2> QED
        BY <1>7, <2>1, HalfStep
<1>8. CASE /\ Saves(b) /\ UNCHANGED <<hold, late>>
           /\ marred' = (marred \cup M \cup Cut(b)) \ Fresh(b)
           /\ \A e \in Flights \ {f} : flight'[e] = flight[e]
           /\ \A q \in Orders :
                 /\ q \notin {o, w} => KgFor(flight'[f].lines, q) = KgFor(flight[f].lines, q)
                 /\ q = o /\ w = o => KgFor(flight'[f].lines, q)
                                        = KgFor(flight[f].lines, q) + more
    <2>1. board' = b /\ \A q \in Orders : landed'[q] <= landed[q]
        BY <1>8, SavesBlank
    <2>2. ASSUME NEW q \in Orders
          PROVE  /\ OnHold(q)' = OnHold(q) /\ OnHold(q) \in Nat
                 /\ q \notin {o, w} => Aboard(q)' = Aboard(q)
                 /\ q = o /\ w = o => Aboard(q)' = Aboard(q) + more
                 /\ Aboard(q) \in Nat /\ Aboard(q)' \in Nat
                 /\ landed[q] \in Nat /\ landed'[q] \in Nat /\ landed'[q] <= landed[q]
        <3>1. Aboard(q)' + KgFor(flight[f].lines, q)
                  = Aboard(q) + KgFor(flight'[f].lines, q)
            BY <1>8, CargoChanged
        <3>2. KgFor(flight[f].lines, q) \in Nat
            BY TypeParts, LoadNat
        <3>3. OnHold(q)' = OnHold(q)
            BY <1>8 DEF OnHold
        <3>4. /\ OnHold(q) \in Nat /\ Aboard(q) \in Nat /\ Aboard(q)' \in Nat
              /\ landed[q] \in Nat /\ landed'[q] \in Nat
            BY PromisedType, PromisedTypeNext DEF PromiseTyped
        <3> QED
            BY <1>8, <2>1, <3>1, <3>2, <3>3, <3>4
    <2>3. ASSUME NEW q \in Orders, q # o, q \notin M, PromiseKept(q),
                 Follows(board[q], b[q], 0)
          PROVE  PromiseKept(q)'
        <3>1. Promised(q)' + 0 <= Promised(q)
            BY <2>2, <2>3 DEF Promised
        <3> QED
            BY <1>8, <2>1, <2>3, <3>1, PlainStep
    <2>4. ASSUME o \notin M, PromiseKept(o), Follows(board[o], b1[o], 0)
          PROVE  PromiseKept(o)'
        <3>1. w = o
            BY <2>4
        <3>2. /\ Promised(o) \in Nat /\ Promised(o)' \in Nat
              /\ Promised(o)' <= Promised(o) + more
            BY <2>2, <3>1 DEF Promised
        <3>3. board'[o] = p /\ UNCHANGED late /\ board[o] \in Row
            BY <1>4, <1>8, <2>1, TypeParts
        <3>4. CASE more < 0
            <4>1. -more \in Nat /\ Promised(o)' + (-more) <= Promised(o)
                BY <3>2, <3>4
            <4>2. Follows(board[o], p, 0 + (-more))
                BY <1>4, <2>4, <3>3, <3>4, <4>1, FollowsTwice
            <4>3. Follows(board[o], board'[o], -more)
                BY <3>3, <4>2
            <4> QED
                BY <2>4, <3>3, <4>1, <4>3, PlainStep
        <3>5. CASE more > 0
            <4>1. more \in Nat /\ Promised(o)' + 0 <= Promised(o) + more
                BY <3>2, <3>5
            <4>2. /\ Past(board'[o]) /\ Asks(board'[o]) /\ Asks(b1[o])
                  /\ board'[o].good = b1[o].good /\ board'[o].rem = b1[o].rem - more
                BY <1>1, <1>4, <3>3, <3>5
            <4> QED
                BY <1>4, <2>4, <3>3, <4>1, <4>2, TakingStep
        <3> QED
            BY <1>1, <3>4, <3>5
    <2>5. ASSUME NEW q \in Orders
          PROVE  \/ board[q].st # "none" /\ q \in Cut(b)
                 \/ Listed(q, board[q], b[q])
                 \/ /\ board[q].st = "none" => b[q].st = "none"
                    /\ q \notin M /\ PromiseKept(q) => PromiseKept(q)'
        <3>1. CASE q = o
            BY <1>5, <2>4, <3>1
        <3>2. CASE q # o
            <4>1. CASE Follows(board[q], b[q], 0)
                BY <2>3, <3>2, <4>1 DEF Follows
            <4> QED
                BY <1>6, <3>2, <4>1
        <3> QED
            BY <3>1, <3>2
    <2>6. ASSUME NEW q \in Orders, Listed(q, board[q], b[q])
          PROVE  OnHold(q)' <= OnHold(q) /\ Aboard(q)' <= Aboard(q)
        <3>1. q \notin {o, w}
            BY <1>3, <2>6
        <3> QED
            BY <2>2, <3>1
    <2>7. \A q \in Orders : late'[q][1].st = "none" <=> late[q][1].st = "none"
        BY <1>8
    <2> QED
        BY <1>8, <2>5, <2>6, <2>7, FullStep
<1> QED
    BY <1>1, <1>7, <1>8

-----------------------------------------------------------------------------
(* No order is promised twice.                                             *)

LEMMA PromiseInit == Init => Promises
<1> SUFFICES ASSUME Init PROVE Promises
    OBVIOUS
<1>1. \A o \in Orders : /\ board[o] = NoRow /\ late[o][1] = NoRow /\ landed[o] = 0
    BY DEF Init
<1> QED
    BY <1>1 DEF Promises, BlankIsNew, PromiseKept, Past, LateAgrees, Asks, NoRow

LEMMA PromiseNext ==
    ASSUME TypeOK, Promises, [Next]_vars
    PROVE  Promises'
<1>0. TypeOK'
    BY DeskNext
<1>1. CASE \E c \in Companies : Look(c) \/ OpenPorts(c) \/ Pulse(c)
    BY <1>0, <1>1, LookPromise, OpenPortsPromise, PulsePromise
<1>2. CASE \E c \in Companies, o \in Orders :
              Hold(c, o) \/ CancelHold(c, o) \/ \E f \in Flights : FlyNow(c, o, f)
    BY <1>0, <1>2, HoldPromise, CancelHoldPromise, FlyNowPromise
<1>3. CASE \E c \in Companies, f \in Flights : Dispatch(c, f)
    BY <1>0, <1>3, DispatchPromise
<1>4. CASE \E f \in Flights :
              \/ Cancel(f) \/ Settle(f) \/ Impact(f)
              \/ \E kg \in 1..MaxWanted : EditOnly(f, kg)
              \/ \E i \in 1..MaxLines, kg \in 0..MaxWanted : EditLine(f, i, kg)
              \/ \E target \in 1..(MaxLines * MaxWanted) : Trim(f, target)
    <2>1. PICK f \in Flights :
              \/ Cancel(f) \/ Settle(f) \/ Impact(f)
              \/ \E kg \in 1..MaxWanted : EditOnly(f, kg)
              \/ \E i \in 1..MaxLines, kg \in 0..MaxWanted : EditLine(f, i, kg)
              \/ \E target \in 1..(MaxLines * MaxWanted) : Trim(f, target)
        BY <1>4
    <2>2. CASE Cancel(f) \/ Settle(f) \/ Impact(f)
        BY <1>0, <2>2, CancelPromise, SettlePromise, ImpactPromise
    <2>3. CASE \E kg \in 1..MaxWanted : EditOnly(f, kg)
        BY <1>0, <2>3, EditOnlyPromise
    <2>4. CASE \E i \in 1..MaxLines, kg \in 0..MaxWanted : EditLine(f, i, kg)
        BY <1>0, <2>4, EditLinePromise
    <2>5. CASE \E target \in 1..(MaxLines * MaxWanted) : Trim(f, target)
        <3>1. PICK target \in Int : Trim(f, target)
            BY <2>5
        <3> QED
            BY <1>0, <3>1, TrimPromise
    <2> QED
        BY <2>1, <2>2, <2>3, <2>4, <2>5
<1>5. CASE \E o \in Orders : LateSave(o)
    BY <1>0, <1>5, LateSavePromise
<1>6. CASE \E c \in Companies, g \in Goods : Deposit(c, g) \/ Abandon(c, g)
    <2>1. UNCHANGED <<board, hold, flight, late, landed, marred>>
        BY <1>6 DEF Deposit, Abandon
    <2> QED
        BY <1>0, <2>1, CargoPromise
<1>7. CASE UNCHANGED vars
    <2>1. UNCHANGED <<board, hold, flight, late, landed, marred>>
        BY <1>7 DEF vars, row
    <2> QED
        BY <1>0, <2>1, CargoPromise
<1> QED
    BY <1>1, <1>2, <1>3, <1>4, <1>5, <1>6, <1>7 DEF Next

LEMMA PromisesImply == TypeOK /\ Promises => NeverOverPromised
<1> SUFFICES ASSUME TypeOK, Promises, NEW o \in Orders \ marred,
                    board[o].st \in {"open", "filled"}
             PROVE  board[o].rem + OnHold(o) + Aboard(o) + landed[o]
                        <= Wanted[board[o].good]
    BY DEF NeverOverPromised
<1>1. PromiseKept(o) /\ Asks(board[o])
    BY DEF Promises, Asks
<1>2. /\ OnHold(o) \in Nat /\ Aboard(o) \in Nat /\ landed[o] \in Nat
      /\ board[o] \in Row /\ late[o][1] \in Row /\ late[o][2] \in Row
    BY PromisedType DEF PromiseTyped
<1>3. late[o][1].rem \in Nat /\ late[o][2].rem \in Nat /\ board[o].rem \in Nat
    BY <1>2, RowParts
<1>4. Pending(o) \in Nat
    BY <1>1, <1>3 DEF PromiseKept, LateAgrees, Pending, Asks
<1>5. board[o] # NoRow
    BY <1>1 DEF Asks, NoRow
<1>6. Wanted[board[o].good] \in Nat
    BY <1>2, <1>5, RowParts, Limits
<1>7. board[o].rem + Pending(o) + Promised(o) <= Wanted[board[o].good]
    BY <1>1 DEF PromiseKept
<1> QED
    BY <1>2, <1>3, <1>4, <1>6, <1>7 DEF Promised

\* The companies together are never promised more of an order than the city
\* wants: whatever is held, flown, edited, trimmed, cancelled, given back or
\* saved late, what is left on the board, what they hold, what is in the air
\* and what has landed fit in what the city asked for.  It holds whatever the
\* edits, and with lost saves, of the orders that no slip touched.
THEOREM DeskNeverOverPromised == Spec => []NeverOverPromised
<1>1. Init => TypeOK /\ Promises
    BY DeskInit, PromiseInit
<1>2. TypeOK /\ Promises /\ [Next]_vars => (TypeOK /\ Promises)'
    BY DeskNext, PromiseNext
<1>3. TypeOK /\ Promises => NeverOverPromised
    BY PromisesImply
<1> QED
    BY <1>1, <1>2, <1>3, PTL DEF Spec

-----------------------------------------------------------------------------
(* Rows of orders that are on their way.                                   *)

Runs(r) == Asks(r) /\ r.left > 0

Sound(r) == Past(r) /\ (r.st = "open" => r.rem > 0)

\* A row as it is between two steps: an order that is filled has not run out.
Stands(r) == Sound(r) /\ (r.st = "filled" => r.left > 0)

\* The row s is what may become of the row r when nobody looks for claims.
Keeps(r, s) ==
    Sound(r) =>
       /\ Sound(s)
       /\ Asks(s) => Asks(r) /\ s.good = r.good /\ (s.left > 0 <=> r.left > 0)
       /\ s.st = "filled" => r.st = "filled"
       /\ s.st = "open" => r.st = "open" \/ r.left > 0
       /\ Asks(r) /\ ~Asks(s) => r.st = "open" /\ r.left <= 0

\* From one step to the next: no order starts to run again.
Leads(r, s) ==
    /\ Stands(s)
    /\ Asks(s) => Asks(r) /\ s.good = r.good
    /\ Runs(s) => Runs(r)

LEMMA RowShape ==
    ASSUME NEW r \in Row
    PROVE  /\ r.rem \in Nat /\ r.left \in Int
           /\ r = NoRow <=> r.st = "none"
           /\ r # NoRow => /\ r.st \in {"open", "filled", "expired"} /\ r.good \in Goods
                           /\ Wanted[r.good] \in Nat /\ Wanted[r.good] > 0
                           /\ DOMAIN r = {"st", "good", "rem", "left"}
<1>1. CASE r = NoRow
    BY <1>1 DEF NoRow
<1>2. CASE r # NoRow
    BY <1>2, Limits DEF Row
<1> QED
    BY <1>1, <1>2

LEMMA KeepsTwice ==
    ASSUME NEW r \in Row, NEW s \in Row, NEW t \in Row, Keeps(r, s), Keeps(s, t)
    PROVE  Keeps(r, t)
<1>1. r.left \in Int /\ s.left \in Int /\ t.left \in Int
    BY RowShape
<1> QED
    BY <1>1 DEF Keeps, Asks

LEMMA KeepsLeads ==
    ASSUME NEW r \in Row, NEW s \in Row, Stands(r), Keeps(r, s)
    PROVE  /\ Leads(r, s)
           /\ Asks(r) /\ ~Asks(s) => r.st = "open"
BY RowShape DEF Keeps, Leads, Stands, Runs, Asks

LEMMA LeadsTwice ==
    ASSUME NEW r \in Row, NEW s \in Row, NEW t \in Row, Leads(r, s), Leads(s, t)
    PROVE  Leads(r, t)
BY DEF Leads

LEMMA RunsProgress ==
    ASSUME NEW r \in Row
    PROVE  /\ Stands(r) /\ Runs(r) => InProgress(r)
           /\ InProgress(r) => Runs(r)
BY RowShape DEF Stands, Sound, Runs, Asks, InProgress, IsOpen

\* Time that is due, and holds that run out.
LEMMA RowKeeps ==
    ASSUME NEW r \in Row, NEW kg \in Nat
    PROVE  /\ Keeps(r, r) /\ Keeps(r, Due(r)) /\ Keeps(r, Restored(r, kg))
           /\ Stands(r) => Keeps(r, Pruned(r)) /\ Keeps(r, GivenBack(r, kg))
<1>1. CASE r = NoRow
    <2>1. r.st = "none" /\ r.left = 0
        BY <1>1 DEF NoRow
    <2>2. Due(r) = r /\ Restored(r, kg) = r /\ Pruned(r) = r /\ GivenBack(r, kg) = r
        BY <2>1 DEF Due, Restored, Pruned, GivenBack
    <2> QED
        BY <2>1, <2>2 DEF Keeps, Asks
<1>2. CASE r # NoRow
    <2>1. /\ r.st \in {"open", "filled", "expired"} /\ r.rem \in Nat /\ r.left \in Int
          /\ Wanted[r.good] \in Nat /\ Wanted[r.good] > 0
          /\ DOMAIN r = {"st", "good", "rem", "left"}
        BY <1>2, RowShape
    <2>2. Keeps(r, r)
        BY <2>1 DEF Keeps, Asks
    <2>3. Keeps(r, Due(r))
        BY <2>1 DEF Keeps, Sound, Past, Asks, Due
    <2> DEFINE rem == Least(Wanted[r.good], r.rem + kg)
    <2>4. rem \in Nat /\ (kg # 0 => rem > 0)
        BY <2>1 DEF Least
    <2>5. Keeps(r, Restored(r, kg))
        <3>1. CASE r.left <= 0 \/ kg = 0
            BY <2>2, <3>1 DEF Restored
        <3>2. CASE ~(r.left <= 0 \/ kg = 0)
            <4>1. Restored(r, kg) = [r EXCEPT !.st = "open", !.rem = rem]
                BY <3>2 DEF Restored
            <4> HIDE DEF rem
            <4>2. /\ Restored(r, kg).st = "open" /\ Restored(r, kg).good = r.good
                  /\ Restored(r, kg).rem = rem /\ Restored(r, kg).left = r.left
                BY <2>1, <4>1
            <4> QED
                BY <2>1, <2>4, <3>2, <4>2 DEF Keeps, Sound, Past, Asks
        <3> QED
            BY <3>1, <3>2
    <2>6. Stands(r) => Keeps(r, Pruned(r))
        <3>1. CASE Pruned(r) = r
            BY <2>2, <3>1
        <3>2. CASE Pruned(r) # r
            <4>1. /\ Pruned(r) = NoRow /\ r.st \in {"filled", "expired"} /\ r.left <= -Day
                BY <3>2 DEF Pruned
            <4>2. Stands(r) => r.st = "expired"
                BY <2>1, <4>1, Limits DEF Stands
            <4> QED
                BY <4>1, <4>2 DEF Keeps, Sound, Past, Asks, NoRow
        <3> QED
            BY <3>1, <3>2
    <2>7. Stands(r) => Keeps(r, GivenBack(r, kg))
        <3>1. CASE kg = 0
            BY <2>2, <3>1 DEF GivenBack
        <3>2. CASE kg # 0
            <4> DEFINE st == IF r.st = "filled" THEN "open" ELSE r.st
            <4>1. GivenBack(r, kg) = [r EXCEPT !.st = st, !.rem = rem]
                BY <2>1, <3>2 DEF GivenBack
            <4> HIDE DEF rem, st
            <4>2. /\ GivenBack(r, kg).st = st /\ GivenBack(r, kg).good = r.good
                  /\ GivenBack(r, kg).rem = rem /\ GivenBack(r, kg).left = r.left
                BY <2>1, <4>1
            <4> QED
                BY <2>1, <2>4, <3>2, <4>2 DEF Keeps, Stands, Sound, Past, Asks, st
        <3> QED
            BY <3>1, <3>2
    <2> QED
        BY <2>2, <2>3, <2>5, <2>6, <2>7
<1> QED
    BY <1>1, <1>2

\* What a company takes of an order that is open.
LEMMA TakenStands ==
    ASSUME NEW r \in Row, Sound(r), Asks(r), r.left > 0, NEW kg \in Nat, kg <= r.rem
    PROVE  /\ Stands(Taken(r, kg)) /\ Asks(Taken(r, kg))
           /\ Taken(r, kg).good = r.good /\ Taken(r, kg).left = r.left
           /\ Taken(r, kg) \in Row
           /\ \A until \in Int : /\ Stands(Claimed(Taken(r, kg), until))
                                 /\ Asks(Claimed(Taken(r, kg), until))
                                 /\ Claimed(Taken(r, kg), until).good = r.good
<1>1. r # NoRow /\ r.st # "none"
    BY DEF Asks, NoRow
<1>2. /\ r.rem \in Nat /\ r.left \in Int /\ DOMAIN r = {"st", "good", "rem", "left"}
    BY <1>1, RowShape
<1> DEFINE t == Taken(r, kg)
<1>3. t \in Row
    BY <1>1, TakenType
<1>4. /\ t.st = (IF r.rem = kg THEN "filled" ELSE "open") /\ t.rem = r.rem - kg
      /\ t.left = r.left /\ t.good = r.good
    BY <1>2 DEF Taken
<1> HIDE DEF t
<1>5. Stands(t) /\ Asks(t)
    BY <1>2, <1>4 DEF Stands, Sound, Past, Asks
<1>6. ASSUME NEW until \in Int
      PROVE  /\ Stands(Claimed(t, until)) /\ Asks(Claimed(t, until))
             /\ Claimed(t, until).good = r.good
    <2>1. t # NoRow /\ DOMAIN t = {"st", "good", "rem", "left"}
        BY <1>3, <1>5, RowShape DEF Asks, NoRow
    <2>2. CASE t.st = "filled"
        <3>1. Claimed(t, until) = [t EXCEPT !.left = Most(t.left, until + Day)]
            BY <2>2 DEF Claimed
        <3>2. /\ Claimed(t, until).st = "filled" /\ Claimed(t, until).good = r.good
              /\ Claimed(t, until).left = Most(t.left, until + Day)
            BY <1>4, <2>1, <2>2, <3>1
        <3> QED
            BY <1>2, <1>4, <3>2, Limits DEF Stands, Sound, Past, Asks, Most
    <2>3. CASE t.st # "filled"
        BY <1>4, <1>5, <2>3 DEF Claimed
    <2> QED
        BY <2>2, <2>3
<1> QED
    BY <1>3, <1>4, <1>5, <1>6 DEF t

-----------------------------------------------------------------------------
(* What holds and flights carry of an order.                               *)

\* A part of the order is held or flown as the product k.
Underway(o, k) ==
    \/ \E c \in Companies : hold[c][o].kg > 0 /\ hold[c][o].good = k
    \/ \E f \in Flights : \E i \in DOMAIN flight[f].lines :
          flight[f].lines[i].order = o /\ flight[f].lines[i].good = k

Kind(o, g) == \A k : Underway(o, k) => k = g

\* What holds that did not run out, and flights, carry of the order.
Alive(x) == IF x.left > 0 THEN x.kg ELSE 0
LiveHeld(o) == Sum([c \in Companies |-> Alive(hold[c][o])])
Moving(o) == LiveHeld(o) + Aboard(o)

LEMMA AliveHeld ==
    ASSUME NEW h \in Holds, NEW o \in Orders
    PROVE  /\ Alive(h[o]) \in Nat /\ Alive(h[o]) <= h[o].kg
           /\ Alive(Kept(h)[o]) = Alive(h[o])
<1>1. h[o].kg \in Nat /\ h[o].left \in Nat
    BY HeldNat
<1> QED
    BY <1>1 DEF Alive, Kept, Stale, NoHold

LEMMA MovingNat ==
    ASSUME TypeOK, NEW o \in Orders
    PROVE  /\ LiveHeld(o) \in Nat /\ Moving(o) \in Nat
           /\ Moving(o) <= OnHold(o) + Aboard(o)
<1> DEFINE p == [c \in Companies |-> Alive(hold[c][o])]
           q == [c \in Companies |-> hold[c][o].kg]
<1>1. \A c \in Companies : hold[c] \in Holds
    BY TypeParts
<1>2. Tally(p) /\ Tally(q) /\ DOMAIN p \subseteq DOMAIN q
    BY <1>1, AliveHeld, HeldNat, DeskAssumption DEF Tally
<1>3. \A c \in DOMAIN p : p[c] <= q[c]
    BY <1>1, AliveHeld
<1>4. LiveHeld(o) = Sum(p) /\ OnHold(o) = Sum(q)
    BY DEF LiveHeld, OnHold
<1> HIDE DEF p, q
<1>5. Sum(p) \in Nat /\ Sum(p) <= Sum(q)
    BY <1>2, <1>3, SumNat, SumLess
<1>6. OnHold(o) \in Nat /\ Aboard(o) \in Nat
    BY PromisedType DEF PromiseTyped
<1> QED
    BY <1>4, <1>5, <1>6 DEF Moving

LEMMA MovingNatNext ==
    ASSUME TypeOK', NEW o \in Orders
    PROVE  LiveHeld(o)' \in Nat /\ Moving(o)' \in Nat
<1> DEFINE p == [c \in Companies |-> Alive(hold'[c][o])]
<1>1. \A c \in Companies : hold'[c] \in Holds
    BY DEF TypeOK, Holds
<1>2. Tally(p)
    BY <1>1, AliveHeld, DeskAssumption DEF Tally
<1>3. LiveHeld(o)' = Sum(p)
    BY DEF LiveHeld, Alive
<1> HIDE DEF p
<1>4. Sum(p) \in Nat
    BY <1>2, SumNat
<1>5. Aboard(o)' \in Nat
    BY PromisedTypeNext DEF PromiseTyped
<1> QED
    BY <1>3, <1>4, <1>5 DEF Moving

\* Holds that live no longer, or are no larger, weigh no more.
LEMMA LiveLess ==
    ASSUME TypeOK, TypeOK', NEW o \in Orders,
           \A c \in Companies : Alive(hold'[c][o]) <= Alive(hold[c][o])
    PROVE  LiveHeld(o)' <= LiveHeld(o)
<1> DEFINE p == [c \in Companies |-> Alive(hold'[c][o])]
           q == [c \in Companies |-> Alive(hold[c][o])]
<1>1. \A c \in Companies : hold[c] \in Holds /\ hold'[c] \in Holds
    BY DEF TypeOK, Holds
<1>2. Tally(p) /\ Tally(q) /\ DOMAIN p \subseteq DOMAIN q
    BY <1>1, AliveHeld, DeskAssumption DEF Tally
<1>3. \A c \in DOMAIN p : p[c] <= q[c]
    OBVIOUS
<1>4. LiveHeld(o)' = Sum(p) /\ LiveHeld(o) = Sum(q)
    BY DEF LiveHeld, Alive
<1> HIDE DEF p, q
<1> QED
    BY <1>2, <1>3, <1>4, SumLess

\* The holds of one company change.
LEMMA LiveChanged ==
    ASSUME TypeOK, TypeOK', NEW c \in Companies, NEW o \in Orders,
           \A d \in Companies \ {c} : hold'[d][o] = hold[d][o]
    PROVE  LiveHeld(o)' + Alive(hold[c][o]) = LiveHeld(o) + Alive(hold'[c][o])
<1> DEFINE p == [d \in Companies |-> Alive(hold[d][o])]
           q == [d \in Companies |-> Alive(hold'[d][o])]
<1>1. \A d \in Companies : hold[d] \in Holds /\ hold'[d] \in Holds
    BY DEF TypeOK, Holds
<1>2. p \in [Companies -> Nat] /\ q \in [Companies -> Nat] /\ IsFiniteSet(Companies)
    BY <1>1, AliveHeld, DeskAssumption
<1>3. \A d \in Companies : d # c => q[d] = p[d]
    OBVIOUS
<1>4. p[c] = Alive(hold[c][o]) /\ q[c] = Alive(hold'[c][o])
    OBVIOUS
<1>5. LiveHeld(o) = Sum(p) /\ LiveHeld(o)' = Sum(q)
    BY DEF LiveHeld, Alive
<1> HIDE DEF p, q
<1>6. Sum(q) + p[c] = Sum(p) + q[c]
    BY <1>2, <1>3, SumChanged
<1> QED
    BY <1>4, <1>5, <1>6

\* Nothing that is under way weighs nothing.
LEMMA MovingNothing ==
    ASSUME TypeOK, NEW o \in Orders,
           \A c \in Companies : Alive(hold[c][o]) = 0,
           \A f \in Flights : \A i \in DOMAIN flight[f].lines : flight[f].lines[i].order # o
    PROVE  Moving(o) = 0
<1>1. LiveHeld(o) = 0
    <2> DEFINE p == [c \in Companies |-> Alive(hold[c][o])]
    <2>1. Tally(p) /\ \A c \in DOMAIN p : p[c] = 0
        BY TypeParts, AliveHeld, DeskAssumption DEF Tally
    <2> HIDE DEF p
    <2>2. Sum(p) = 0
        BY <2>1, SumZero
    <2> QED
        BY <2>2 DEF LiveHeld, p
<1>2. ASSUME NEW f \in Flights
      PROVE  KgFor(flight[f].lines, o) = 0
    <2> DEFINE x == flight[f].lines
               p == [i \in DOMAIN x |-> IF x[i].order = o THEN x[i].kg ELSE 0]
    <2>1. DOMAIN x = 1..Len(x) /\ Len(x) \in Nat
        BY TypeParts, SortieParts
    <2>2. IsFiniteSet(1..Len(x))
        BY <2>1, FS_Interval
    <2>3. Tally(p) /\ \A i \in DOMAIN p : p[i] = 0
        BY <2>1, <2>2 DEF Tally
    <2> HIDE DEF p
    <2>4. Sum(p) = 0
        BY <2>3, SumZero
    <2> QED
        BY <2>4 DEF KgFor, p
<1>3. Aboard(o) = 0
    <2> DEFINE p == [f \in Flights |-> KgFor(flight[f].lines, o)]
    <2>1. Tally(p) /\ \A f \in DOMAIN p : p[f] = 0
        BY <1>2, DeskAssumption DEF Tally
    <2> HIDE DEF p
    <2>2. Sum(p) = 0
        BY <2>1, SumZero
    <2> QED
        BY <2>2 DEF Aboard, p
<1> QED
    BY <1>1, <1>3 DEF Moving

NothingMoves ==
    \A o \in Orders :
       /\ \A c \in Companies : Alive(hold[c][o]) = 0
       /\ \A f \in Flights : \A i \in DOMAIN flight[f].lines :
             flight[f].lines[i].order # o
       => Moving(o) = 0

LEMMA MovingNone == TypeOK => NothingMoves
BY MovingNothing DEF NothingMoves

LEMMA MovingNoneNext == TypeOK' => NothingMoves'
BY MovingNone, PTL

\* An order that nothing carries.
Still(o) == \A k : ~Underway(o, k)

LEMMA StillMoves ==
    ASSUME TypeOK', NEW o \in Orders, Still(o)'
    PROVE  Moving(o)' = 0
<1>1. \A c \in Companies : hold'[c] \in Holds
    BY DEF TypeOK, Holds
<1>2. \A c \in Companies : Alive(hold'[c][o]) = 0
    <2> SUFFICES ASSUME NEW c \in Companies PROVE Alive(hold'[c][o]) = 0
        OBVIOUS
    <2>1. hold'[c][o].kg \in Nat
        BY <1>1, HeldNat
    <2>2. \A k : ~Underway(o, k)'
        BY DEF Still
    <2>3. ~(hold'[c][o].kg > 0)
        BY <2>2 DEF Underway
    <2> QED
        BY <2>1, <2>3 DEF Alive
<1>3. \A f \in Flights : \A i \in DOMAIN flight'[f].lines : flight'[f].lines[i].order # o
    BY DEF Still, Underway
<1> QED
    BY <1>2, <1>3, MovingNoneNext DEF NothingMoves, Alive

\* What is live of an order, for a product.
LEMMA LiveOfKind ==
    ASSUME TypeOK, NEW o \in Orders, NEW g \in Goods
    PROVE  /\ Live(o, g) \in Nat /\ Live(o, g) <= Moving(o)
           /\ (~Underway(o, g) => Live(o, g) = 0)
<1> DEFINE p == [c \in Companies |-> IF hold[c][o].good = g /\ hold[c][o].left > 0
                                     THEN hold[c][o].kg ELSE 0]
           q == [c \in Companies |-> Alive(hold[c][o])]
           part(f) == [i \in DOMAIN flight[f].lines |->
                         LET l == flight[f].lines[i]
                         IN  IF l.order = o /\ l.good = g THEN l.kg ELSE 0]
           all(f) == [i \in DOMAIN flight[f].lines |->
                        IF flight[f].lines[i].order = o THEN flight[f].lines[i].kg ELSE 0]
           u == [f \in Flights |-> Sum(part(f))]
           v == [f \in Flights |-> KgFor(flight[f].lines, o)]
<1>1. \A c \in Companies : hold[c] \in Holds /\ hold[c][o].kg \in Nat
    BY TypeParts, HeldNat
<1>2. /\ Tally(p) /\ Tally(q) /\ DOMAIN p \subseteq DOMAIN q
      /\ \A c \in DOMAIN p : p[c] <= q[c]
      /\ ~Underway(o, g) => \A c \in DOMAIN p : p[c] = 0
    <2>1. Tally(p) /\ Tally(q) /\ DOMAIN p \subseteq DOMAIN q
        BY <1>1, AliveHeld, DeskAssumption DEF Tally
    <2>2. \A c \in DOMAIN p : p[c] <= q[c]
        BY <1>1 DEF Alive
    <2>3. ~Underway(o, g) => \A c \in DOMAIN p : p[c] = 0
        BY <1>1 DEF Underway
    <2> QED
        BY <2>1, <2>2, <2>3
<1>3. ASSUME NEW f \in Flights
      PROVE  /\ Sum(part(f)) \in Nat /\ KgFor(flight[f].lines, o) \in Nat
             /\ Sum(part(f)) <= KgFor(flight[f].lines, o)
             /\ ~Underway(o, g) => Sum(part(f)) = 0
    <2> DEFINE x == flight[f].lines
    <2>1. /\ DOMAIN x = 1..Len(x) /\ Len(x) \in Nat
          /\ \A i \in DOMAIN x : x[i].kg \in Nat
        <3>1. flight[f] \in Sortie
            BY TypeParts
        <3>2. DOMAIN x = 1..Len(x) /\ Len(x) \in Nat /\ x \in [1..Len(x) -> Loads]
            BY <3>1, SortieParts
        <3>3. \A l \in Loads : l.kg \in Nat
            BY DEF Loads
        <3> HIDE DEF x
        <3> QED
            BY <3>2, <3>3
    <2>2. IsFiniteSet(1..Len(x))
        BY SMTT(30), <2>1, FS_Interval
    <2>3. /\ Tally(part(f)) /\ Tally(all(f)) /\ DOMAIN part(f) \subseteq DOMAIN all(f)
          /\ \A i \in DOMAIN part(f) : part(f)[i] <= all(f)[i]
          /\ ~Underway(o, g) => \A i \in DOMAIN part(f) : part(f)[i] = 0
        <3>1. Tally(part(f)) /\ Tally(all(f)) /\ DOMAIN part(f) \subseteq DOMAIN all(f)
            BY <2>1, <2>2 DEF Tally
        <3>2. \A i \in DOMAIN part(f) : part(f)[i] <= all(f)[i]
            BY <2>1
        <3>3. ~Underway(o, g) => \A i \in DOMAIN part(f) : part(f)[i] = 0
            BY DEF Underway
        <3> QED
            BY <3>1, <3>2, <3>3
    <2>4. KgFor(flight[f].lines, o) = Sum(all(f))
        BY DEF KgFor
    <2> HIDE DEF part, all
    <2> QED
        BY <2>3, <2>4, SumNat, SumLess, SumZero
<1>4. Live(o, g) = Sum(p) + Sum(u) /\ LiveHeld(o) = Sum(q) /\ Aboard(o) = Sum(v)
    BY DEF Live, LiveHeld, Aboard
<1> HIDE DEF part, all
<1>5. /\ Tally(u) /\ Tally(v) /\ DOMAIN u \subseteq DOMAIN v
      /\ \A f \in DOMAIN u : u[f] <= v[f]
      /\ ~Underway(o, g) => \A f \in DOMAIN u : u[f] = 0
    BY <1>3, DeskAssumption DEF Tally
<1> HIDE DEF p, q, u, v
<1>6. /\ Sum(p) \in Nat /\ Sum(q) \in Nat /\ Sum(u) \in Nat /\ Sum(v) \in Nat
      /\ Sum(p) <= Sum(q) /\ Sum(u) <= Sum(v)
      /\ ~Underway(o, g) => Sum(p) = 0 /\ Sum(u) = 0
    BY <1>2, <1>5, SumNat, SumLess, SumZero
<1> QED
    BY <1>4, <1>6 DEF Moving

-----------------------------------------------------------------------------
(* What a city gets, and its invariant.                                    *)

\* The row of an order that comes late does not wake it, and ends it only when
\* some of it has landed.
LateEnds(o) ==
    late[o][1].st # "none" =>
       /\ late[o][1].st # "filled"
       /\ late[o][1].st = "open" => late[o][1].rem > 0 /\ late[o][1].left = late[o][2].left
       /\ late[o][1].st = "expired" /\ Asks(late[o][2]) =>
             landed[o] > 0 \/ board[o].st = "none"

\* What is under way of an order is what it asked for; and once it has ended,
\* it is not the whole of it.
CityKept(o) ==
    /\ Stands(board[o]) /\ LateEnds(o)
    /\ Asks(board[o]) => Kind(o, board[o].good)
    /\ ~Asks(board[o]) => \E g \in Goods : Kind(o, g) /\ Moving(o) < Wanted[g]

Apart ==
    \A o, p \in Orders \ marred :
       o # p /\ City[o] = City[p] /\ Runs(board[o]) /\ Runs(board[p]) =>
          board[o].good # board[p].good

Cities == Apart /\ \A o \in Orders \ marred : CityKept(o)

LEMMA LateEndsStep ==
    ASSUME NEW o \in Orders, LateEnds(o), late'[o] = late[o],
           landed[o] > 0 => landed'[o] > 0 \/ board'[o].st = "none",
           board[o].st = "none" => board'[o].st = "none"
    PROVE  LateEnds(o)'
BY DEF LateEnds

LEMMA SavesLanded ==
    ASSUME TypeOK, NEW b, Saves(b), NEW o \in Orders
    PROVE  landed[o] > 0 => landed'[o] > 0 \/ board'[o].st = "none"
BY DEF Saves, Blank

\* What is promised of an order that asks.
LEMMA MovingFits ==
    ASSUME TypeOK, NEW o \in Orders, PromiseKept(o), Asks(board[o])
    PROVE  /\ board[o].good \in Goods
           /\ Wanted[board[o].good] \in Nat /\ Wanted[board[o].good] > 0
           /\ board[o].rem \in Nat /\ landed[o] \in Nat /\ Moving(o) \in Nat
           /\ OnHold(o) \in Nat /\ Aboard(o) \in Nat
           /\ OnHold(o) + Aboard(o) + landed[o] + board[o].rem <= Wanted[board[o].good]
           /\ Moving(o) + landed[o] + board[o].rem <= Wanted[board[o].good]
<1>1. /\ OnHold(o) \in Nat /\ Aboard(o) \in Nat /\ landed[o] \in Nat
      /\ board[o] \in Row /\ late[o][1] \in Row /\ late[o][2] \in Row
    BY PromisedType DEF PromiseTyped
<1>2. late[o][1].rem \in Nat /\ late[o][2].rem \in Nat /\ board[o].rem \in Nat
    BY <1>1, RowParts
<1>3. Pending(o) \in Nat
    BY <1>2 DEF PromiseKept, LateAgrees, Pending, Asks
<1>4. board[o] # NoRow
    BY DEF Asks, NoRow
<1>5. board[o].good \in Goods
    BY <1>1, <1>4, RowParts
<1>6. Wanted[board[o].good] \in Nat /\ Wanted[board[o].good] > 0
    BY <1>5, Limits
<1>7. board[o].rem + Pending(o) + Promised(o) <= Wanted[board[o].good]
    BY DEF PromiseKept
<1>8. Moving(o) \in Nat /\ Moving(o) <= OnHold(o) + Aboard(o)
    BY MovingNat
<1> QED
    BY <1>1, <1>2, <1>3, <1>5, <1>6, <1>7, <1>8 DEF Promised

\* An order that goes on, or that ends while a part of it is not under way.
LEMMA KeptStep ==
    ASSUME TypeOK, TypeOK', NEW o \in Orders, CityKept(o), PromiseKept(o),
           Leads(board[o], board'[o]), LateEnds(o)',
           \A k : Underway(o, k)' =>
                     Underway(o, k) \/ (Asks(board'[o]) /\ k = board[o].good),
           ~Asks(board'[o]) =>
              /\ Moving(o)' <= Moving(o)
              /\ Asks(board[o]) =>
                    board[o].st = "open" \/ Moving(o)' < Wanted[board[o].good]
    PROVE  CityKept(o)'
<1>1. Stands(board'[o])
    BY DEF Leads
<1>2. CASE Asks(board'[o])
    <2>1. Asks(board[o]) /\ board'[o].good = board[o].good
        BY <1>2 DEF Leads
    <2>2. Kind(o, board[o].good)
        BY <2>1 DEF CityKept
    <2>3. \A k : Underway(o, k)' => k = board'[o].good
        BY <2>1, <2>2 DEF Kind
    <2> QED
        BY <1>1, <1>2, <2>3 DEF CityKept, Kind
<1>3. CASE ~Asks(board'[o])
    <2>1. PICK g \in Goods : Kind(o, g) /\ Moving(o)' < Wanted[g]
        <3>1. CASE ~Asks(board[o])
            <4>1. PICK g \in Goods : Kind(o, g) /\ Moving(o) < Wanted[g]
                BY <3>1 DEF CityKept
            <4>2. Moving(o) \in Nat /\ Moving(o)' \in Nat /\ Wanted[g] \in Nat
                BY MovingNat, MovingNatNext, Limits
            <4> QED
                BY <1>3, <4>1, <4>2
        <3>2. CASE Asks(board[o])
            <4>1. /\ board[o].good \in Goods /\ Wanted[board[o].good] \in Nat
                  /\ Moving(o) + landed[o] + board[o].rem <= Wanted[board[o].good]
                  /\ Moving(o) \in Nat /\ landed[o] \in Nat /\ board[o].rem \in Nat
                BY <3>2, MovingFits
            <4>2. Kind(o, board[o].good)
                BY <3>2 DEF CityKept
            <4>3. board[o].st = "open" => board[o].rem > 0
                BY DEF CityKept, Stands, Sound
            <4>4. Moving(o)' < Wanted[board[o].good]
                BY <1>3, <3>2, <4>1, <4>3, MovingNatNext
            <4> QED
                BY <4>1, <4>2, <4>4
        <3> QED
            BY <3>1, <3>2
    <2>2. \A k : Underway(o, k)' => k = g
        BY <1>3, <2>1 DEF Kind
    <2> QED
        BY <1>1, <1>3, <2>1, <2>2 DEF CityKept, Kind
<1> QED
    BY <1>2, <1>3

\* An order that nothing carries, blank or just listed.
LEMMA StillStep ==
    ASSUME TypeOK', NEW o \in Orders, Still(o)', Stands(board'[o]),
           late'[o][1].st = "none"
    PROVE  CityKept(o)'
<1>1. LateEnds(o)'
    BY DEF LateEnds
<1>2. Moving(o)' = 0
    BY StillMoves
<1>3. \A g : Kind(o, g)'
    BY DEF Still, Kind
<1>4. \E g \in Goods : Moving(o)' < Wanted[g]
    BY <1>2, Limits, DeskAssumption
<1>5. \E g \in Goods : Kind(o, g)' /\ Moving(o)' < Wanted[g]
    BY <1>3, <1>4
<1>6. \A k : Underway(o, k)' => k = board'[o].good
    BY DEF Still
<1> QED
    BY <1>1, <1>5, <1>6 DEF CityKept, Kind

-----------------------------------------------------------------------------
(* Steps of the board.                                                     *)

\* What b lists anew is not in progress in b elsewhere.
Alone(b) ==
    \A o, p \in Orders :
       /\ o # p /\ City[o] = City[p]
       /\ board[o].st = "none" /\ b[o].st # "none" /\ InProgress(b[p])
       => b[o].good # b[p].good

\* No order is listed.
LEMMA CityDesk ==
    ASSUME Promises, Cities, marred \subseteq marred',
           \A o \in Orders \ marred' : CityKept(o) /\ PromiseKept(o) =>
                                          Leads(board[o], board'[o]) /\ CityKept(o)'
    PROVE  Cities'
<1>1. \A o \in Orders \ marred' : Leads(board[o], board'[o]) /\ CityKept(o)'
    BY DEF Cities, Promises
<1>2. Apart'
    BY <1>1 DEF Cities, Apart, Leads, Runs
<1> QED
    BY <1>1, <1>2 DEF Cities

LEMMA ApartStep ==
    ASSUME Apart, NEW b \in Boards, board' = b, Alone(b),
           \A o \in Orders \ marred' :
              /\ Stands(b[o])
              /\ \/ board[o].st = "none" /\ b[o].st # "none"
                 \/ ~Asks(b[o])
                 \/ o \notin marred /\ Leads(board[o], b[o])
    PROVE  Apart'
<1> SUFFICES ASSUME NEW o \in Orders \ marred', NEW p \in Orders \ marred',
                    o # p, City[o] = City[p], Runs(b[o]), Runs(b[p])
             PROVE  b[o].good # b[p].good
    BY DEF Apart
<1>1. InProgress(b[o]) /\ InProgress(b[p])
    BY RunsProgress DEF Boards
<1>2. CASE board[o].st = "none" /\ b[o].st # "none"
    BY <1>1, <1>2 DEF Alone
<1>3. CASE board[p].st = "none" /\ b[p].st # "none"
    BY <1>1, <1>3 DEF Alone
<1>4. CASE /\ o \notin marred /\ Leads(board[o], b[o])
           /\ p \notin marred /\ Leads(board[p], b[p])
    <2>1. /\ Runs(board[o]) /\ b[o].good = board[o].good
          /\ Runs(board[p]) /\ b[p].good = board[p].good
        BY <1>4 DEF Leads, Runs
    <2> QED
        BY <1>4, <2>1 DEF Apart
<1> QED
    BY <1>2, <1>3, <1>4 DEF Runs

\* An id that nothing refers to.
Bare(o) ==
    /\ \A c \in Companies : hold[c][o].kg = 0
    /\ \A f \in Flights : o \notin Named(flight[f])

LEMMA BareStill == \A o \in Orders : Bare(o) => Still(o)
BY DEF Bare, Still, Underway, Named

LEMMA ListedStands ==
    ASSUME NEW o \in Orders, NEW r, NEW s, Listed(o, r, s)
    PROVE  Stands(s) /\ Bare(o) /\ late[o][1].st = "none" /\ s.st = "open"
<1>1. PICK g \in Goods : s = [st |-> "open", good |-> g, rem |-> Wanted[g],
                              left |-> OrderTtl]
    BY DEF Listed
<1>2. Wanted[g] > 0
    BY Limits
<1> QED
    BY <1>1, <1>2 DEF Listed, Bare, Stands, Sound, Past

\* The board is saved and the row is not.
LEMMA CityHalf ==
    ASSUME TypeOK, TypeOK', Cities, NEW b \in Boards, HalfSaves(b), Alone(b),
           \A o \in Orders : board[o].st = "none" /\ b[o].st # "none"
                                => Listed(o, board[o], b[o])
    PROVE  Cities'
<1>1. /\ Saves(b) /\ UNCHANGED <<hold, stock, yard, flight, late, owed>>
      /\ marred' = (marred \cup {o \in Orders : b[o] # board[o]}) \ Fresh(b)
    BY DEF HalfSaves, row
<1>2. board' = b
    BY <1>1 DEF Saves
<1>3. \A o \in Orders : Bare(o) => Still(o)'
    BY <1>1, BareStill DEF Still, Underway
<1>4. ASSUME NEW o \in Orders \ marred'
      PROVE  /\ CityKept(o)'
             /\ \/ board[o].st = "none" /\ b[o].st # "none"
                \/ ~Asks(b[o])
                \/ o \notin marred /\ Leads(board[o], b[o])
    <2>1. \/ o \in Unused(b)
          \/ board[o].st = "none" /\ b[o].st # "none"
          \/ o \notin marred /\ b[o] = board[o]
        BY <1>1 DEF Fresh, Blank
    <2>2. CASE o \in Unused(b)
        <3>1. Bare(o) /\ late'[o][1].st = "none" /\ b[o].st = "none"
            BY <1>1, <2>2 DEF Unused, Bare
        <3>2. Stands(b[o]) /\ ~Asks(b[o])
            BY <3>1 DEF Stands, Sound, Past, Asks
        <3> QED
            BY <1>2, <1>3, <3>1, <3>2, StillStep
    <2>3. CASE board[o].st = "none" /\ b[o].st # "none"
        <3>1. Stands(b[o]) /\ Bare(o) /\ late'[o][1].st = "none"
            BY <1>1, <2>3, ListedStands
        <3> QED
            BY <1>2, <1>3, <2>3, <3>1, StillStep
    <2>4. CASE o \notin marred /\ b[o] = board[o]
        <3>1. CityKept(o)
            BY <2>4 DEF Cities
        <3>2. LateEnds(o)'
            BY <1>1, <1>2, <2>4, <3>1, SavesLanded, LateEndsStep DEF CityKept
        <3>3. Moving(o)' = Moving(o) /\ \A g : Kind(o, g)' <=> Kind(o, g)
            BY <1>1 DEF Moving, LiveHeld, Aboard, Kind, Underway
        <3>4. Leads(board[o], b[o])
            BY <2>4, <3>1 DEF Leads, CityKept
        <3> QED
            BY <1>2, <2>4, <3>1, <3>2, <3>3, <3>4 DEF CityKept
    <2> QED
        BY <2>1, <2>2, <2>3, <2>4
<1>5. \A o \in Orders \ marred' : Stands(b[o])
    BY <1>2, <1>4 DEF CityKept
<1>6. Apart'
    BY <1>2, <1>4, <1>5, ApartStep DEF Cities
<1> QED
    BY <1>4, <1>6 DEF Cities

\* The board is listed and saved, and the row with it.
LEMMA CityFull ==
    ASSUME TypeOK, TypeOK', Promises, Cities, NEW b \in Boards, Saves(b), Alone(b),
           NEW M, marred' = (marred \cup M \cup Cut(b)) \ Fresh(b),
           \A o \in Orders : late'[o][1].st = "none" <=> late[o][1].st = "none",
           \A o \in Orders : Bare(o) => Still(o)',
           \A o \in Orders :
              \/ board[o].st # "none" /\ o \in Cut(b)
              \/ Listed(o, board[o], b[o])
              \/ /\ board[o].st = "none" => b[o].st = "none"
                 /\ o \notin M /\ CityKept(o) /\ PromiseKept(o) =>
                       Leads(board[o], b[o]) /\ CityKept(o)'
    PROVE  Cities'
<1>1. board' = b
    BY DEF Saves
<1>2. ASSUME NEW o \in Orders \ marred'
      PROVE  /\ CityKept(o)'
             /\ \/ board[o].st = "none" /\ b[o].st # "none"
                \/ ~Asks(b[o])
                \/ o \notin marred /\ Leads(board[o], b[o])
    <2>1. CASE o \in Unused(b)
        <3>1. Bare(o) /\ late'[o][1].st = "none" /\ b[o].st = "none"
            BY <2>1 DEF Unused, Bare
        <3>2. Stands(b[o]) /\ ~Asks(b[o])
            BY <3>1 DEF Stands, Sound, Past, Asks
        <3> QED
            BY <1>1, <3>1, <3>2, StillStep
    <2>2. CASE Listed(o, board[o], b[o])
        <3>1. Stands(b[o]) /\ Bare(o) /\ late'[o][1].st = "none" /\ b[o].st # "none"
            BY <2>2, ListedStands
        <3> QED
            BY <1>1, <2>2, <3>1, StillStep DEF Listed
    <2>3. CASE o \notin Unused(b) /\ ~Listed(o, board[o], b[o])
        <3>1. CASE board[o].st # "none"
            BY <1>1, <2>3, <3>1 DEF Fresh, Blank, Promises, Cities
        <3>2. CASE board[o].st = "none"
            <4>1. b[o].st = "none"
                BY <2>3, <3>2
            <4>2. o \notin Fresh(b)
                BY <2>3, <4>1 DEF Fresh, Blank
            <4> QED
                BY <2>3, <3>2, <4>2 DEF Promises, Cities
        <3> QED
            BY <3>1, <3>2
    <2> QED
        BY <2>1, <2>2, <2>3
<1>3. \A o \in Orders \ marred' : Stands(b[o])
    BY <1>1, <1>2 DEF CityKept
<1>4. Apart'
    BY <1>1, <1>2, <1>3, ApartStep DEF Cities
<1> QED
    BY <1>2, <1>4 DEF Cities

-----------------------------------------------------------------------------
(* The board is listed.                                                    *)

\* A city does not list what it has listed or gets.
LEMMA EnsuredOnce ==
    ASSUME NEW m \in Boards, NEW b2 \in Ensured(m), NEW o \in Orders, NEW p \in Orders,
           o # p, City[o] = City[p], m[o].st = "none", b2[o].st # "none",
           InProgress(b2[p])
    PROVE  b2[o].good # b2[p].good
<1> DEFINE of(gone, N) ==
               [q \in Orders |->
                  IF q \in DOMAIN N
                  THEN [st |-> "open", good |-> N[q], rem |-> Wanted[N[q]],
                        left |-> OrderTtl]
                  ELSE Pruned(IF q \in gone THEN [m[q] EXCEPT !.st = "expired"]
                              ELSE m[q])]
<1>1. PICK gone \in Trims(m) : \E N \in Listings(m, gone) : b2 = of(gone, N)
    <2>1. Ensured(m) = UNION {{of(gone, N) : N \in Listings(m, gone)} : gone \in Trims(m)}
        BY DEF Ensured
    <2> HIDE DEF of
    <2> QED
        BY <2>1
<1>2. PICK N \in Listings(m, gone) : b2 = of(gone, N)
    BY <1>1
<1> DEFINE sought(q) == IF q \in DOMAIN N THEN N[q] ELSE m[q].good
<1>3. \A x \in DOMAIN N : \A q \in Orders :
         x # q /\ City[x] = City[q] /\ N[x] = sought(q) =>
            q \notin DOMAIN N /\ (q \in gone \/ ~InProgress(m[q]))
    BY DEF Listings
<1>4. m[o] \in Row /\ m[p] \in Row
    BY DEF Boards
<1>5. o \in DOMAIN N
    <2> SUFFICES ASSUME o \notin DOMAIN N PROVE FALSE
        OBVIOUS
    <2>1. \A q \in gone : IsOpen(m[q])
        BY DEF Trims, kSubset
    <2>2. o \notin gone
        BY <2>1 DEF IsOpen
    <2>3. b2[o] = Pruned(m[o])
        BY <1>2, <2>2
    <2> QED
        BY <2>3 DEF Pruned
<1>6. b2[o].good = N[o]
    BY <1>2, <1>5
<1>7. CASE p \in DOMAIN N
    <2>1. b2[p].good = N[p] /\ sought(p) = N[p]
        BY <1>2, <1>7
    <2> HIDE DEF of, sought
    <2> QED
        BY <1>3, <1>5, <1>6, <1>7, <2>1
<1>8. CASE p \notin DOMAIN N /\ p \in gone
    <2> DEFINE r == [m[p] EXCEPT !.st = "expired"]
    <2>1. b2[p] = Pruned(r)
        BY <1>2, <1>8
    <2>2. r.st = "expired"
        BY <1>4 DEF Row, NoRow
    <2> HIDE DEF r, of
    <2>3. b2[p].st \in {"none", "expired"}
        BY <2>1, <2>2 DEF Pruned, NoRow
    <2> QED
        BY <2>3 DEF InProgress, IsOpen
<1>9. CASE p \notin DOMAIN N /\ p \notin gone
    <2>1. b2[p] = Pruned(m[p]) /\ sought(p) = m[p].good
        BY <1>2, <1>9
    <2> HIDE DEF of, sought
    <2>2. b2[p] = m[p]
        BY <2>1 DEF Pruned, NoRow, InProgress, IsOpen
    <2> QED
        BY <1>3, <1>5, <1>6, <1>9, <2>1, <2>2
<1> QED
    BY <1>7, <1>8, <1>9

\* After the board is listed, what is open asks for something.
LEMMA EnsuredOpen ==
    ASSUME NEW b \in Boards, NEW b2 \in Ensured(Swept(b)), NEW o \in Orders,
           b2[o].st = "open"
    PROVE  b2[o].rem > 0
<1> DEFINE m == Swept(b)
<1>1. /\ b[o] \in Row /\ m \in Boards /\ m[o] = Due(b[o])
    BY SweptFollows DEF Boards, Swept
<1>2. m[o].st = "open" => m[o].rem > 0
    <2>1. b[o].rem \in Nat
        BY <1>1, RowParts
    <2>2. CASE b[o].st # "open"
        BY <1>1, <2>2 DEF Due
    <2>3. CASE b[o].st = "open"
        <3>1. DOMAIN b[o] = {"st", "good", "rem", "left"}
            BY <1>1, <2>3 DEF Row, NoRow
        <3> QED
            BY <1>1, <2>1, <2>3, <3>1 DEF Due
    <2> QED
        BY <2>2, <2>3
<1>3. m[o] \in Row
    BY <1>1 DEF Boards
<1> HIDE DEF m
<1>4. CASE b2[o] = Pruned(m[o])
    BY <1>2, <1>4 DEF Pruned, NoRow
<1>5. CASE b2[o] = Pruned([m[o] EXCEPT !.st = "expired"])
    <2> DEFINE r == [m[o] EXCEPT !.st = "expired"]
    <2>1. r.st = "expired" /\ b2[o] = Pruned(r)
        BY <1>3, <1>5 DEF Row, NoRow
    <2> HIDE DEF r
    <2> QED
        BY <2>1 DEF Pruned, NoRow
<1>6. CASE \E g \in Goods : b2[o] = [st |-> "open", good |-> g, rem |-> Wanted[g],
                                     left |-> OrderTtl]
    BY <1>6, Limits
<1> QED
    BY <1>4, <1>5, <1>6, EnsuredRow DEF m

\* Time does not wake a row.
LEMMA AgoSound ==
    ASSUME NEW r \in Row, Stands(r)
    PROVE  /\ Sound(AgoRow(r)) /\ AgoRow(r).st = r.st /\ AgoRow(r).good = r.good
           /\ AgoRow(r).left > 0 => r.left > 0
           /\ AgoRow(r) \in Row
<1>1. /\ AgoRow(r).st = r.st /\ AgoRow(r).good = r.good /\ AgoRow(r).rem = r.rem
      /\ Past(r) => Past(AgoRow(r))
      /\ AgoRow(r) \in Row
    BY AgoRowParts, ReleasedType
<1>2. AgoRow(r).left > 0 => r.left > 0
    <2>1. CASE r.st = "none"
        BY <2>1 DEF AgoRow
    <2>2. CASE r.st # "none"
        <3>1. r.left \in Int /\ DOMAIN r = {"st", "good", "rem", "left"}
            BY <2>2, RowShape DEF NoRow
        <3> QED
            BY <2>2, <3>1, Limits DEF AgoRow, Most
    <2> QED
        BY <2>1, <2>2
<1> QED
    BY <1>1, <1>2 DEF Stands, Sound

\* What the watch makes of the row r, which may be a tick older, and whose
\* holds may have been given back to it.
LEMMA ReconciledLeads ==
    ASSUME NEW b \in Boards, NEW h \in [Companies -> Holds],
           NEW fl \in [Flights -> Sortie], NEW read \in SUBSET Companies,
           NEW m, m = (IF read = Companies THEN Reconciled(Swept(b), h, fl, read)
                       ELSE Swept(b)),
           NEW o \in Orders, NEW r \in Row, Stands(r), NEW r1 \in Row,
           r1 = r \/ r1 = AgoRow(r), Keeps(r1, b[o])
    PROVE  LET s == Pruned(m[o])
           IN  \/ read # Companies /\ r1.st = "filled" /\ r1.left <= 0
               \/ /\ Leads(r, s)
                  /\ Asks(r) /\ ~Asks(s) =>
                        r.st = "open" \/ (read = Companies /\ Claims(h, fl, o, read) = {})
<1> DEFINE d == Due(b[o])
           claims == Claims(h, fl, o, read)
<1>1. /\ b[o] \in Row /\ d \in Row /\ Swept(b) \in Boards /\ Swept(b)[o] = d
      /\ m \in Boards /\ m[o] \in Row
    BY SweptFollows, ReleasedType, ReconciledType DEF Boards, Swept
<1>2. /\ Sound(r1) /\ r1.st = r.st /\ r1.good = r.good /\ (r1.left > 0 => r.left > 0)
    BY AgoSound DEF Stands
<1>3. Keeps(r1, d)
    BY <1>1, RowKeeps, KeepsTwice
<1>4. Sound(d) /\ r1.left \in Int /\ r.left \in Int /\ d.left \in Int
    BY <1>1, <1>2, <1>3, RowShape DEF Keeps
<1>5. claims # {} => Max(claims) \in Int /\ Max(claims) >= 0
    <2>1. claims \subseteq Nat /\ \A x \in claims : x <= HoldTtl + Sail
        BY ClaimsType
    <2>2. HoldTtl + Sail \in Int /\ claims \in SUBSET Int
        BY <2>1, Limits
    <2> HIDE DEF claims
    <2>3. claims # {} => Max(claims) \in claims
        BY <2>1, <2>2, MaxMember
    <2>4. \A x \in claims : x \in Int /\ x >= 0
        BY <2>1
    <2> QED
        BY <2>3, <2>4
<1>6. m[o] = IF read # Companies \/ d.st # "filled" THEN d
             ELSE IF claims = {} THEN Closed(d) ELSE Claimed(d, Max(claims))
    BY <1>1 DEF Reconciled
<1> HIDE DEF d, claims
<1>7. CASE d.st # "filled"
    <2>1. Stands(d)
        BY <1>4, <1>7 DEF Stands
    <2>2. m[o] = d
        BY <1>6, <1>7
    <2>3. Keeps(d, Pruned(d)) /\ Pruned(d) \in Row
        BY <1>1, <2>1, RowKeeps, ReleasedType
    <2>4. Keeps(r1, Pruned(d))
        BY <1>1, <1>3, <2>3, KeepsTwice
    <2>5. Pruned(d).st # "filled"
        BY <1>7 DEF Pruned, NoRow
    <2> DEFINE s == Pruned(d)
    <2> HIDE DEF s
    <2>6. /\ Leads(r, s) /\ (Asks(r) /\ ~Asks(s) => r.st = "open")
        BY <1>2, <2>3, <2>4, <2>5 DEF Keeps, Leads, Stands, Runs, Asks, s
    <2> QED
        BY <2>2, <2>6 DEF s
<1>8. CASE d.st = "filled"
    <2>1. /\ r1.st = "filled" /\ r.st = "filled" /\ d.good = r.good
          /\ d.left > 0 <=> r1.left > 0
        BY <1>2, <1>3, <1>8 DEF Keeps, Asks
    <2>2. Runs(r) /\ Asks(r)
        BY <2>1 DEF Runs, Asks, Stands
    <2>3. d # NoRow /\ DOMAIN d = {"st", "good", "rem", "left"}
        BY <1>1, <1>8, RowShape DEF NoRow
    <2>4. CASE read # Companies
        <3>1. m[o] = d
            BY <1>6, <2>4
        <3>2. CASE d.left > 0
            <4>1. Pruned(m[o]) = d
                BY <1>4, <3>1, <3>2, Limits DEF Pruned
            <4>2. Leads(r, d) /\ Asks(d)
                BY <1>4, <1>8, <2>1, <2>2, <3>2 DEF Leads, Stands, Asks
            <4> QED
                BY <4>1, <4>2
        <3>3. CASE ~(d.left > 0)
            BY <1>4, <2>1, <2>4, <3>3
        <3> QED
            BY <3>2, <3>3
    <2>5. CASE read = Companies /\ claims = {}
        <3>1. m[o] = Closed(d)
            BY <1>6, <1>8, <2>5
        <3>2. m[o].st = "expired" /\ m[o].left = -Day
            BY <2>3, <3>1 DEF Closed
        <3>3. Pruned(m[o]) = NoRow
            BY <3>2, Limits DEF Pruned
        <3>4. Leads(r, NoRow)
            BY DEF Leads, Stands, Sound, Past, Asks, Runs, NoRow
        <3> QED
            BY <2>5, <3>3, <3>4 DEF claims
    <2>6. CASE read = Companies /\ claims # {}
        <3> DEFINE u == Max(claims)
                   s == Claimed(d, u)
        <3>1. m[o] = s /\ u \in Int /\ u >= 0
            BY <1>5, <1>6, <1>8, <2>6
        <3>2. s = [d EXCEPT !.left = Most(d.left, u + Day)]
            BY <1>8 DEF Claimed
        <3> HIDE DEF u, s
        <3>3. /\ s.st = "filled" /\ s.good = r.good /\ s.left = Most(d.left, u + Day)
            BY <1>8, <2>1, <2>3, <3>2
        <3>4. s.left > 0 /\ s.left \in Int
            BY <1>4, <3>1, <3>3, Limits DEF Most
        <3>5. Pruned(s) = s
            BY <3>4, Limits DEF Pruned
        <3>6. Leads(r, s) /\ Asks(s)
            BY <2>2, <3>3, <3>4 DEF Leads, Stands, Sound, Past, Asks
        <3> QED
            BY <3>1, <3>5, <3>6
    <2> QED
        BY <2>4, <2>5, <2>6
<1> QED
    BY <1>7, <1>8

LEMMA WatchedLeads ==
    ASSUME TypeOK, NEW b \in Boards, NEW h \in [Companies -> Holds],
           NEW fl \in [Flights -> Sortie], NEW read \in SUBSET Companies,
           NEW b2 \in Watched(b, h, fl, read), NEW o \in Orders,
           NEW r \in Row, Stands(r), NEW r1 \in Row,
           r1 = r \/ r1 = AgoRow(r), Keeps(r1, b[o])
    PROVE  \/ b[o].st # "none" /\ o \in Cut(b2)
           \/ Listed(o, b[o], b2[o])
           \/ read # Companies /\ r1.st = "filled" /\ r1.left <= 0
           \/ /\ Leads(r, b2[o])
              /\ Asks(r) /\ ~Asks(b2[o]) =>
                    r.st = "open" \/ (read = Companies /\ Claims(h, fl, o, read) = {})
<1> DEFINE m == IF read = Companies THEN Reconciled(Swept(b), h, fl, read)
                ELSE Swept(b)
<1>1. b2 \in Ensured(m)
    BY DEF Watched
<1>2. /\ Swept(b) \in Boards
      /\ Swept(b)[o].st = "none" <=> b[o].st = "none"
    BY SweptFollows
<1>3. m \in Boards
    BY <1>2, ReconciledType
<1>4. m[o].st = "none" <=> b[o].st = "none"
    BY <1>2, ReconciledFollows
<1>5. LET s == Pruned(m[o])
      IN  \/ read # Companies /\ r1.st = "filled" /\ r1.left <= 0
          \/ /\ Leads(r, s)
             /\ Asks(r) /\ ~Asks(s) =>
                   r.st = "open" \/ (read = Companies /\ Claims(h, fl, o, read) = {})
    BY ReconciledLeads
<1> HIDE DEF m
<1>6. CASE b2[o] = Pruned(m[o])
    BY <1>5, <1>6
<1>7. CASE m[o].st # "none" /\ o \in Cut(b2)
    BY <1>4, <1>7
<1>8. CASE Listed(o, m[o], b2[o])
    BY <1>4, <1>8 DEF Listed
<1>9. \/ b2[o] = Pruned(m[o])
      \/ m[o].st # "none" /\ o \in Cut(b2)
      \/ Listed(o, m[o], b2[o])
    <2>1. CASE IsOpen(m[o]) /\ b2[o] = Pruned([m[o] EXCEPT !.st = "expired"])
        <3> DEFINE s == [m[o] EXCEPT !.st = "expired"]
        <3>1. m[o] \in Row /\ m[o].st = "open" /\ m[o].left > 0 /\ m[o].left \in Int
            BY <1>3, <2>1, RowParts DEF IsOpen, Boards
        <3>2. DOMAIN m[o] = {"st", "good", "rem", "left"}
            BY <3>1, RowShape DEF NoRow
        <3>3. s.st = "expired" /\ s.left = m[o].left /\ b2[o] = Pruned(s)
            BY <2>1, <3>2
        <3> HIDE DEF s
        <3>4. b2[o] = s
            BY <3>1, <3>3, Limits DEF Pruned
        <3> QED
            BY <3>1, <3>3, <3>4 DEF Cut
    <2>2. CASE /\ o \in Unused(m)
               /\ \E g \in Goods : b2[o] = [st |-> "open", good |-> g,
                                            rem |-> Wanted[g], left |-> OrderTtl]
        BY <2>2 DEF Unused, Listed
    <2> QED
        BY <1>1, <2>1, <2>2, EnsuredRow
<1> QED
    BY <1>6, <1>7, <1>8, <1>9

-----------------------------------------------------------------------------
(* Reading the board, and time.                                            *)

LEMMA WatchedAlone ==
    ASSUME NEW b \in Boards, NEW h \in [Companies -> Holds],
           NEW fl \in [Flights -> Sortie], NEW read \in SUBSET Companies,
           NEW b2 \in Watched(b, h, fl, read),
           \A o \in Orders : b[o].st = "none" <=> board[o].st = "none"
    PROVE  Alone(b2)
<1> DEFINE m == IF read = Companies THEN Reconciled(Swept(b), h, fl, read)
                ELSE Swept(b)
<1>1. b2 \in Ensured(m)
    BY DEF Watched
<1>2. /\ Swept(b) \in Boards
      /\ \A o \in Orders : Swept(b)[o].st = "none" <=> b[o].st = "none"
    BY SweptFollows
<1>3. m \in Boards
    BY <1>2, ReconciledType
<1>4. \A o \in Orders : m[o].st = "none" <=> board[o].st = "none"
    BY <1>2, ReconciledFollows
<1> HIDE DEF m
<1> QED
    BY <1>1, <1>3, <1>4, EnsuredOnce DEF Alone

LEMMA ExpiredKeeps ==
    ASSUME NEW b \in Boards, NEW h \in Holds, NEW o \in Orders
    PROVE  Keeps(b[o], Expired(b, h)[o])
<1>1. b[o] \in Row /\ h[o].kg \in Nat
    BY HeldNat DEF Boards
<1> QED
    BY <1>1, RowKeeps DEF Expired

LEMMA LateEndsAgo ==
    ASSUME TypeOK, NEW o \in Orders, LateEnds(o), LateAgrees(o),
           late'[o] = <<AgoRow(late[o][1]), AgoRow(late[o][2])>>,
           landed[o] > 0 => landed'[o] > 0 \/ board'[o].st = "none",
           board[o].st = "none" => board'[o].st = "none"
    PROVE  LateEnds(o)'
<1> DEFINE r == late[o][1]
           s == late[o][2]
<1>1. r \in Row /\ s \in Row
    BY PromisedType DEF PromiseTyped
<1>2. /\ AgoRow(r).st = r.st /\ AgoRow(r).rem = r.rem /\ AgoRow(s).st = s.st
    BY <1>1, AgoRowParts
<1>3. late'[o][1] = AgoRow(r) /\ late'[o][2] = AgoRow(s)
    OBVIOUS
<1>4. r.st = "open" => AgoRow(r).left = AgoRow(s).left
    <2> SUFFICES ASSUME r.st = "open" PROVE AgoRow(r).left = AgoRow(s).left
        OBVIOUS
    <2>1. Asks(s) /\ r.left = s.left
        BY DEF LateAgrees, LateEnds, Asks
    <2>2. /\ r.st # "none" /\ DOMAIN r = {"st", "good", "rem", "left"}
          /\ s.st # "none" /\ DOMAIN s = {"st", "good", "rem", "left"}
        BY <1>1, <2>1, RowShape DEF Asks, NoRow
    <2> HIDE DEF r, s
    <2> QED
        BY <2>1, <2>2 DEF AgoRow
<1> HIDE DEF r, s
<1> QED
    BY <1>2, <1>3, <1>4 DEF LateEnds, Asks, r, s

\* An order that no claim is found for is not under way.
LEMMA ClaimlessStep ==
    ASSUME TypeOK', NEW h \in [Companies -> Holds], NEW fl, flight' = fl,
           NEW o \in Orders,
           \A d \in Companies : hold'[d][o] = h[d][o] \/ hold'[d][o] = NoHold,
           Claims(h, fl, o, Companies) = {}
    PROVE  Moving(o)' = 0
<1>1. ASSUME NEW c \in Companies
      PROVE  Alive(hold'[c][o]) = 0
    <2>1. CASE hold'[c][o] = NoHold
        BY <2>1 DEF Alive, NoHold
    <2>2. CASE hold'[c][o] = h[c][o]
        <3>1. h[c][o].kg \in Nat /\ h[c][o].left \in Nat
            BY HeldNat
        <3>2. h[c][o].kg > 0 /\ h[c][o].left > 0 =>
                 h[c][o].left \in Claims(h, fl, o, Companies)
            BY DEF Claims
        <3> QED
            BY <2>2, <3>1, <3>2 DEF Alive
    <2> QED
        BY <2>1, <2>2
<1>2. ASSUME NEW f \in Flights, NEW i \in DOMAIN flight'[f].lines,
             flight'[f].lines[i].order = o
      PROVE  FALSE
    <2>1. flight'[f] \in Sortie
        BY DEF TypeOK
    <2>2. flight'[f] # Grounded
        BY <1>2 DEF Grounded
    <2>3. fl[f].by \in Companies /\ i \in LinesFor(fl[f], o)
        BY <1>2, <2>1, <2>2, SortieParts DEF LinesFor
    <2>4. fl[f].lines[i].until \in Claims(h, fl, o, Companies)
        BY <2>3 DEF Claims
    <2> QED
        BY <2>4
<1> QED
    BY <1>1, <1>2, MovingNoneNext DEF NothingMoves, Alive

\* The rows, the holds and the flights of this moment, or of a tick later.
Aged(b1, h, fl) ==
    /\ \A o \in Orders :
          /\ b1[o] = board[o] \/ b1[o] = AgoRow(board[o])
          /\ \/ late'[o] = late[o]
             \/ late'[o] = <<AgoRow(late[o][1]), AgoRow(late[o][2])>>
          /\ \A d \in Companies : /\ h[d][o].kg = hold[d][o].kg
                                  /\ h[d][o].good = hold[d][o].good
                                  /\ Alive(h[d][o]) <= Alive(hold[d][o])
          /\ \A f \in Flights : KgFor(fl[f].lines, o) = KgFor(flight[f].lines, o)
    /\ \A f \in Flights :
          /\ DOMAIN fl[f].lines = DOMAIN flight[f].lines
          /\ \A i \in DOMAIN fl[f].lines :
                /\ fl[f].lines[i].order = flight[f].lines[i].order
                /\ fl[f].lines[i].good = flight[f].lines[i].good

\* The board is read by a company that can save its row; maybe a tick later.
LEMMA ReadCity ==
    ASSUME TypeOK, TypeOK', Promises, Cities, NEW c \in Companies,
           NEW b1 \in Boards, NEW h \in [Companies -> Holds],
           NEW fl \in [Flights -> Sortie], NEW read \in SUBSET Companies,
           NEW b \in Watched(Expired(b1, h[c]), h, fl, read), Saves(b),
           marred' = (marred \cup Missed(b1, read) \cup Cut(b)) \ Fresh(b),
           hold' = [h EXCEPT ![c] = Kept(@)], flight' = fl,
           Aged(b1, h, fl)
    PROVE  Cities'
<1>0. /\ \A o \in Orders :
            /\ b1[o] = board[o] \/ b1[o] = AgoRow(board[o])
            /\ \/ late'[o] = late[o]
               \/ late'[o] = <<AgoRow(late[o][1]), AgoRow(late[o][2])>>
            /\ \A d \in Companies : /\ h[d][o].kg = hold[d][o].kg
                                    /\ h[d][o].good = hold[d][o].good
                                    /\ Alive(h[d][o]) <= Alive(hold[d][o])
            /\ \A f \in Flights : KgFor(fl[f].lines, o) = KgFor(flight[f].lines, o)
      /\ \A f \in Flights :
            /\ DOMAIN fl[f].lines = DOMAIN flight[f].lines
            /\ \A i \in DOMAIN fl[f].lines :
                  /\ fl[f].lines[i].order = flight[f].lines[i].order
                  /\ fl[f].lines[i].good = flight[f].lines[i].good
    BY DEF Aged
<1> DEFINE e == Expired(b1, h[c])
<1>1. h[c] \in Holds /\ e \in Boards
    BY ExpiredType
<1>2. b \in Boards /\ board' = b
    BY <1>1, WatchedType DEF Saves
<1>3. ASSUME NEW o \in Orders
      PROVE  /\ board[o] \in Row /\ b1[o] \in Row /\ e[o] \in Row /\ b[o] \in Row
             /\ Keeps(b1[o], e[o])
             /\ e[o].st = "none" <=> board[o].st = "none"
             /\ late'[o][1].st = "none" <=> late[o][1].st = "none"
    <2>1. board[o] \in Row /\ late[o][1] \in Row
        BY PromisedType DEF PromiseTyped
    <2>2. b1[o].st = "none" <=> board[o].st = "none"
        BY <1>0, <2>1, BlankKept
    <2>3. e[o].st = "none" <=> b1[o].st = "none"
        BY <1>1, ExpiredFollows
    <2>4. late'[o][1].st = "none" <=> late[o][1].st = "none"
        BY <1>0, <2>1, AgoRowParts
    <2> QED
        BY <1>1, <1>2, <2>1, <2>2, <2>3, <2>4, ExpiredKeeps DEF Boards
<1>4. Alone(b)
    BY <1>1, <1>3, WatchedAlone
<1>5. ASSUME NEW o \in Orders
      PROVE  /\ \A k : Underway(o, k)' => Underway(o, k)
             /\ Moving(o)' <= Moving(o)
             /\ \A d \in Companies : hold'[d][o] = h[d][o] \/ hold'[d][o] = NoHold
    <2>1. \A d \in Companies : hold'[d][o] = h[d][o] \/ hold'[d][o] = NoHold
        BY <1>1, KeptType
    <2>2. \A d \in Companies : Alive(hold'[d][o]) <= Alive(hold[d][o])
        <3> SUFFICES ASSUME NEW d \in Companies
                     PROVE  Alive(hold'[d][o]) <= Alive(hold[d][o])
            OBVIOUS
        <3>1. hold[d] \in Holds /\ Alive(hold[d][o]) \in Nat
            BY TypeParts, AliveHeld
        <3> QED
            BY <1>0, <2>1, <3>1 DEF Alive, NoHold
    <2>3. LiveHeld(o)' <= LiveHeld(o)
        BY <2>2, LiveLess
    <2>4. Aboard(o)' = Aboard(o)
        BY <1>0 DEF Aboard
    <2>5. Moving(o)' <= Moving(o)
        BY <2>3, <2>4, MovingNat, MovingNatNext, PromisedType DEF Moving, PromiseTyped
    <2>6. \A k : Underway(o, k)' => Underway(o, k)
        BY <1>0, <2>1 DEF Underway, NoHold
    <2> QED
        BY <2>1, <2>5, <2>6
<1>6. \A o \in Orders : Bare(o) => Still(o)'
    BY <1>5, BareStill DEF Still
<1> HIDE DEF e
<1>7. ASSUME NEW o \in Orders
      PROVE  \/ board[o].st # "none" /\ o \in Cut(b)
             \/ Listed(o, board[o], b[o])
             \/ board[o].st = "none" => b[o].st = "none"
    <2>1. \/ Follows(e[o], b[o], 0)
          \/ e[o].st # "none" /\ o \in Cut(b)
          \/ Listed(o, e[o], b[o])
        BY <1>1, WatchedFollows DEF e
    <2> QED
        BY <1>3, <2>1 DEF Listed, Follows
<1>8. ASSUME NEW o \in Orders, CityKept(o), PromiseKept(o), o \notin Missed(b1, read),
             ~(board[o].st # "none" /\ o \in Cut(b)), ~Listed(o, board[o], b[o])
      PROVE  Leads(board[o], b[o]) /\ CityKept(o)'
    <2>1. Stands(board[o])
        BY <1>8 DEF CityKept
    <2>2. \/ e[o].st # "none" /\ o \in Cut(b)
          \/ Listed(o, e[o], b[o])
          \/ read # Companies /\ b1[o].st = "filled" /\ b1[o].left <= 0
          \/ /\ Leads(board[o], b[o])
             /\ Asks(board[o]) /\ ~Asks(b[o]) =>
                   board[o].st = "open" \/ (read = Companies /\ Claims(h, fl, o, read) = {})
        BY <1>0, <1>1, <1>3, <2>1, WatchedLeads DEF e
    <2>3. /\ Leads(board[o], b[o])
          /\ Asks(board[o]) /\ ~Asks(b[o]) =>
                board[o].st = "open" \/ (read = Companies /\ Claims(h, fl, o, read) = {})
        BY <1>3, <1>8, <2>2 DEF Listed, Missed
    <2>4. LateEnds(o)'
        <3>1. landed[o] > 0 => landed'[o] > 0 \/ board'[o].st = "none"
            BY SavesLanded
        <3>2. board[o].st = "none" => board'[o].st = "none"
            BY <1>2, <1>7, <1>8
        <3> QED
            BY <1>0, <1>8, <3>1, <3>2, LateEndsStep, LateEndsAgo DEF CityKept, PromiseKept
    <2>5. ASSUME Asks(board[o]), ~Asks(b[o]), board[o].st # "open"
          PROVE  Moving(o)' < Wanted[board[o].good]
        <3>1. Moving(o)' = 0
            BY <1>5, <2>3, <2>5, ClaimlessStep
        <3> QED
            BY <1>8, <2>5, <3>1, MovingFits
    <2>6. CityKept(o)'
        BY <1>2, <1>5, <1>8, <2>3, <2>4, <2>5, KeptStep
    <2> QED
        BY <2>3, <2>6
<1> DEFINE M == Missed(b1, read)
<1>9. marred' = (marred \cup M \cup Cut(b)) \ Fresh(b)
    OBVIOUS
<1>10. ASSUME NEW o \in Orders
       PROVE  \/ board[o].st # "none" /\ o \in Cut(b)
              \/ Listed(o, board[o], b[o])
              \/ /\ board[o].st = "none" => b[o].st = "none"
                 /\ o \notin M /\ CityKept(o) /\ PromiseKept(o) =>
                       Leads(board[o], b[o]) /\ CityKept(o)'
    BY <1>7, <1>8
<1>11. \A o \in Orders : late'[o][1].st = "none" <=> late[o][1].st = "none"
    BY <1>3
<1> HIDE DEF M
<1> QED
    BY <1>2, <1>4, <1>6, <1>9, <1>10, <1>11, CityFull

LEMMA LookCity ==
    ASSUME TypeOK, TypeOK', Promises, Cities, NEW c \in Companies, Look(c)
    PROVE  Cities'
<1>1. PICK read \in Reads(c) :
         \E b \in Watched(Expired(board, hold[c]), hold, flight, read) :
          \/ /\ Saves(b)
             /\ hold' = [hold EXCEPT ![c] = Kept(@)]
             /\ marred' = (marred \cup Missed(board, read) \cup Cut(b)) \ Fresh(b)
             /\ UNCHANGED <<flight, late>>
          \/ HalfSaves(b)
    BY DEF Look
<1>2. PICK b \in Watched(Expired(board, hold[c]), hold, flight, read) :
          \/ /\ Saves(b)
             /\ hold' = [hold EXCEPT ![c] = Kept(@)]
             /\ marred' = (marred \cup Missed(board, read) \cup Cut(b)) \ Fresh(b)
             /\ UNCHANGED <<flight, late>>
          \/ HalfSaves(b)
    BY <1>1
<1> DEFINE e == Expired(board, hold[c])
<1>3. /\ e \in Boards /\ read \in SUBSET Companies /\ hold[c] \in Holds
      /\ hold \in [Companies -> Holds] /\ flight \in [Flights -> Sortie]
      /\ board \in Boards
    BY TypeParts, ExpiredType, ReadsType
<1>4. b \in Boards
    BY <1>2, <1>3, WatchedType
<1>5. \A o \in Orders : e[o].st = "none" <=> board[o].st = "none"
    BY <1>3, ExpiredFollows
<1>6. CASE HalfSaves(b)
    <2>1. Alone(b)
        BY <1>2, <1>3, <1>5, WatchedAlone
    <2> HIDE DEF e
    <2>2. ASSUME NEW o \in Orders, board[o].st = "none", b[o].st # "none"
          PROVE  Listed(o, board[o], b[o])
        <3>1. \/ Follows(e[o], b[o], 0)
              \/ e[o].st # "none" /\ o \in Cut(b)
              \/ Listed(o, e[o], b[o])
            BY <1>2, <1>3, WatchedFollows DEF e
        <3> QED
            BY <1>5, <2>2, <3>1 DEF Listed, Follows
    <2> QED
        BY <1>4, <1>6, <2>1, <2>2, CityHalf
<1>7. CASE /\ Saves(b)
           /\ hold' = [hold EXCEPT ![c] = Kept(@)]
           /\ marred' = (marred \cup Missed(board, read) \cup Cut(b)) \ Fresh(b)
           /\ UNCHANGED <<flight, late>>
    <2>1. \A o \in Orders : \A d \in Companies : Alive(hold[d][o]) <= Alive(hold[d][o])
        BY TypeParts, AliveHeld
    <2>2. Aged(board, hold, flight)
        BY <1>7, <2>1 DEF Aged
    <2> QED
        BY <1>2, <1>3, <1>7, <2>2, ReadCity
<1> QED
    BY <1>2, <1>6, <1>7

LEMMA PulseCity ==
    ASSUME TypeOK, TypeOK', Promises, Cities, NEW c \in Companies, Pulse(c)
    PROVE  Cities'
<1> DEFINE b1 == [o \in Orders |-> AgoRow(board[o])]
           h == [d \in Companies |-> [o \in Orders |-> AgoHold(hold[d][o])]]
           fl == [f \in Flights |-> AgoFlight(flight[f])]
<1>1. PICK read \in Reads(c) :
          \E b \in Watched(Expired(b1, h[c]), h, fl, read) :
          /\ Saves(b)
          /\ hold' = [h EXCEPT ![c] = Kept(@)]
          /\ flight' = fl
          /\ late' = [o \in Orders |-> <<AgoRow(late[o][1]), AgoRow(late[o][2])>>]
          /\ marred' = (marred \cup Missed(b1, read) \cup Cut(b)) \ Fresh(b)
    BY DEF Pulse
<1>2. PICK b \in Watched(Expired(b1, h[c]), h, fl, read) :
          /\ Saves(b)
          /\ hold' = [h EXCEPT ![c] = Kept(@)]
          /\ flight' = fl
          /\ late' = [o \in Orders |-> <<AgoRow(late[o][1]), AgoRow(late[o][2])>>]
          /\ marred' = (marred \cup Missed(b1, read) \cup Cut(b)) \ Fresh(b)
    BY <1>1
<1>3. /\ b1 \in Boards /\ h \in [Companies -> Holds] /\ fl \in [Flights -> Sortie]
      /\ read \in SUBSET Companies
    <2>1. b1 \in Boards
        BY TypeParts, ReleasedType DEF Boards
    <2>2. h \in [Companies -> Holds]
        BY TypeParts, AgoType DEF Holds
    <2>3. fl \in [Flights -> Sortie]
        BY TypeParts, AgoType
    <2> QED
        BY <2>1, <2>2, <2>3, ReadsType
<1>4. ASSUME NEW o \in Orders
      PROVE  /\ b1[o] = AgoRow(board[o])
             /\ late'[o] = <<AgoRow(late[o][1]), AgoRow(late[o][2])>>
             /\ \A f \in Flights : KgFor(fl[f].lines, o) = KgFor(flight[f].lines, o)
    BY <1>2, TypeParts, AgoLoads
<1>5. ASSUME NEW o \in Orders, NEW d \in Companies
      PROVE  /\ h[d][o].kg = hold[d][o].kg /\ h[d][o].good = hold[d][o].good
             /\ Alive(h[d][o]) <= Alive(hold[d][o])
    <2> DEFINE x == hold[d][o]
    <2>1. x \in Held /\ h[d][o] = AgoHold(x)
        BY TypeParts DEF Holds
    <2>2. x.kg \in Nat /\ x.left \in Nat /\ DOMAIN x = {"good", "kg", "left"}
        BY <2>1, Limits DEF Held, NoHold
    <2> HIDE DEF x
    <2>3. /\ AgoHold(x).kg = x.kg /\ AgoHold(x).good = x.good
          /\ AgoHold(x).left = Most(x.left - 1, 0)
        BY <2>2 DEF AgoHold
    <2>4. Alive(AgoHold(x)) <= Alive(x)
        BY <2>2, <2>3 DEF Alive, Most
    <2> HIDE DEF h
    <2> QED
        BY <2>1, <2>3, <2>4 DEF x
<1>6. ASSUME NEW f \in Flights
      PROVE  /\ DOMAIN fl[f].lines = DOMAIN flight[f].lines
             /\ \A i \in DOMAIN fl[f].lines :
                   /\ fl[f].lines[i].order = flight[f].lines[i].order
                   /\ fl[f].lines[i].good = flight[f].lines[i].good
    <2>1. fl[f] = AgoFlight(flight[f]) /\ flight[f] \in Sortie
        BY TypeParts
    <2> HIDE DEF fl
    <2> QED
        BY <2>1, AgoLoads
<1> HIDE DEF b1, h, fl
<1>7. /\ Saves(b) /\ hold' = [h EXCEPT ![c] = Kept(@)] /\ flight' = fl
      /\ marred' = (marred \cup Missed(b1, read) \cup Cut(b)) \ Fresh(b)
      /\ b \in Watched(Expired(b1, h[c]), h, fl, read)
    BY <1>2
<1>8. Aged(b1, h, fl)
    BY <1>4, <1>5, <1>6 DEF Aged
<1> QED
    BY <1>3, <1>7, <1>8, ReadCity

LEMMA OpenPortsCity ==
    ASSUME TypeOK, TypeOK', Promises, Cities, NEW c \in Companies, OpenPorts(c)
    PROVE  Cities'
<1>1. /\ hold' = [hold EXCEPT ![c] = Kept(@)]
      /\ UNCHANGED <<board, stock, yard, flight, late, owed, landed, marred, slips>>
    BY DEF OpenPorts
<1>2. ASSUME NEW o \in Orders, CityKept(o), PromiseKept(o)
      PROVE  Leads(board[o], board'[o]) /\ CityKept(o)'
    <2>1. /\ \A d \in Companies : hold'[d][o] = hold[d][o] \/ hold'[d][o] = NoHold
          /\ \A d \in Companies : Alive(hold'[d][o]) <= Alive(hold[d][o])
        <3>1. \A d \in Companies : hold'[d][o] = hold[d][o] \/ hold'[d][o] = NoHold
            BY <1>1, TypeParts, KeptType
        <3>2. \A d \in Companies : hold[d] \in Holds /\ Alive(hold[d][o]) \in Nat
            BY TypeParts, AliveHeld
        <3> QED
            BY <3>1, <3>2 DEF Alive, NoHold
    <2>2. LiveHeld(o)' <= LiveHeld(o) /\ Aboard(o)' = Aboard(o)
        BY <1>1, <2>1, LiveLess DEF Aboard
    <2>3. Moving(o)' <= Moving(o)
        BY <2>2, MovingNat, MovingNatNext, PromisedType DEF Moving, PromiseTyped
    <2>4. \A k : Underway(o, k)' => Underway(o, k)
        BY <1>1, <2>1 DEF Underway, NoHold
    <2>5. board'[o] = board[o] /\ board[o] \in Row
        BY <1>1, TypeParts
    <2>6. Leads(board[o], board'[o])
        BY <1>2, <2>5 DEF Leads, CityKept
    <2>7. LateEnds(o)'
        BY <1>1, <1>2, LateEndsStep DEF CityKept
    <2>8. ~Asks(board'[o]) => ~Asks(board[o])
        BY <2>5
    <2> QED
        BY <1>2, <2>3, <2>4, <2>6, <2>7, <2>8, KeptStep
<1> QED
    BY <1>1, <1>2, CityDesk

-----------------------------------------------------------------------------
(* The desk serves the city.                                               *)

\* An order whose row is left alone.
LEMMA QuietCity ==
    ASSUME TypeOK, TypeOK', NEW o \in Orders, CityKept(o), PromiseKept(o),
           board'[o] = board[o], late'[o] = late[o],
           landed[o] > 0 => landed'[o] > 0 \/ board'[o].st = "none",
           \A k : Underway(o, k)' => Underway(o, k), Moving(o)' <= Moving(o)
    PROVE  Leads(board[o], board'[o]) /\ CityKept(o)'
<1>1. Leads(board[o], board'[o])
    BY DEF Leads, CityKept
<1>2. LateEnds(o)'
    BY LateEndsStep DEF CityKept
<1>3. Asks(board'[o]) <=> Asks(board[o])
    OBVIOUS
<1> QED
    BY <1>1, <1>2, <1>3, KeptStep

LEMMA OfferedKeeps ==
    ASSUME TypeOK, NEW c \in Companies, NEW o \in Orders
    PROVE  Keeps(board[o], Offered(c, o))
<1> DEFINE k == IF o \in Stale(hold[c]) THEN hold[c][o].kg ELSE 0
           d == Due(board[o])
<1>1. board[o] \in Row /\ d \in Row /\ k \in Nat
    BY TypeParts, ReleasedType, HeldNat
<1>2. Offered(c, o) = Restored(d, k)
    BY DEF Offered
<1>3. Keeps(board[o], d)
    BY <1>1, RowKeeps
<1> HIDE DEF k, d
<1>4. Keeps(d, Restored(d, k)) /\ Restored(d, k) \in Row
    BY <1>1, RowKeeps, RestoredType
<1> QED
    BY <1>1, <1>2, <1>3, <1>4, KeepsTwice

\* An order that a company holds or flies a part of.
LEMMA TakingCity ==
    ASSUME TypeOK, TypeOK', NEW o \in Orders, CityKept(o), PromiseKept(o),
           NEW c \in Companies, NEW kg \in Nat, IsOpen(Offered(c, o)),
           kg <= Offered(c, o).rem,
           \/ board'[o] = Taken(Offered(c, o), kg)
           \/ \E until \in Int : board'[o] = Claimed(Taken(Offered(c, o), kg), until),
           late'[o] = late[o], landed[o] > 0 => landed'[o] > 0 \/ board'[o].st = "none",
           \A k : Underway(o, k)' => Underway(o, k) \/ k = Offered(c, o).good
    PROVE  Leads(board[o], board'[o]) /\ CityKept(o)'
<1> DEFINE r == Offered(c, o)
<1>1. r \in Row /\ Keeps(board[o], r) /\ board[o] \in Row
    BY OfferedKeeps, OfferedType, TypeParts
<1>2. Stands(board[o])
    BY DEF CityKept
<1>3. r.st = "open" /\ r.rem > 0 /\ r.left > 0
    BY DEF IsOpen
<1> DEFINE s == board'[o]
<1>4. s = Taken(r, kg) \/ \E until \in Int : s = Claimed(Taken(r, kg), until)
    OBVIOUS
<1>5. kg <= r.rem /\ \A k : Underway(o, k)' => Underway(o, k) \/ k = r.good
    OBVIOUS
<1> HIDE DEF r
<1>6. /\ Sound(r) /\ Asks(r) /\ Asks(board[o]) /\ r.good = board[o].good
      /\ board[o].left > 0
    BY <1>1, <1>2, <1>3 DEF Keeps, Stands, Asks
<1>7. Stands(s) /\ Asks(s) /\ s.good = board[o].good
    <2> HIDE DEF s
    <2>1. /\ Stands(Taken(r, kg)) /\ Asks(Taken(r, kg)) /\ Taken(r, kg).good = r.good
          /\ \A until \in Int : /\ Stands(Claimed(Taken(r, kg), until))
                                /\ Asks(Claimed(Taken(r, kg), until))
                                /\ Claimed(Taken(r, kg), until).good = r.good
        BY <1>1, <1>3, <1>5, <1>6, TakenStands
    <2> QED
        BY <1>4, <1>6, <2>1
<1>8. Leads(board[o], board'[o])
    BY <1>6, <1>7 DEF Leads, Runs
<1>9. board[o].st = "none" => board'[o].st = "none"
    BY <1>6 DEF Asks
<1>10. LateEnds(o)'
    BY <1>9, LateEndsStep DEF CityKept
<1>11. \A k : Underway(o, k)' => Underway(o, k) \/ (Asks(board'[o]) /\ k = board[o].good)
    BY <1>5, <1>6, <1>7
<1> QED
    BY <1>7, <1>8, <1>10, <1>11, KeptStep

\* The holds of one company run out, and nothing else is loaded.
LEMMA HeldLess ==
    ASSUME TypeOK, TypeOK', NEW c \in Companies, NEW o \in Orders,
           \A d \in Companies \ {c} : hold'[d][o] = hold[d][o],
           hold'[c][o] = Kept(hold[c])[o] \/ hold'[c][o] = NoHold,
           Aboard(o)' <= Aboard(o)
    PROVE  Moving(o)' <= Moving(o)
<1>1. \A d \in Companies : Alive(hold'[d][o]) <= Alive(hold[d][o])
    <2> SUFFICES ASSUME NEW d \in Companies
                 PROVE  Alive(hold'[d][o]) <= Alive(hold[d][o])
        OBVIOUS
    <2>1. /\ hold[d] \in Holds /\ Alive(hold[d][o]) \in Nat
          /\ Alive(Kept(hold[d])[o]) = Alive(hold[d][o]) /\ Alive(NoHold) = 0
        BY TypeParts, AliveHeld DEF Alive, NoHold
    <2> QED
        BY <2>1
<1>2. LiveHeld(o)' <= LiveHeld(o)
    BY <1>1, LiveLess
<1> QED
    BY <1>2, MovingNat, MovingNatNext, PromisedType, PromisedTypeNext
       DEF Moving, PromiseTyped

\* A board on which nothing is listed.
LEMMA HalfCity ==
    ASSUME TypeOK, TypeOK', Cities, NEW b \in Boards, HalfSaves(b),
           \A o \in Orders : board[o].st = "none" => b[o].st = "none"
    PROVE  Cities'
<1>1. Alone(b)
    BY DEF Alone
<1> QED
    BY <1>1, CityHalf

LEMMA HoldCity ==
    ASSUME TypeOK, TypeOK', Promises, Cities, NEW c \in Companies, NEW o \in Orders,
           Hold(c, o)
    PROVE  Cities'
<1> DEFINE h == Kept(hold[c])
           r == Offered(c, o)
<1>1. PICK kg \in 1..Least(r.rem, Free(h, c, r.good)) :
             LET until == Least(HoldTtl, r.left)
                 b == [board EXCEPT ![o] = Claimed(Taken(r, kg), until)]
             IN \/ /\ Saves(b)
                   /\ hold' = [hold EXCEPT ![c] = [h EXCEPT ![o] =
                                  [good |-> r.good, kg |-> kg, left |-> until]]]
                   /\ UNCHANGED <<stock, yard, flight, late, owed, marred, slips>>
                \/ HalfSaves(b)
    BY DEF Hold
<1>2. IsOpen(r) /\ h[o].kg = 0
    BY DEF Hold
<1> DEFINE until == Least(HoldTtl, r.left)
           s == Claimed(Taken(r, kg), until)
           b == [board EXCEPT ![o] = s]
           n == [good |-> r.good, kg |-> kg, left |-> until]
<1>3. Taken(r, kg) \in Row /\ r.left \in Nat /\ kg \in Nat /\ kg <= r.rem
    BY <1>2, TakesType
<1>4. until \in Int
    BY <1>3, Limits DEF Least
<1>5. \/ /\ Saves(b)
         /\ hold' = [hold EXCEPT ![c] = [h EXCEPT ![o] = n]]
         /\ UNCHANGED <<flight, late, marred>>
      \/ HalfSaves(b)
    BY <1>1
<1>6. /\ hold \in [Companies -> Holds] /\ hold[c] \in Holds /\ board \in Boards
      /\ h \in Holds /\ \A q \in Orders : h[q] = hold[c][q] \/ h[q] = NoHold
    BY TypeParts, KeptType
<1>7. board[o].st # "none"
    BY <1>2, OfferedFollows DEF IsOpen
<1>8. s \in Row
    BY <1>3, <1>4, ClaimedType
<1>9. n.good = r.good /\ n.kg = kg
    OBVIOUS
<1> HIDE DEF n, until
<1>10. b \in Boards /\ b[o] = s /\ \A q \in Orders : q # o => b[q] = board[q]
    BY <1>6, <1>8 DEF Boards
<1> HIDE DEF s, b
<1>11. CASE HalfSaves(b)
    <2>1. \A q \in Orders : board[q].st = "none" => b[q].st = "none"
        BY <1>7, <1>10
    <2> QED
        BY <1>10, <1>11, <2>1, HalfCity
<1>12. CASE /\ Saves(b)
            /\ hold' = [hold EXCEPT ![c] = [h EXCEPT ![o] = n]]
            /\ UNCHANGED <<flight, late, marred>>
    <2>1. /\ board' = b
          /\ \A q \in Orders : landed[q] > 0 => landed'[q] > 0 \/ board'[q].st = "none"
        BY <1>10, <1>12, SavesLanded DEF Saves
    <2>2. /\ \A q \in Orders : \A d \in Companies \ {c} : hold'[d][q] = hold[d][q]
          /\ hold'[c][o] = n /\ \A q \in Orders : q # o => hold'[c][q] = h[q]
        BY <1>6, <1>12 DEF Holds
    <2>3. ASSUME CityKept(o), PromiseKept(o)
          PROVE  Leads(board[o], board'[o]) /\ CityKept(o)'
        <3>1. \A k : Underway(o, k)' => Underway(o, k) \/ k = r.good
            BY <1>9, <1>12, <2>2 DEF Underway
        <3>2. \E u \in Int : board'[o] = Claimed(Taken(r, kg), u)
            BY <1>4, <1>10, <2>1 DEF s
        <3> QED
            BY <1>2, <1>3, <1>12, <2>1, <2>3, <3>1, <3>2, TakingCity
    <2>4. ASSUME NEW q \in Orders, q # o, CityKept(q), PromiseKept(q)
          PROVE  Leads(board[q], board'[q]) /\ CityKept(q)'
        <3>1. \A k : Underway(q, k)' => Underway(q, k)
            BY <1>6, <1>12, <2>2, <2>4 DEF Underway, NoHold
        <3>2. Aboard(q)' <= Aboard(q)
            BY <1>12, PromisedType DEF Aboard, PromiseTyped
        <3>3. hold'[c][q] = Kept(hold[c])[q]
            BY <2>2, <2>4
        <3>4. Moving(q)' <= Moving(q)
            BY <2>2, <3>2, <3>3, HeldLess
        <3>5. board'[q] = board[q]
            BY <1>10, <2>1, <2>4
        <3> QED
            BY <1>12, <2>1, <2>4, <3>1, <3>4, <3>5, QuietCity
    <2> QED
        BY <1>12, <2>3, <2>4, CityDesk
<1> QED
    BY <1>5, <1>11, <1>12

LEMMA CancelHoldCity ==
    ASSUME TypeOK, TypeOK', Promises, Cities, NEW c \in Companies, NEW o \in Orders,
           CancelHold(c, o)
    PROVE  Cities'
<1> DEFINE h == Kept(hold[c])
           e == Expired(board, hold[c])
           b == [e EXCEPT ![o] = Restored(@, h[o].kg)]
<1>1. \/ /\ Saves(b)
         /\ hold' = [hold EXCEPT ![c] = [h EXCEPT ![o] = NoHold]]
         /\ UNCHANGED <<stock, yard, flight, late, owed, marred, slips>>
      \/ HalfSaves(b)
    BY DEF CancelHold
<1>2. /\ hold \in [Companies -> Holds] /\ hold[c] \in Holds /\ board \in Boards
      /\ h \in Holds /\ e \in Boards /\ h[o].kg \in Nat
      /\ \A q \in Orders : h[q] = hold[c][q] \/ h[q] = NoHold
    BY TypeParts, KeptType, HeldNat, ExpiredType
<1>3. \A q \in Orders : /\ Keeps(board[q], e[q]) /\ board[q] \in Row /\ e[q] \in Row
                        /\ e[q].st = "none" <=> board[q].st = "none"
    BY <1>2, ExpiredKeeps, ExpiredFollows DEF Boards
<1> HIDE DEF e
<1>4. b[o] = Restored(e[o], h[o].kg) /\ \A q \in Orders : q # o => b[q] = e[q]
    BY <1>2 DEF Boards
<1>5. /\ b[o] \in Row /\ Keeps(board[o], b[o])
      /\ b[o].st = "none" <=> e[o].st = "none"
    <2> DEFINE k == h[o].kg
               r == e[o]
    <2>1. k \in Nat /\ r \in Row /\ b[o] = Restored(r, k) /\ Keeps(board[o], r)
        BY <1>2, <1>3, <1>4
    <2> HIDE DEF k, r
    <2>2. /\ Restored(r, k) \in Row /\ Keeps(r, Restored(r, k))
          /\ Restored(r, k).st = "none" <=> r.st = "none"
        BY <2>1, RestoredType, RowKeeps, BlankKept
    <2> QED
        BY <1>3, <2>1, <2>2, KeepsTwice DEF k, r
<1>6. b \in Boards /\ \A q \in Orders : Keeps(board[q], b[q])
    BY <1>2, <1>3, <1>4, <1>5 DEF Boards
<1>7. \A q \in Orders : board[q].st = "none" => b[q].st = "none"
    BY <1>3, <1>4, <1>5
<1> HIDE DEF b
<1>8. CASE HalfSaves(b)
    BY <1>6, <1>7, <1>8, HalfCity
<1>9. CASE /\ Saves(b)
           /\ hold' = [hold EXCEPT ![c] = [h EXCEPT ![o] = NoHold]]
           /\ UNCHANGED <<stock, yard, flight, late, owed, marred, slips>>
    <2>1. /\ board' = b
          /\ \A q \in Orders : landed[q] > 0 => landed'[q] > 0 \/ board'[q].st = "none"
        BY <1>6, <1>9, SavesLanded DEF Saves
    <2>2. /\ \A q \in Orders : \A d \in Companies \ {c} : hold'[d][q] = hold[d][q]
          /\ \A q \in Orders : hold'[c][q] = h[q] \/ hold'[c][q] = NoHold
        BY <1>2, <1>9 DEF Holds
    <2>3. ASSUME NEW q \in Orders, CityKept(q), PromiseKept(q)
          PROVE  Leads(board[q], board'[q]) /\ CityKept(q)'
        <3>1. \A k : Underway(q, k)' => Underway(q, k)
            BY <1>2, <1>9, <2>2 DEF Underway, NoHold
        <3>2. Aboard(q)' <= Aboard(q)
            BY <1>9, PromisedType DEF Aboard, PromiseTyped
        <3>3. Moving(q)' <= Moving(q)
            BY <2>2, <3>2, HeldLess
        <3>4. Stands(board[q]) /\ board[q] \in Row /\ b[q] \in Row
            BY <1>3, <1>6, <2>3 DEF CityKept, Boards
        <3>5. Leads(board[q], b[q]) /\ (Asks(board[q]) /\ ~Asks(b[q]) => board[q].st = "open")
            BY <1>6, <3>4, KeepsLeads
        <3>6. LateEnds(q)'
            BY <1>7, <1>9, <2>1, <2>3, LateEndsStep DEF CityKept
        <3> QED
            BY <2>1, <2>3, <3>1, <3>3, <3>5, <3>6, KeptStep
    <2> QED
        BY <1>9, <2>3, CityDesk
<1> QED
    BY <1>1, <1>8, <1>9

LEMMA FlyNowCity ==
    ASSUME TypeOK, TypeOK', Promises, Cities, NEW c \in Companies, NEW o \in Orders,
           NEW f \in Flights, FlyNow(c, o, f)
    PROVE  Cities'
<1> DEFINE h == Kept(hold[c])
           r == Offered(c, o)
<1>1. flight[f] = Grounded /\ IsOpen(r) /\ h[o].kg = 0
    BY DEF FlyNow
<1>2. PICK kg \in 1..Least(r.rem, Free(h, c, r.good)) :
             LET b == [board EXCEPT ![o] = Taken(r, kg)]
             IN \/ /\ Saves(b)
                   /\ hold' = [hold EXCEPT ![c] = h]
                   /\ stock' = [stock EXCEPT ![c][r.good] = @ - kg]
                   /\ flight' = [flight EXCEPT ![f] =
                                   [by |-> c, order |-> o, lines |-> <<Line(o, r.good, kg, r)>>]]
                   /\ UNCHANGED <<yard, late, owed, marred, slips>>
                \/ HalfSaves(b)
    BY DEF FlyNow
<1> DEFINE s == Taken(r, kg)
           b == [board EXCEPT ![o] = s]
           l == Line(o, r.good, kg, r)
           x == [by |-> c, order |-> o, lines |-> <<l>>]
<1>3. s \in Row /\ kg \in Nat /\ kg <= r.rem /\ kg > 0 /\ r.good \in Goods
    BY <1>1, TakesType
<1>4. \/ /\ Saves(b)
         /\ hold' = [hold EXCEPT ![c] = h]
         /\ flight' = [flight EXCEPT ![f] = x]
         /\ UNCHANGED <<late, marred>>
      \/ HalfSaves(b)
    BY <1>2
<1>5. board[o].st # "none" /\ r \in Row
    BY <1>1, OfferedFollows DEF IsOpen
<1>6. /\ hold \in [Companies -> Holds] /\ hold[c] \in Holds /\ board \in Boards
      /\ flight \in [Flights -> Sortie]
      /\ \A q \in Orders : h[q] = hold[c][q] \/ h[q] = NoHold
    BY TypeParts, KeptType
<1>7. l \in Loads /\ l.kg = kg /\ l.order = o /\ l.good = r.good
    BY <1>3, <1>5, LineType DEF Line
<1> HIDE DEF l
<1>8. b \in Boards /\ b[o] = s /\ \A q \in Orders : q # o => b[q] = board[q]
    BY <1>3, <1>6 DEF Boards
<1>9. /\ x.lines = <<l>> /\ DOMAIN x.lines = {1} /\ x.lines[1] = l
      /\ \A q \in Orders : q # o => KgFor(x.lines, q) = 0
    BY <1>7, OneLineFor
<1> HIDE DEF b, x, s
<1>10. CASE HalfSaves(b)
    <2>1. \A q \in Orders : board[q].st = "none" => b[q].st = "none"
        BY <1>5, <1>8
    <2> QED
        BY <1>8, <1>10, <2>1, HalfCity
<1>11. CASE /\ Saves(b)
            /\ hold' = [hold EXCEPT ![c] = h]
            /\ flight' = [flight EXCEPT ![f] = x]
            /\ UNCHANGED <<late, marred>>
    <2>1. /\ board' = b
          /\ \A q \in Orders : landed[q] > 0 => landed'[q] > 0 \/ board'[q].st = "none"
        BY <1>8, <1>11, SavesLanded DEF Saves
    <2>2. /\ \A q \in Orders : /\ \A d \in Companies \ {c} : hold'[d][q] = hold[d][q]
                               /\ hold'[c][q] = h[q]
          /\ \A e \in Flights \ {f} : flight'[e] = flight[e]
          /\ flight'[f] = x
        BY <1>6, <1>11
    <2>3. ASSUME NEW q \in Orders, NEW k, Underway(q, k)'
          PROVE  Underway(q, k) \/ (q = o /\ k = r.good)
        <3>1. CASE \E d \in Companies : hold'[d][q].kg > 0 /\ hold'[d][q].good = k
            BY <1>6, <2>2, <3>1 DEF Underway, NoHold
        <3>2. CASE \E e \in Flights : \E i \in DOMAIN flight'[e].lines :
                      flight'[e].lines[i].order = q /\ flight'[e].lines[i].good = k
            BY <1>7, <1>9, <2>2, <3>2 DEF Underway
        <3> QED
            BY <2>3, <3>1, <3>2 DEF Underway
    <2>4. ASSUME CityKept(o), PromiseKept(o)
          PROVE  Leads(board[o], board'[o]) /\ CityKept(o)'
        <3>1. \A k : Underway(o, k)' => Underway(o, k) \/ k = r.good
            BY <2>3
        <3>2. board'[o] = Taken(r, kg)
            BY <1>8, <2>1 DEF s
        <3> QED
            BY <1>1, <1>3, <1>11, <2>1, <2>4, <3>1, <3>2, TakingCity
    <2>5. ASSUME NEW q \in Orders, q # o, CityKept(q), PromiseKept(q)
          PROVE  Leads(board[q], board'[q]) /\ CityKept(q)'
        <3>1. \A k : Underway(q, k)' => Underway(q, k)
            BY <2>3, <2>5
        <3>2. Aboard(q)' + KgFor(flight[f].lines, q) = Aboard(q) + KgFor(flight'[f].lines, q)
            BY <2>2, CargoChanged
        <3>3. KgFor(flight[f].lines, q) = 0 /\ KgFor(flight'[f].lines, q) = 0
            BY <1>1, <1>9, <2>2, <2>5, GroundedFor
        <3>4. Aboard(q)' <= Aboard(q)
            BY <3>2, <3>3, PromisedType, PromisedTypeNext DEF PromiseTyped
        <3>5. Moving(q)' <= Moving(q)
            BY <2>2, <3>4, HeldLess
        <3>6. board'[q] = board[q]
            BY <1>8, <2>1, <2>5
        <3> QED
            BY <1>11, <2>1, <2>5, <3>1, <3>5, <3>6, QuietCity
    <2> QED
        BY <1>11, <2>4, <2>5, CityDesk
<1> QED
    BY <1>4, <1>10, <1>11

\* Holds become a flight: they live, or they could not be loaded.
LEMMA DispatchCity ==
    ASSUME TypeOK, TypeOK', Promises, Cities, NEW c \in Companies, NEW f \in Flights,
           Dispatch(c, f)
    PROVE  Cities'
<1> DEFINE h == Kept(hold[c])
<1>1. flight[f] = Grounded
    BY DEF Dispatch
<1>2. PICK p \in Picks(h) :
       /\ \A g \in Goods : Loaded(h, p, g) <= stock[c][g]
       /\ hold' = [hold EXCEPT ![c] = [o \in Orders |->
                     IF h[o].kg = Drawn(p, o) THEN NoHold
                     ELSE [h[o] EXCEPT !.kg = h[o].kg - Drawn(p, o)]]]
       /\ stock' = [stock EXCEPT ![c] = [g \in Goods |-> @[g] - Loaded(h, p, g)]]
       /\ flight' = [flight EXCEPT ![f] =
                       [by |-> c, order |-> p[1][1],
                        lines |-> [i \in DOMAIN p |->
                          Line(p[i][1], h[p[i][1]].good, p[i][2],
                               Pruned(Offered(c, p[i][1])))]]]
       /\ UNCHANGED <<board, yard, late, owed, landed, marred, slips>>
    BY DEF Dispatch
<1>3. /\ h \in Holds /\ hold \in [Companies -> Holds] /\ hold[c] \in Holds
      /\ flight \in [Flights -> Sortie]
    BY TypeParts, KeptType
<1>4. \A q \in Orders : /\ h[q] = hold[c][q] \/ h[q] = NoHold
                        /\ h[q].kg \in Nat /\ h[q].left \in Nat
                        /\ Alive(hold[c][q]) = h[q].kg
    <2> SUFFICES ASSUME NEW q \in Orders
                 PROVE  /\ h[q] = hold[c][q] \/ h[q] = NoHold
                        /\ h[q].kg \in Nat /\ h[q].left \in Nat
                        /\ Alive(hold[c][q]) = h[q].kg
        OBVIOUS
    <2>1. /\ h[q] = hold[c][q] \/ h[q] = NoHold
          /\ h[q].kg \in Nat /\ h[q].left \in Nat
          /\ hold[c][q].kg \in Nat /\ hold[c][q].left \in Nat
        BY <1>3, KeptType, HeldNat
    <2>2. h[q] = IF hold[c][q].kg > 0 /\ hold[c][q].left <= 0 THEN NoHold ELSE hold[c][q]
        BY DEF Kept, Stale
    <2> HIDE DEF h
    <2> QED
        BY <2>1, <2>2 DEF Alive, NoHold
<1> HIDE DEF h
<1>5. PICK n \in Nat \ {0} :
             /\ p \in [1..n -> Orders \X Nat] /\ DOMAIN p = 1..n
             /\ \A i \in 1..n : /\ p[i][1] \in Orders /\ p[i][2] \in Nat /\ p[i][2] > 0
                                /\ p[i][2] <= h[p[i][1]].kg
                                /\ h[p[i][1]].good \in Goods
             /\ \A i, j \in 1..n : i # j => p[i][1] # p[j][1]
    BY <1>3, PicksParts
<1> DEFINE cargo == [i \in DOMAIN p |-> Line(p[i][1], h[p[i][1]].good, p[i][2],
                                             Pruned(Offered(c, p[i][1])))]
<1>6. DOMAIN cargo = 1..n /\
      \A i \in 1..n : /\ cargo[i].kg = p[i][2] /\ cargo[i].order = p[i][1]
                      /\ cargo[i].good = h[p[i][1]].good
    BY <1>5 DEF Line
<1>7. /\ flight'[f].lines = cargo
      /\ \A e \in Flights \ {f} : flight'[e] = flight[e]
    BY <1>2, <1>3
<1> HIDE DEF cargo
<1>8. \A q \in Orders : KgFor(cargo, q) = Drawn(p, q)
    <2> SUFFICES ASSUME NEW q \in Orders PROVE KgFor(cargo, q) = Drawn(p, q)
        OBVIOUS
    <2>1. [i \in DOMAIN cargo |-> IF cargo[i].order = q THEN cargo[i].kg ELSE 0]
              = [i \in DOMAIN p |-> IF p[i][1] = q THEN p[i][2] ELSE 0]
        BY <1>5, <1>6
    <2> QED
        BY <2>1 DEF KgFor, Drawn
<1>9. ASSUME NEW q \in Orders
      PROVE  /\ Drawn(p, q) \in Nat /\ Drawn(p, q) <= h[q].kg
             /\ Alive(hold'[c][q]) \in Nat
             /\ Alive(hold'[c][q]) + Drawn(p, q) <= Alive(hold[c][q])
             /\ \A d \in Companies \ {c} : hold'[d][q] = hold[d][q]
             /\ hold'[c][q].kg > 0 => /\ hold[c][q].kg > 0
                                      /\ hold'[c][q].good = hold[c][q].good
    <2>1. Drawn(p, q) \in Nat /\ Drawn(p, q) <= h[q].kg
        BY <1>3, DrawnHeld
    <2>2. hold'[c][q] = IF h[q].kg = Drawn(p, q) THEN NoHold
                        ELSE [h[q] EXCEPT !.kg = h[q].kg - Drawn(p, q)]
        BY <1>2, <1>3
    <2>3. DOMAIN h[q] = {"good", "kg", "left"}
        BY <1>3 DEF Holds, Held, NoHold
    <2>4. \A d \in Companies \ {c} : hold'[d][q] = hold[d][q]
        BY <1>2, <1>3
    <2>5. CASE h[q].kg = Drawn(p, q)
        BY <1>4, <2>1, <2>2, <2>4, <2>5 DEF Alive, NoHold
    <2>6. CASE h[q].kg # Drawn(p, q)
        <3>1. /\ hold'[c][q].kg = h[q].kg - Drawn(p, q) /\ hold'[c][q].good = h[q].good
            BY <2>2, <2>3, <2>6
        <3>2. Alive(hold'[c][q]) = 0 \/ Alive(hold'[c][q]) = h[q].kg - Drawn(p, q)
            BY <3>1 DEF Alive
        <3>3. h[q] = hold[c][q]
            BY <1>4, <2>1, <2>6 DEF NoHold
        <3> QED
            BY <1>4, <2>1, <2>4, <2>6, <3>1, <3>2, <3>3
    <2> QED
        BY <2>5, <2>6
<1>10. ASSUME NEW q \in Orders, NEW k, Underway(q, k)'
       PROVE  Underway(q, k)
    <2>1. CASE \E d \in Companies : hold'[d][q].kg > 0 /\ hold'[d][q].good = k
        BY <1>9, <2>1 DEF Underway
    <2>2. CASE \E e \in Flights : \E i \in DOMAIN flight'[e].lines :
                  flight'[e].lines[i].order = q /\ flight'[e].lines[i].good = k
        <3>1. PICK e \in Flights : \E i \in DOMAIN flight'[e].lines :
                  flight'[e].lines[i].order = q /\ flight'[e].lines[i].good = k
            BY <2>2
        <3>2. CASE e = f
            <4>1. PICK i \in 1..n : p[i][1] = q /\ h[q].good = k
                BY <1>6, <1>7, <3>1, <3>2
            <4>2. h[q].kg > 0
                BY <1>4, <1>5, <4>1
            <4>3. hold[c][q].kg > 0 /\ hold[c][q].good = k
                BY <1>4, <4>1, <4>2 DEF NoHold
            <4> QED
                BY <4>3 DEF Underway
        <3>3. CASE e # f
            BY <1>7, <3>1, <3>3 DEF Underway
        <3> QED
            BY <3>2, <3>3
    <2> QED
        BY <1>10, <2>1, <2>2 DEF Underway
<1>11. ASSUME NEW q \in Orders
       PROVE  Moving(q)' <= Moving(q)
    <2>1. LiveHeld(q)' + Alive(hold[c][q]) = LiveHeld(q) + Alive(hold'[c][q])
        BY <1>9, LiveChanged
    <2>2. Aboard(q)' + KgFor(flight[f].lines, q) = Aboard(q) + KgFor(flight'[f].lines, q)
        BY <1>7, CargoChanged
    <2>3. KgFor(flight[f].lines, q) = 0 /\ KgFor(flight'[f].lines, q) = Drawn(p, q)
        BY <1>1, <1>7, <1>8, GroundedFor
    <2>4. /\ LiveHeld(q) \in Nat /\ LiveHeld(q)' \in Nat
          /\ Aboard(q) \in Nat /\ Aboard(q)' \in Nat
        BY PromisedType, PromisedTypeNext, MovingNat, MovingNatNext DEF PromiseTyped
    <2>5. Alive(hold[c][q]) \in Nat
        BY <1>4
    <2> QED
        BY <1>9, <2>1, <2>2, <2>3, <2>4, <2>5 DEF Moving
<1>12. ASSUME NEW q \in Orders, CityKept(q), PromiseKept(q)
       PROVE  Leads(board[q], board'[q]) /\ CityKept(q)'
    BY <1>2, <1>10, <1>11, <1>12, QuietCity
<1> QED
    BY <1>2, <1>12, CityDesk

-----------------------------------------------------------------------------
(* Flights that end, late saves and manifests, for the city.               *)

\* What may be saved late of the row s: it does not end for nothing.
Ends(o, s, r) ==
    /\ Leads(s, r)
    /\ r # s => r.st # "filled" /\ (r.st = "open" => r.rem > 0 /\ r.left = s.left)
    /\ Asks(s) /\ ~Asks(r) =>
          landed'[o] > 0 /\ (s.st = "open" \/ Moving(o)' < Wanted[s.good])

\* An order whose row is saved after the locks, now or later.
LEMMA LaterCity ==
    ASSUME TypeOK, TypeOK', NEW x \in Orders, NEW r \in Row, SavesLater(x, r),
           NEW q \in Orders, CityKept(q), PromiseKept(q),
           \A k : Underway(q, k)' => Underway(q, k), Moving(q)' <= Moving(q),
           landed[q] > 0 => landed'[q] > 0 \/ board'[q].st = "none",
           q = x => Ends(q, board[q], r)
    PROVE  Leads(board[q], board'[q]) /\ CityKept(q)'
<1>1. /\ late[x][1].st = "none"
      /\ \/ /\ r # board[x]
            /\ late' = [late EXCEPT ![x] = <<r, board[x]>>]
            /\ board' = board
         \/ /\ board' = [board EXCEPT ![x] = r]
            /\ late' = late
    BY DEF SavesLater
<1>2. board \in [Orders -> Row] /\ late \in [Orders -> Row \X Row]
    BY DEF TypeOK
<1>3. CASE q # x
    <2>1. board'[q] = board[q] /\ late'[q] = late[q]
        BY <1>1, <1>2, <1>3
    <2> QED
        BY <2>1, QuietCity
<1>4. CASE q = x /\ late' = late /\ board' = [board EXCEPT ![x] = r]
    <2>1. board'[q] = r /\ late'[q][1].st = "none"
        BY <1>1, <1>2, <1>4
    <2>2. LateEnds(q)'
        BY <2>1 DEF LateEnds
    <2>3. /\ Leads(board[q], board'[q])
          /\ Asks(board[q]) /\ ~Asks(board'[q]) =>
                board[q].st = "open" \/ Moving(q)' < Wanted[board[q].good]
        BY <1>4, <2>1 DEF Ends
    <2> QED
        BY <2>2, <2>3, KeptStep
<1>5. CASE /\ q = x /\ board' = board /\ r # board[x]
           /\ late' = [late EXCEPT ![x] = <<r, board[x]>>]
    <2>1. late'[q][1] = r /\ late'[q][2] = board[q] /\ board'[q] = board[q]
        BY <1>2, <1>5
    <2>2. LateEnds(q)'
        BY <1>5, <2>1 DEF LateEnds, Ends, Asks
    <2>3. Leads(board[q], board'[q])
        BY <2>1 DEF Leads, CityKept
    <2>4. ~Asks(board'[q]) => ~Asks(board[q])
        BY <2>1
    <2> QED
        BY <2>2, <2>3, <2>4, KeptStep
<1> QED
    BY <1>1, <1>3, <1>4, <1>5

\* What is given back of a flight keeps its order.
LEMMA BackEnds ==
    ASSUME TypeOK, NEW o \in Orders, CityKept(o), NEW k \in Nat
    PROVE  Ends(o, board[o], GivenBack(board[o], k))
<1> DEFINE s == board[o]
           r == GivenBack(s, k)
<1>1. s \in Row /\ Stands(s)
    BY TypeParts DEF CityKept
<1> HIDE DEF s
<1>2. r \in Row /\ Keeps(s, r)
    BY <1>1, RowKeeps, RestoredType
<1>3. Leads(s, r)
    BY <1>1, <1>2, KeepsLeads
<1>4. CASE r = s
    BY <1>3, <1>4 DEF Ends, s
<1>5. CASE r # s
    <2>1. s.st # "none" /\ k # 0
        BY <1>5 DEF GivenBack
    <2>2. /\ s.rem \in Nat /\ Wanted[s.good] \in Nat /\ Wanted[s.good] > 0
          /\ DOMAIN s = {"st", "good", "rem", "left"}
        BY <1>1, <2>1, RowShape DEF NoRow
    <2> DEFINE st == IF s.st = "filled" THEN "open" ELSE s.st
               rem == Least(Wanted[s.good], s.rem + k)
    <2>3. r = [s EXCEPT !.st = st, !.rem = rem]
        BY <2>1 DEF GivenBack
    <2>4. rem \in Nat /\ rem > 0 /\ st # "filled" /\ (Asks(s) => st = "open")
        BY <2>1, <2>2 DEF Least, Asks
    <2> HIDE DEF st, rem
    <2>5. r.st = st /\ r.rem = rem /\ r.left = s.left
        BY <2>2, <2>3
    <2> HIDE DEF r
    <2>6. r.st # "filled" /\ (r.st = "open" => r.rem > 0 /\ r.left = s.left)
        BY <2>4, <2>5
    <2>7. Asks(s) => Asks(r)
        BY <2>4, <2>5 DEF Asks
    <2> QED
        BY <1>3, <2>6, <2>7 DEF Ends, r, s
<1> QED
    BY <1>4, <1>5 DEF s

\* One flight changes, and carries nothing else than it did.
LEMMA FlightMoves ==
    ASSUME TypeOK, TypeOK', NEW f \in Flights, hold' = hold,
           \A e \in Flights \ {f} : flight'[e] = flight[e],
           \A i \in DOMAIN flight'[f].lines : \E j \in DOMAIN flight[f].lines :
              /\ flight'[f].lines[i].order = flight[f].lines[j].order
              /\ flight'[f].lines[i].good = flight[f].lines[j].good,
           NEW q \in Orders
    PROVE  /\ \A k : Underway(q, k)' => Underway(q, k)
           /\ Moving(q)' + KgFor(flight[f].lines, q) = Moving(q) + KgFor(flight'[f].lines, q)
           /\ KgFor(flight[f].lines, q) \in Nat /\ KgFor(flight'[f].lines, q) \in Nat
           /\ Moving(q) \in Nat /\ Moving(q)' \in Nat
<1>1. ASSUME NEW k, Underway(q, k)' PROVE Underway(q, k)
    <2>1. CASE \E c \in Companies : hold'[c][q].kg > 0 /\ hold'[c][q].good = k
        BY <2>1 DEF Underway
    <2>2. CASE \E e \in Flights : \E i \in DOMAIN flight'[e].lines :
                  flight'[e].lines[i].order = q /\ flight'[e].lines[i].good = k
        <3>1. PICK e \in Flights : \E i \in DOMAIN flight'[e].lines :
                  flight'[e].lines[i].order = q /\ flight'[e].lines[i].good = k
            BY <2>2
        <3>2. CASE e = f
            BY <3>1, <3>2 DEF Underway
        <3>3. CASE e # f
            BY <3>1, <3>3 DEF Underway
        <3> QED
            BY <3>2, <3>3
    <2> QED
        BY <1>1, <2>1, <2>2 DEF Underway
<1>2. Aboard(q)' + KgFor(flight[f].lines, q) = Aboard(q) + KgFor(flight'[f].lines, q)
    BY CargoChanged
<1>3. flight[f] \in Sortie /\ flight'[f] \in Sortie
    BY DEF TypeOK
<1>4. KgFor(flight[f].lines, q) \in Nat /\ KgFor(flight'[f].lines, q) \in Nat
    BY <1>3, LoadNat
<1>5. LiveHeld(q)' = LiveHeld(q)
    BY DEF LiveHeld
<1>6. /\ Aboard(q) \in Nat /\ Aboard(q)' \in Nat /\ LiveHeld(q) \in Nat
      /\ Moving(q) \in Nat /\ Moving(q)' \in Nat
    BY PromisedType, PromisedTypeNext, MovingNat, MovingNatNext DEF PromiseTyped
<1>7. Moving(q)' + KgFor(flight[f].lines, q) = Moving(q) + KgFor(flight'[f].lines, q)
    BY <1>2, <1>4, <1>5, <1>6 DEF Moving
<1> QED
    BY <1>1, <1>4, <1>6, <1>7

LEMMA GoneMoves ==
    ASSUME TypeOK, TypeOK', NEW f \in Flights, flight' = [flight EXCEPT ![f] = Grounded],
           hold' = hold, NEW q \in Orders
    PROVE  /\ \A k : Underway(q, k)' => Underway(q, k)
           /\ Moving(q)' + KgFor(flight[f].lines, q) = Moving(q)
           /\ KgFor(flight[f].lines, q) \in Nat
           /\ Moving(q) \in Nat /\ Moving(q)' \in Nat /\ Moving(q)' <= Moving(q)
<1>1. flight \in [Flights -> Sortie]
    BY DEF TypeOK
<1>2. flight'[f] = Grounded /\ \A e \in Flights \ {f} : flight'[e] = flight[e]
    BY <1>1
<1>3. DOMAIN flight'[f].lines = {}
    BY <1>2 DEF Grounded
<1>4. KgFor(flight'[f].lines, q) = 0
    BY <1>2, GroundedFor
<1>5. /\ \A k : Underway(q, k)' => Underway(q, k)
      /\ Moving(q)' + KgFor(flight[f].lines, q) = Moving(q) + KgFor(flight'[f].lines, q)
      /\ KgFor(flight[f].lines, q) \in Nat
      /\ Moving(q) \in Nat /\ Moving(q)' \in Nat
    BY <1>2, <1>3, FlightMoves
<1>6. Moving(q)' + KgFor(flight[f].lines, q) = Moving(q)
    BY <1>4, <1>5
<1>7. Moving(q)' <= Moving(q)
    BY <1>5, <1>6
<1> QED
    BY <1>5, <1>6, <1>7

LEMMA CancelCity ==
    ASSUME TypeOK, TypeOK', Promises, Cities, NEW f \in Flights, Cancel(f)
    PROVE  Cities'
<1> DEFINE x == flight[f]
           o == x.order
           k == KgFor(x.lines, o)
           r == GivenBack(board[o], k)
<1>1. /\ x # Grounded /\ flight' = [flight EXCEPT ![f] = Grounded]
      /\ SavesLater(o, r) /\ UNCHANGED <<hold, owed, landed, marred>>
    BY DEF Cancel
<1>2. o \in Orders /\ k \in Nat /\ board[o] \in Row
    BY <1>1, TypeParts, SortieParts, LoadNat
<1> HIDE DEF o, k, x
<1>3. r \in Row
    BY <1>2, RestoredType
<1>4. ASSUME NEW q \in Orders, CityKept(q), PromiseKept(q)
      PROVE  Leads(board[q], board'[q]) /\ CityKept(q)'
    <2>1. (\A g : Underway(q, g)' => Underway(q, g)) /\ Moving(q)' <= Moving(q)
        BY <1>1, GoneMoves
    <2>2. q = o => Ends(q, board[q], r)
        BY <1>2, <1>4, BackEnds
    <2>3. landed[q] > 0 => landed'[q] > 0 \/ board'[q].st = "none"
        BY <1>1
    <2> HIDE DEF r
    <2> QED
        BY <1>1, <1>2, <1>3, <1>4, <2>1, <2>2, <2>3, LaterCity
<1> QED
    BY <1>1, <1>4, CityDesk

\* A settlement: an order that is filled is over, and a part of it has landed.
LEMMA SettleCity ==
    ASSUME TypeOK, TypeOK', Promises, Cities, NEW f \in Flights, Settle(f)
    PROVE  Cities'
<1> DEFINE x == flight[f]
           o == x.order
           k == KgFor(x.lines, o)
           r == IF k > 0 THEN Released(board[o]) ELSE board[o]
<1>1. /\ x # Grounded /\ flight' = [flight EXCEPT ![f] = Grounded]
      /\ landed' = [q \in Orders |-> IF q \in Blank(board) THEN 0
                       ELSE Least(MaxWanted + 1, landed[q] + KgFor(x.lines, q))]
      /\ SavesLater(o, r) /\ UNCHANGED <<hold, stock, yard, marred>>
    BY DEF Settle
<1>2. o \in Orders /\ board[o] \in Row
    BY <1>1, TypeParts, SortieParts
<1>3. k = KgFor(x.lines, o) /\ x = flight[f]
    OBVIOUS
<1> HIDE DEF o, x, k
<1>4. r \in Row /\ (r.st = "none" <=> board[o].st = "none")
    BY <1>2, ReleasedType, BlankKept
<1> HIDE DEF r
<1>5. ASSUME NEW q \in Orders
      PROVE  /\ \A g : Underway(q, g)' => Underway(q, g)
             /\ Moving(q)' + KgFor(x.lines, q) = Moving(q) /\ Moving(q)' <= Moving(q)
             /\ KgFor(x.lines, q) \in Nat /\ Moving(q) \in Nat /\ Moving(q)' \in Nat
    BY <1>1, <1>3, GoneMoves
<1>6. ASSUME NEW q \in Orders
      PROVE  /\ landed[q] > 0 => landed'[q] > 0 \/ board'[q].st = "none"
             /\ board[q].st # "none" /\ KgFor(x.lines, q) > 0 => landed'[q] > 0
    <2>1. landed[q] \in Nat /\ KgFor(x.lines, q) \in Nat /\ MaxWanted \in Nat
        BY <1>5, MaxWantedNat, PromisedType DEF PromiseTyped
    <2>2. landed'[q] = IF board[q].st = "none" THEN 0
                       ELSE Least(MaxWanted + 1, landed[q] + KgFor(x.lines, q))
        BY <1>1 DEF Blank
    <2>3. board[q].st = "none" => board'[q].st = "none"
        <3>1. board \in [Orders -> Row]
            BY DEF TypeOK
        <3> QED
            BY <1>1, <1>4, <3>1 DEF SavesLater
    <2> QED
        BY <2>1, <2>2, <2>3 DEF Least
<1>7. ASSUME NEW q \in Orders, q = o, CityKept(q), PromiseKept(q)
      PROVE  Ends(q, board[q], r)
    <2> DEFINE s == board[q]
    <2>1. s \in Row /\ Stands(s)
        BY <1>2, <1>7 DEF CityKept
    <2>2. CASE r = s
        BY <2>1, <2>2 DEF Ends, Leads
    <2>3. CASE r # s
        <3>1. k > 0 /\ s.st = "filled" /\ r = Closed(s)
            BY <1>7, <2>3 DEF r, Released
        <3>2. DOMAIN s = {"st", "good", "rem", "left"}
            BY <2>1, <3>1, RowShape DEF NoRow
        <3>3. r.st = "expired" /\ r.left = -Day
            BY <3>1, <3>2 DEF Closed
        <3>4. Leads(s, r)
            BY <3>3, Limits DEF Leads, Stands, Sound, Past, Asks, Runs
        <3>5. landed'[q] > 0
            BY <1>3, <1>6, <1>7, <3>1
        <3>6. /\ Wanted[s.good] \in Nat /\ landed[q] \in Nat /\ s.rem \in Nat
              /\ Moving(q) + landed[q] + s.rem <= Wanted[s.good]
            BY <1>2, <1>7, <3>1, MovingFits DEF Asks
        <3>7. /\ Moving(q)' + k = Moving(q) /\ k \in Nat
              /\ Moving(q) \in Nat /\ Moving(q)' \in Nat
            BY <1>3, <1>5, <1>7
        <3>8. Moving(q)' < Wanted[s.good]
            BY <3>1, <3>6, <3>7
        <3> QED
            BY <3>3, <3>4, <3>5, <3>8 DEF Ends
    <2> QED
        BY <2>2, <2>3
<1>8. ASSUME NEW q \in Orders, CityKept(q), PromiseKept(q)
      PROVE  Leads(board[q], board'[q]) /\ CityKept(q)'
    BY <1>1, <1>2, <1>4, <1>5, <1>6, <1>7, <1>8, LaterCity
<1> QED
    BY <1>1, <1>8, CityDesk

LEMMA ImpactCity ==
    ASSUME TypeOK, TypeOK', Promises, Cities, NEW f \in Flights, Impact(f)
    PROVE  Cities'
<1>1. /\ flight' = [flight EXCEPT ![f] = Grounded]
      /\ UNCHANGED <<board, hold, stock, yard, late, landed, marred, slips>>
    BY DEF Impact
<1>2. ASSUME NEW q \in Orders, CityKept(q), PromiseKept(q)
      PROVE  Leads(board[q], board'[q]) /\ CityKept(q)'
    BY <1>1, <1>2, GoneMoves, QuietCity
<1> QED
    BY <1>1, <1>2, CityDesk

\* Warehouses change, or nothing.
LEMMA CargoCity ==
    ASSUME TypeOK, TypeOK', Promises, Cities,
           UNCHANGED <<board, hold, flight, late, landed, marred>>
    PROVE  Cities'
<1>1. ASSUME NEW q \in Orders, CityKept(q), PromiseKept(q)
      PROVE  Leads(board[q], board'[q]) /\ CityKept(q)'
    <2>1. Moving(q)' = Moving(q) /\ \A k : Underway(q, k)' <=> Underway(q, k)
        BY DEF Moving, LiveHeld, Aboard, Underway
    <2>2. Moving(q)' <= Moving(q)
        BY <2>1, MovingNat
    <2> QED
        BY <1>1, <2>1, <2>2, QuietCity
<1> QED
    BY <1>1, CityDesk

LEMMA LateSaveCity ==
    ASSUME TypeOK, TypeOK', Promises, Cities, NEW o \in Orders, LateSave(o)
    PROVE  Cities'
<1>1. /\ late[o][1].st # "none"
      /\ board' = [board EXCEPT ![o] = late[o][1]]
      /\ late' = [late EXCEPT ![o] = <<NoRow, NoRow>>]
      /\ marred' = marred \cup (IF board[o] = late[o][2] THEN {} ELSE {o})
      /\ UNCHANGED <<hold, flight, landed>>
    BY DEF LateSave, row
<1>2. board \in [Orders -> Row] /\ late \in [Orders -> Row \X Row]
    BY DEF TypeOK
<1>3. ASSUME NEW q \in Orders
      PROVE  /\ Moving(q)' = Moving(q) /\ Moving(q)' <= Moving(q)
             /\ \A k : Underway(q, k)' => Underway(q, k)
    <2>1. Moving(q)' = Moving(q) /\ \A k : Underway(q, k)' <=> Underway(q, k)
        BY <1>1 DEF Moving, LiveHeld, Aboard, Underway
    <2> QED
        BY <2>1, MovingNat
<1>4. ASSUME NEW q \in Orders, q # o, CityKept(q), PromiseKept(q)
      PROVE  Leads(board[q], board'[q]) /\ CityKept(q)'
    <2>1. board'[q] = board[q] /\ late'[q] = late[q]
        BY <1>1, <1>2, <1>4
    <2> QED
        BY <1>1, <1>3, <1>4, <2>1, QuietCity
<1>5. ASSUME CityKept(o), PromiseKept(o), board[o] = late[o][2]
      PROVE  Leads(board[o], board'[o]) /\ CityKept(o)'
    <2> DEFINE r == late[o][1]
               s == board[o]
    <2>1. /\ board'[o] = r /\ late'[o][1] = NoRow /\ r \in Row /\ s \in Row
          /\ r.st # "none" /\ s = late[o][2]
        BY <1>1, <1>2, <1>5
    <2>2. LateEnds(o)'
        BY <2>1 DEF LateEnds, NoRow
    <2>3. /\ r.st # "filled"
          /\ r.st = "open" => r.rem > 0 /\ r.left = s.left
          /\ r.st = "expired" /\ Asks(s) => landed[o] > 0 \/ s.st = "none"
        BY <1>5, <2>1 DEF CityKept, LateEnds
    <2>4. /\ Past(r) /\ (Asks(r) => Asks(s) /\ r.good = s.good)
        BY <1>5, <2>1 DEF PromiseKept, LateAgrees
    <2>5. Leads(s, r)
        <3> HIDE DEF r, s
        <3> QED
            BY <2>3, <2>4 DEF Leads, Stands, Sound, Runs, Asks
    <2>6. ASSUME Asks(s), ~Asks(r)
          PROVE  Moving(o)' < Wanted[s.good]
        <3>1. landed[o] > 0
            BY <2>1, <2>3, <2>6 DEF Asks, Row, NoRow
        <3>2. /\ Wanted[s.good] \in Nat /\ landed[o] \in Nat /\ s.rem \in Nat
              /\ Moving(o) \in Nat /\ Moving(o) + landed[o] + s.rem <= Wanted[s.good]
            BY <1>5, <2>6, MovingFits
        <3> QED
            BY <1>3, <3>1, <3>2
    <2>7. Leads(board[o], board'[o])
        BY <2>1, <2>5
    <2>8. ~Asks(board'[o]) => /\ Moving(o)' <= Moving(o)
                              /\ Asks(board[o]) => board[o].st = "open"
                                                   \/ Moving(o)' < Wanted[board[o].good]
        BY <1>3, <2>1, <2>6
    <2> QED
        BY <1>3, <1>5, <2>2, <2>7, <2>8, KeptStep
<1>6. ASSUME NEW q \in Orders \ marred', CityKept(q), PromiseKept(q)
      PROVE  Leads(board[q], board'[q]) /\ CityKept(q)'
    BY <1>1, <1>4, <1>5, <1>6
<1> QED
    BY <1>1, <1>6, CityDesk

LEMMA TrimCity ==
    ASSUME TypeOK, TypeOK', Promises, Cities, NEW f \in Flights, NEW target \in Int,
           Trim(f, target)
    PROVE  Cities'
<1> DEFINE o == flight[f].order
<1>1. PICK k \in Nat :
         /\ o \in Orders /\ SavesLater(o, GivenBack(board[o], k))
         /\ UNCHANGED <<hold, landed, marred>>
         /\ \A e \in Flights \ {f} : flight'[e] = flight[e]
         /\ \A q : /\ KgFor(flight'[f].lines, q) \in Nat
                   /\ KgFor(flight[f].lines, q) \in Nat
                   /\ KgFor(flight'[f].lines, q) + (IF q = o THEN k ELSE 0)
                         <= KgFor(flight[f].lines, q)
         /\ \A i \in DOMAIN flight'[f].lines :
               /\ i \in DOMAIN flight[f].lines
               /\ flight'[f].lines[i].order = flight[f].lines[i].order
               /\ flight'[f].lines[i].good = flight[f].lines[i].good
    BY TrimParts
<1> DEFINE r == GivenBack(board[o], k)
<1>2. o \in Orders /\ SavesLater(o, r)
    BY <1>1
<1> HIDE DEF o
<1>3. r \in Row
    BY <1>2, TypeParts, RestoredType
<1>4. ASSUME NEW q \in Orders
      PROVE  (\A g : Underway(q, g)' => Underway(q, g)) /\ Moving(q)' <= Moving(q)
    <2>1. /\ \A g : Underway(q, g)' => Underway(q, g)
          /\ Moving(q)' + KgFor(flight[f].lines, q) = Moving(q) + KgFor(flight'[f].lines, q)
          /\ Moving(q) \in Nat /\ Moving(q)' \in Nat
        BY <1>1, FlightMoves
    <2>2. KgFor(flight'[f].lines, q) <= KgFor(flight[f].lines, q)
        BY <1>1
    <2>3. KgFor(flight'[f].lines, q) \in Nat /\ KgFor(flight[f].lines, q) \in Nat
        BY <1>1
    <2> QED
        BY <2>1, <2>2, <2>3
<1>5. ASSUME NEW q \in Orders, CityKept(q), PromiseKept(q)
      PROVE  Leads(board[q], board'[q]) /\ CityKept(q)'
    <2>1. q = o => Ends(q, board[q], r)
        BY <1>5, BackEnds
    <2>2. landed[q] > 0 => landed'[q] > 0 \/ board'[q].st = "none"
        BY <1>1
    <2> HIDE DEF r
    <2> QED
        BY <1>2, <1>3, <1>4, <1>5, <2>1, <2>2, LaterCity
<1> QED
    BY <1>1, <1>5, CityDesk

\* A line among several that is lowered or dropped.
LEMMA EditLineCity ==
    ASSUME "shared" \notin Edits, TypeOK, TypeOK', Promises, Cities, NEW f \in Flights,
           NEW i \in 1..MaxLines, NEW kg \in 0..MaxWanted, EditLine(f, i, kg)
    PROVE  Cities'
<1>1. PICK o \in Orders, more \in Int, b \in Boards :
         /\ more # 0 /\ (more > 0 => "shared" \in Edits)
         /\ more > 0 => board[o].st # "none" /\ more <= board[o].rem
         /\ b[o] = LineRow(board[o], more) /\ \A q \in Orders : q # o => b[q] = board[q]
         /\ \/ /\ Saves(b) /\ UNCHANGED <<hold, late, marred>>
               /\ \A e \in Flights \ {f} : flight'[e] = flight[e]
               /\ \A q \in Orders : KgFor(flight'[f].lines, q)
                        = KgFor(flight[f].lines, q) + (IF q = o THEN more ELSE 0)
               /\ \A j \in DOMAIN flight'[f].lines : \E n \in DOMAIN flight[f].lines :
                     /\ flight'[f].lines[j].order = flight[f].lines[n].order
                     /\ flight'[f].lines[j].good = flight[f].lines[n].good
            \/ HalfSaves(b)
    BY EditLineParts
<1>2. more < 0 /\ -more \in Nat /\ b[o] = GivenBack(board[o], -more)
    BY <1>1 DEF LineRow
<1>3. \A q \in Orders : board[q] \in Row /\ b[q] \in Row
    BY TypeParts DEF Boards
<1>4. \A q \in Orders : board[q].st = "none" => b[q].st = "none"
    BY <1>1, <1>2 DEF GivenBack
<1>5. CASE HalfSaves(b)
    BY <1>4, <1>5, HalfCity
<1>6. CASE /\ Saves(b) /\ UNCHANGED <<hold, late, marred>>
           /\ \A e \in Flights \ {f} : flight'[e] = flight[e]
           /\ \A q \in Orders : KgFor(flight'[f].lines, q)
                    = KgFor(flight[f].lines, q) + (IF q = o THEN more ELSE 0)
           /\ \A j \in DOMAIN flight'[f].lines : \E n \in DOMAIN flight[f].lines :
                 /\ flight'[f].lines[j].order = flight[f].lines[n].order
                 /\ flight'[f].lines[j].good = flight[f].lines[n].good
    <2>1. board' = b
        BY <1>6 DEF Saves
    <2>2. ASSUME NEW q \in Orders
          PROVE  (\A g : Underway(q, g)' => Underway(q, g)) /\ Moving(q)' <= Moving(q)
        <3>1. /\ \A g : Underway(q, g)' => Underway(q, g)
              /\ Moving(q)' + KgFor(flight[f].lines, q) = Moving(q) + KgFor(flight'[f].lines, q)
              /\ KgFor(flight[f].lines, q) \in Nat /\ KgFor(flight'[f].lines, q) \in Nat
              /\ Moving(q) \in Nat /\ Moving(q)' \in Nat
            BY <1>6, FlightMoves
        <3>2. KgFor(flight'[f].lines, q) <= KgFor(flight[f].lines, q)
            BY <1>2, <1>6, <3>1
        <3> QED
            BY <3>1, <3>2
    <2>3. ASSUME NEW q \in Orders, CityKept(q), PromiseKept(q)
          PROVE  Leads(board[q], board'[q]) /\ CityKept(q)'
        <3>1. Stands(board[q])
            BY <2>3 DEF CityKept
        <3>2. Keeps(board[q], b[q])
            BY <1>1, <1>2, <1>3, <3>1, RowKeeps
        <3>3. /\ Leads(board[q], board'[q])
              /\ Asks(board[q]) /\ ~Asks(board'[q]) => board[q].st = "open"
            BY <1>3, <2>1, <3>1, <3>2, KeepsLeads
        <3>4. LateEnds(q)'
            BY <1>4, <1>6, <2>1, <2>3, SavesLanded, LateEndsStep DEF CityKept
        <3> QED
            BY <2>2, <2>3, <3>3, <3>4, KeptStep
    <2> QED
        BY <1>6, <2>3, CityDesk
<1> QED
    BY <1>1, <1>5, <1>6

\* The row of an only line: it is in progress when it was, as the same product.
LEMMA PartProgress ==
    ASSUME NEW r \in Row, NEW more \in Int, more # 0, r.st # "none",
           more > 0 => Asks(r) /\ more <= r.rem /\ r.left > 0,
           r.st = "open" => r.rem > 0
    PROVE  /\ PartRow(r, more) \in Row /\ PartRow(r, more).good = r.good
           /\ InProgress(PartRow(r, more)) => InProgress(r)
           /\ Asks(r) => Asks(PartRow(r, more))
           /\ Stands(r) => Leads(r, PartRow(r, more))
<1>1. /\ r.rem \in Nat /\ r.left \in Int /\ DOMAIN r = {"st", "good", "rem", "left"}
      /\ r.st \in {"open", "filled", "expired"}
    BY RowShape DEF NoRow
<1>2. PartRow(r, more) \in Row
    BY PartRowParts
<1>3. CASE more < 0
    <2> DEFINE k == -more
               p == GivenBack(r, k)
               st == IF r.st = "filled" THEN "open" ELSE r.st
               rem == Least(Wanted[r.good], r.rem + k)
    <2>1. k \in Nat /\ k # 0 /\ PartRow(r, more) = p
        BY <1>3 DEF PartRow
    <2> HIDE DEF k
    <2>2. p = [r EXCEPT !.st = st, !.rem = rem]
        BY <1>1, <2>1 DEF GivenBack
    <2> HIDE DEF p, st, rem
    <2>3. p.st = st /\ p.good = r.good /\ p.left = r.left
        BY <1>1, <2>2
    <2>4. InProgress(p) => InProgress(r)
        BY <1>1, <2>3 DEF InProgress, IsOpen, st
    <2>5. Asks(r) => Asks(p)
        BY <2>3 DEF Asks, st
    <2>6. Stands(r) => Leads(r, p)
        <3>1. Stands(r) => Keeps(r, p)
            BY <2>1, RowKeeps DEF p
        <3> QED
            BY <1>2, <2>1, <3>1, KeepsLeads
    <2> QED
        BY <1>2, <2>1, <2>3, <2>4, <2>5, <2>6
<1>4. CASE more > 0
    <2> DEFINE p == Taken(r, more)
    <2>1. more \in Nat /\ PartRow(r, more) = p /\ Asks(r) /\ more <= r.rem /\ r.left > 0
        BY <1>4 DEF PartRow
    <2>2. Sound(r)
        BY <2>1 DEF Sound, Past, Asks
    <2>3. Stands(p) /\ Asks(p) /\ p.good = r.good /\ p.left = r.left
        BY <2>1, <2>2, TakenStands
    <2> HIDE DEF p
    <2>4. InProgress(r)
        BY <1>1, <2>1 DEF InProgress, IsOpen, Asks
    <2>5. Leads(r, p)
        BY <2>1, <2>3 DEF Leads, Runs
    <2> QED
        BY <1>2, <2>1, <2>3, <2>4, <2>5
<1> QED
    BY <1>3, <1>4

LEMMA EditOnlyCity ==
    ASSUME TypeOK, TypeOK', Promises, Cities, NEW f \in Flights, NEW kg \in 1..MaxWanted,
           EditOnly(f, kg)
    PROVE  Cities'
<1>1. PICK b1 \in Boards, b \in Boards, o \in Orders, w \in Orders, more \in Int :
         /\ b1 \in Watched(board, hold, flight, {}) /\ b1 \in Ensured(Swept(board))
         /\ {} # Companies /\ {o, w} \subseteq Named(flight[f])
         /\ more # 0 /\ b1[o].st # "none"
         /\ more > 0 => Asks(b1[o]) /\ more <= b1[o].rem /\ b1[o].left > 0
         /\ b[o] = PartRow(b1[o], more) /\ \A q \in Orders : q # o => b[q] = b1[q]
         /\ \/ /\ Saves(b) /\ UNCHANGED <<hold, late>>
               /\ marred' = (marred \cup (IF w = o THEN {} ELSE {o, w}) \cup Cut(b)) \ Fresh(b)
               /\ \A e \in Flights \ {f} : flight'[e] = flight[e]
               /\ \A q \in Orders :
                     /\ q \notin {o, w} => KgFor(flight'[f].lines, q) = KgFor(flight[f].lines, q)
                     /\ q = o /\ w = o => KgFor(flight'[f].lines, q)
                                            = KgFor(flight[f].lines, q) + more
               /\ \A i \in DOMAIN flight'[f].lines : \E j \in DOMAIN flight[f].lines :
                     /\ flight'[f].lines[i].order = o /\ flight[f].lines[j].order = w
                     /\ flight'[f].lines[i].good = flight[f].lines[j].good
            \/ HalfSaves(b)
    BY EditOnlyParts
<1> DEFINE M == IF w = o THEN {} ELSE {o, w}
           p == PartRow(b1[o], more)
<1>2. \A q \in Orders : \/ Follows(board[q], b1[q], 0)
                        \/ board[q].st # "none" /\ q \in Cut(b1)
                        \/ Listed(q, board[q], b1[q])
    BY <1>1, TypeParts, WatchedFollows
<1>3. \A q \in {o, w} : ~Bare(q) /\ \A r, s : ~Listed(q, r, s)
    BY <1>1 DEF Listed, Bare
<1>4. /\ b1[o] \in Row /\ p \in Row /\ b[o] = p /\ p.good = b1[o].good
      /\ InProgress(p) => InProgress(b1[o])
      /\ Asks(b1[o]) => Asks(p)
      /\ Stands(b1[o]) => Leads(b1[o], p)
      /\ more < 0 /\ b1[o].st = "expired" /\ b1[o].left > 0 => p.st = "expired" /\ p.left > 0
    <2>1. b1[o] \in Row /\ (b1[o].st = "open" => b1[o].rem > 0)
        BY <1>1, TypeParts, EnsuredOpen DEF Boards
    <2>2. /\ p \in Row /\ b[o] = p /\ p.good = b1[o].good
          /\ InProgress(p) => InProgress(b1[o])
          /\ Asks(b1[o]) => Asks(p)
          /\ Stands(b1[o]) => Leads(b1[o], p)
        BY <1>1, <2>1, PartProgress
    <2>3. more < 0 /\ b1[o].st = "expired" /\ b1[o].left > 0 => p.st = "expired" /\ p.left > 0
        BY <1>1, <2>1, PartRowParts
    <2> QED
        BY <2>1, <2>2, <2>3
<1> HIDE DEF p, M
<1>5. o \in Cut(b1) => o \in Cut(b)
    <2> SUFFICES ASSUME o \in Cut(b1) PROVE o \in Cut(b)
        OBVIOUS
    <2>1. b1[o].st = "expired" /\ b1[o].left > 0
        BY DEF Cut
    <2>2. more < 0
        BY <1>1, <2>1 DEF Asks
    <2> QED
        BY <1>4, <2>1, <2>2 DEF Cut
<1>6. board[o].st # "none"
    BY <1>1, <1>2, <1>3 DEF Follows
<1>7. \A q \in Orders : \/ board[q].st = "none" => b[q].st = "none"
                        \/ Listed(q, board[q], b[q])
    BY <1>1, <1>2, <1>6 DEF Follows
<1>8. Alone(b)
    <2> SUFFICES ASSUME NEW x \in Orders, NEW y \in Orders, x # y, City[x] = City[y],
                        board[x].st = "none", b[x].st # "none", InProgress(b[y])
                 PROVE  b[x].good # b[y].good
        BY DEF Alone
    <2>1. x # o /\ b[x] = b1[x]
        BY <1>1, <1>6
    <2>2. Swept(board) \in Boards /\ Swept(board)[x].st = "none"
        BY TypeParts, SweptFollows
    <2>3. InProgress(b1[y]) /\ b[y].good = b1[y].good
        BY <1>1, <1>4
    <2>4. b1[x].good # b1[y].good
        BY <1>1, <2>1, <2>2, <2>3, EnsuredOnce
    <2> QED
        BY <2>1, <2>3, <2>4
<1>9. CASE HalfSaves(b)
    BY <1>7, <1>8, <1>9, CityHalf
<1>10. CASE /\ Saves(b) /\ UNCHANGED <<hold, late>>
            /\ marred' = (marred \cup M \cup Cut(b)) \ Fresh(b)
            /\ \A e \in Flights \ {f} : flight'[e] = flight[e]
            /\ \A q \in Orders :
                  /\ q \notin {o, w} => KgFor(flight'[f].lines, q) = KgFor(flight[f].lines, q)
                  /\ q = o /\ w = o => KgFor(flight'[f].lines, q)
                                         = KgFor(flight[f].lines, q) + more
            /\ \A i \in DOMAIN flight'[f].lines : \E j \in DOMAIN flight[f].lines :
                  /\ flight'[f].lines[i].order = o /\ flight[f].lines[j].order = w
                  /\ flight'[f].lines[i].good = flight[f].lines[j].good
    <2>1. board' = b
        BY <1>10 DEF Saves
    <2>2. ASSUME NEW q \in Orders, NEW k, Underway(q, k)', q # o \/ w = o
          PROVE  Underway(q, k)
        <3>1. CASE \E c \in Companies : hold'[c][q].kg > 0 /\ hold'[c][q].good = k
            BY <1>10, <3>1 DEF Underway
        <3>2. CASE \E e \in Flights : \E i \in DOMAIN flight'[e].lines :
                      flight'[e].lines[i].order = q /\ flight'[e].lines[i].good = k
            <4>1. PICK e \in Flights : \E i \in DOMAIN flight'[e].lines :
                      flight'[e].lines[i].order = q /\ flight'[e].lines[i].good = k
                BY <3>2
            <4>2. CASE e = f
                BY <1>10, <2>2, <4>1, <4>2 DEF Underway
            <4>3. CASE e # f
                BY <1>10, <4>1, <4>3 DEF Underway
            <4> QED
                BY <4>2, <4>3
        <3> QED
            BY <2>2, <3>1, <3>2 DEF Underway
    <2>3. ASSUME NEW q \in Orders, q \notin M
          PROVE  /\ Moving(q)' \in Nat /\ Moving(q) \in Nat
                 /\ q # o \/ more < 0 => Moving(q)' <= Moving(q)
        <3>1. Aboard(q)' + KgFor(flight[f].lines, q)
                  = Aboard(q) + KgFor(flight'[f].lines, q)
            BY <1>10, CargoChanged
        <3>2. KgFor(flight[f].lines, q) \in Nat
            BY TypeParts, LoadNat
        <3>3. LiveHeld(q)' = LiveHeld(q)
            BY <1>10 DEF LiveHeld
        <3>4. /\ LiveHeld(q) \in Nat /\ Moving(q) \in Nat /\ Moving(q)' \in Nat
              /\ Aboard(q) \in Nat /\ Aboard(q)' \in Nat
            BY MovingNat, MovingNatNext, PromisedType, PromisedTypeNext DEF PromiseTyped
        <3>5. q # o => Aboard(q)' = Aboard(q)
            BY <1>10, <2>3, <3>1, <3>2, <3>4 DEF M
        <3>6. q = o => Aboard(q)' = Aboard(q) + more
            BY <1>10, <2>3, <3>1, <3>2, <3>4 DEF M
        <3> QED
            BY <3>3, <3>4, <3>5, <3>6 DEF Moving
    <2>4. ASSUME NEW q \in Orders, q \notin M, CityKept(q), PromiseKept(q), q \notin Cut(b),
                 ~Listed(q, board[q], b[q])
          PROVE  Leads(board[q], b[q]) /\ CityKept(q)'
        <3>1. board[q] \in Row /\ b1[q] \in Row /\ b[q] \in Row /\ Stands(board[q])
            BY <2>4, TypeParts DEF CityKept, Boards
        <3>2. ~(board[q].st = "filled" /\ board[q].left <= 0)
            BY <3>1, RowShape DEF Stands
        <3>3. q \notin Cut(b1) /\ ~Listed(q, board[q], b1[q])
            BY <1>1, <1>3, <1>5, <2>4 DEF Cut
        <3>4. Keeps(board[q], board[q])
            BY <3>1, RowKeeps
        <3>5. /\ Leads(board[q], b1[q])
              /\ Asks(board[q]) /\ ~Asks(b1[q]) => board[q].st = "open"
            <4>1. /\ hold \in [Companies -> Holds] /\ flight \in [Flights -> Sortie]
                  /\ board \in Boards
                BY TypeParts
            <4> QED
                BY <1>1, <3>1, <3>2, <3>3, <3>4, <4>1, WatchedLeads
        <3>6. /\ Leads(board[q], b[q])
              /\ Asks(board[q]) /\ ~Asks(b[q]) => board[q].st = "open"
              /\ q = o /\ ~Asks(b[q]) => more < 0
            <4>1. CASE q # o
                BY <1>1, <3>5, <4>1
            <4>2. CASE q = o
                <5>1. Leads(b1[q], b[q]) /\ (Asks(b1[q]) => Asks(b[q]))
                    BY <1>4, <3>5, <4>2 DEF Leads
                <5>2. Leads(board[q], b[q])
                    BY <3>1, <3>5, <5>1, LeadsTwice
                <5> QED
                    BY <1>1, <3>5, <4>2, <5>1, <5>2
            <4> QED
                BY <4>1, <4>2
        <3>7. LateEnds(q)'
            BY <1>7, <1>10, <2>1, <2>4, SavesLanded, LateEndsStep DEF CityKept
        <3>8. \A k : Underway(q, k)' => Underway(q, k)
            BY <2>2, <2>4 DEF M
        <3>9. ~Asks(board'[q]) => Moving(q)' <= Moving(q)
            BY <2>1, <2>3, <2>4, <3>6
        <3>10. CityKept(q)'
            BY <2>1, <2>4, <3>6, <3>7, <3>8, <3>9, KeptStep
        <3> QED
            BY <3>6, <3>10
    <2>5. \A q \in Orders : board[q].st = "none" /\ q \in Cut(b) => Listed(q, board[q], b[q])
        BY <1>7 DEF Cut
    <2>6. ASSUME NEW q \in Orders
          PROVE  \/ board[q].st # "none" /\ q \in Cut(b)
                 \/ Listed(q, board[q], b[q])
                 \/ /\ board[q].st = "none" => b[q].st = "none"
                    /\ q \notin M /\ CityKept(q) /\ PromiseKept(q) =>
                          Leads(board[q], b[q]) /\ CityKept(q)'
        BY <1>7, <2>4, <2>5
    <2>7. ASSUME NEW q \in Orders, Bare(q)
          PROVE  Still(q)'
        <3>1. q # o /\ Still(q)
            BY <1>3, <2>7, BareStill
        <3>2. \A k : Underway(q, k)' => Underway(q, k)
            BY <2>2, <3>1
        <3> QED
            BY <3>1, <3>2 DEF Still
    <2>8. \A q \in Orders : late'[q][1].st = "none" <=> late[q][1].st = "none"
        BY <1>10
    <2> QED
        BY <1>8, <1>10, <2>6, <2>7, <2>8, CityFull
<1> QED
    BY <1>1, <1>9, <1>10 DEF M

-----------------------------------------------------------------------------
(* A city never asks twice.                                                *)

LEMMA CityInit == Init => Cities
<1> SUFFICES ASSUME Init PROVE Cities
    OBVIOUS
<1>1. /\ TypeOK
      /\ \A o \in Orders : /\ board[o] = NoRow /\ late[o][1] = NoRow
                           /\ \A c \in Companies : hold[c][o] = NoHold
      /\ \A f \in Flights : flight[f] = Grounded
    BY DeskInit DEF Init
<1>2. ASSUME NEW o \in Orders
      PROVE  CityKept(o)
    <2>1. \A k : ~Underway(o, k)
        BY <1>1 DEF Underway, NoHold, Grounded
    <2>2. Moving(o) = 0
        BY <1>1, MovingNone DEF NothingMoves, Alive, NoHold, Grounded
    <2>3. \E g \in Goods : Kind(o, g) /\ Moving(o) < Wanted[g]
        BY <2>1, <2>2, Limits, DeskAssumption DEF Kind
    <2> QED
        BY <1>1, <2>3 DEF CityKept, LateEnds, Stands, Sound, Past, Asks, NoRow
<1>3. Apart
    BY <1>1 DEF Apart, Runs, Asks, NoRow
<1> QED
    BY <1>2, <1>3 DEF Cities

LEMMA CityNext ==
    ASSUME "shared" \notin Edits, TypeOK, Promises, Cities, [Next]_vars
    PROVE  Cities'
<1>0. TypeOK'
    BY DeskNext
<1>1. CASE \E c \in Companies : Look(c) \/ OpenPorts(c) \/ Pulse(c)
    BY <1>0, <1>1, LookCity, OpenPortsCity, PulseCity
<1>2. CASE \E c \in Companies, o \in Orders :
              Hold(c, o) \/ CancelHold(c, o) \/ \E f \in Flights : FlyNow(c, o, f)
    BY <1>0, <1>2, HoldCity, CancelHoldCity, FlyNowCity
<1>3. CASE \E c \in Companies, f \in Flights : Dispatch(c, f)
    BY <1>0, <1>3, DispatchCity
<1>4. CASE \E f \in Flights :
              \/ Cancel(f) \/ Settle(f) \/ Impact(f)
              \/ \E kg \in 1..MaxWanted : EditOnly(f, kg)
              \/ \E i \in 1..MaxLines, kg \in 0..MaxWanted : EditLine(f, i, kg)
              \/ \E target \in 1..(MaxLines * MaxWanted) : Trim(f, target)
    <2>1. PICK f \in Flights :
              \/ Cancel(f) \/ Settle(f) \/ Impact(f)
              \/ \E kg \in 1..MaxWanted : EditOnly(f, kg)
              \/ \E i \in 1..MaxLines, kg \in 0..MaxWanted : EditLine(f, i, kg)
              \/ \E target \in 1..(MaxLines * MaxWanted) : Trim(f, target)
        BY <1>4
    <2>2. CASE Cancel(f) \/ Settle(f) \/ Impact(f)
        BY <1>0, <2>2, CancelCity, SettleCity, ImpactCity
    <2>3. CASE \E kg \in 1..MaxWanted : EditOnly(f, kg)
        BY <1>0, <2>3, EditOnlyCity
    <2>4. CASE \E i \in 1..MaxLines, kg \in 0..MaxWanted : EditLine(f, i, kg)
        BY <1>0, <2>4, EditLineCity
    <2>5. CASE \E target \in 1..(MaxLines * MaxWanted) : Trim(f, target)
        <3>1. PICK target \in Int : Trim(f, target)
            BY <2>5
        <3> QED
            BY <1>0, <3>1, TrimCity
    <2> QED
        BY <2>1, <2>2, <2>3, <2>4, <2>5
<1>5. CASE \E o \in Orders : LateSave(o)
    BY <1>0, <1>5, LateSaveCity
<1>6. CASE \E c \in Companies, g \in Goods : Deposit(c, g) \/ Abandon(c, g)
    <2>1. UNCHANGED <<board, hold, flight, late, landed, marred>>
        BY <1>6 DEF Deposit, Abandon
    <2> QED
        BY <1>0, <2>1, CargoCity
<1>7. CASE UNCHANGED vars
    <2>1. UNCHANGED <<board, hold, flight, late, landed, marred>>
        BY <1>7 DEF vars, row
    <2> QED
        BY <1>0, <2>1, CargoCity
<1> QED
    BY <1>1, <1>2, <1>3, <1>4, <1>5, <1>6, <1>7 DEF Next

\* What is coming of an order runs on the board.
LEMMA ComingRuns ==
    ASSUME TypeOK, NEW o \in Orders, PromiseKept(o), CityKept(o), NEW g \in Goods,
           Coming(o, g)
    PROVE  Runs(board[o]) /\ board[o].good = g
<1>1. CASE IsOpen(board[o]) /\ board[o].good = g
    BY <1>1 DEF IsOpen, Runs, Asks
<1>2. CASE Live(o, g) >= Wanted[g]
    <2>1. /\ Wanted[g] \in Nat /\ Wanted[g] > 0 /\ Live(o, g) \in Nat
          /\ Moving(o) \in Nat /\ Live(o, g) <= Moving(o)
          /\ ~Underway(o, g) => Live(o, g) = 0
        BY LiveOfKind, MovingNat, Limits
    <2>2. Underway(o, g) /\ Moving(o) >= Wanted[g]
        BY <1>2, <2>1
    <2>3. Asks(board[o])
        <3> SUFFICES ASSUME ~Asks(board[o]) PROVE FALSE
            OBVIOUS
        <3>1. PICK k \in Goods : Kind(o, k) /\ Moving(o) < Wanted[k]
            BY DEF CityKept
        <3>2. k = g
            BY <2>2, <3>1 DEF Kind
        <3> QED
            BY <2>1, <2>2, <3>1, <3>2
    <2>4. board[o].good = g
        BY <2>2, <2>3 DEF CityKept, Kind
    <2>5. /\ board[o].rem \in Nat /\ landed[o] \in Nat
          /\ Moving(o) + landed[o] + board[o].rem <= Wanted[g]
        BY <2>3, <2>4, MovingFits
    <2>6. ~(board[o].rem > 0)
        BY <2>1, <2>2, <2>5
    <2>7. board[o].st = "filled" /\ board[o].left > 0
        BY <2>3, <2>6 DEF CityKept, Stands, Sound, Asks
    <2> QED
        BY <2>3, <2>4, <2>7 DEF Runs
<1> QED
    BY <1>1, <1>2 DEF Coming

\* A city never asks twice for what it is getting: of the orders of one city
\* for one product at most one is open or on its way as a whole, while orders
\* are listed, held, flown, lowered, given back, delivered, pruned, saved late
\* or half saved, and whether or not every company could be read.  It holds of
\* the orders that no slip touched, unless a line among several can be raised.
THEOREM DeskCityOnce ==
    ASSUME "shared" \notin Edits
    PROVE  Spec => []CityOnce
<1>1. Init => TypeOK /\ Promises /\ Cities
    BY DeskInit, PromiseInit, CityInit
<1>2. TypeOK /\ Promises /\ Cities /\ [Next]_vars => (TypeOK /\ Promises /\ Cities)'
    BY DeskNext, PromiseNext, CityNext
<1>3. TypeOK /\ Promises /\ Cities => CityOnce
    <2> SUFFICES ASSUME TypeOK, Promises, Cities, NEW o \in Orders \ marred,
                        NEW p \in Orders \ marred, NEW g \in Goods,
                        o # p, City[o] = City[p], Coming(o, g), Coming(p, g)
                 PROVE  FALSE
        BY DEF CityOnce
    <2>1. /\ Runs(board[o]) /\ board[o].good = g
          /\ Runs(board[p]) /\ board[p].good = g
        BY ComingRuns DEF Promises, Cities
    <2> QED
        BY <2>1 DEF Cities, Apart
<1> QED
    BY <1>1, <1>2, <1>3, PTL DEF Spec

=============================================================================
