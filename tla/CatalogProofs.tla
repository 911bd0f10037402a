---------------------------- MODULE CatalogProofs ----------------------------
(***************************************************************************)
(* Counting the tickets of sets of orders: the arithmetic the proofs about *)
(* both inventories rest on. And the least of a set of numbers: what a     *)
(* worker reads of a stream, and takes up, first.                          *)
(***************************************************************************)
EXTENDS Catalog, TLAPS, FiniteSetTheorems, WellFoundedInduction

\* A set of orders has finitely many tickets.
LEMMA TicketsFinite ==
    ASSUME NEW S \in SUBSET Orders
    PROVE  IsFiniteSet(Tickets(S)) /\ Cardinality(Tickets(S)) \in Nat
<1>1. IsFiniteSet(S)
  BY FS_Subset, CatalogAssumption
<1>2. IsFiniteSet(1..MaxQuantity)
  BY FS_Interval, CatalogAssumption
<1>3. IsFiniteSet(S \X (1..MaxQuantity))
  BY <1>1, <1>2, FS_Product
<1>4. Tickets(S) \in SUBSET (S \X (1..MaxQuantity))
  BY DEF Tickets
<1>5. IsFiniteSet(Tickets(S))
  BY <1>3, <1>4, FS_Subset
<1>. QED
  BY <1>5, FS_CardinalityType

\* An order has as many tickets as its quantity says.
LEMMA TicketsOfOne ==
    ASSUME NEW o \in Orders
    PROVE  Cardinality(Tickets({o})) = QuantityOf[o]
<1>. DEFINE q == QuantityOf[o]
            f == [i \in 1..q |-> <<o, i>>]
<1>1. q \in 1..MaxQuantity
  BY CatalogAssumption
<1>2. q \in Nat /\ 1..q \subseteq 1..MaxQuantity
  BY <1>1, CatalogAssumption
<1>3. \A t \in Tickets({o}) : t = <<o, t[2]>> /\ t[2] \in 1..q
  BY <1>1, <1>2 DEF Tickets
<1>4. \A i \in 1..q : <<o, i>> \in Tickets({o})
  BY <1>1, <1>2 DEF Tickets
<1>5. f \in Bijection(1..q, Tickets({o}))
  <2>1. f \in [1..q -> Tickets({o})]
    BY <1>4
  <2>2. \A i, j \in 1..q : f[i] = f[j] => i = j
    OBVIOUS
  <2>3. \A t \in Tickets({o}) : \E i \in 1..q : f[i] = t
    BY <1>3
  <2>. QED
    BY <2>1, <2>2, <2>3 DEF Bijection, Injection, Surjection, IsInjective
<1>. QED
  BY <1>2, <1>5, FS_CountingElements DEF ExistsBijection

\* One more order adds its quantity to the tickets of a set of orders.
LEMMA TicketsOfOneMore ==
    ASSUME NEW S \in SUBSET Orders, NEW o \in Orders \ S
    PROVE  Cardinality(Tickets(S \cup {o})) = Cardinality(Tickets(S)) + QuantityOf[o]
<1>1. Tickets(S \cup {o}) = Tickets(S) \cup Tickets({o})
  BY DEF Tickets
<1>2. Tickets(S) \cap Tickets({o}) = {}
  BY DEF Tickets
<1>3. IsFiniteSet(Tickets(S)) /\ Cardinality(Tickets(S)) \in Nat
  BY TicketsFinite
<1>4. IsFiniteSet(Tickets({o}))
  BY TicketsFinite
<1>5. Cardinality(Tickets(S) \cap Tickets({o})) = 0
  BY <1>2, FS_EmptySet
<1>6. QuantityOf[o] \in Nat
  BY CatalogAssumption
<1>7. Cardinality(Tickets(S \cup {o}))
        = Cardinality(Tickets(S)) + Cardinality(Tickets({o})) - 0
  BY <1>1, <1>3, <1>4, <1>5, FS_Union
<1>. QED
  BY <1>3, <1>6, <1>7, TicketsOfOne

\* The tickets of orders that are in one of two sets, which share none.
LEMMA TicketsOfUnion ==
    ASSUME NEW S \in SUBSET Orders, NEW T \in SUBSET Orders, S \cap T = {}
    PROVE  Cardinality(Tickets(S \cup T)) = Cardinality(Tickets(S)) + Cardinality(Tickets(T))
<1>1. Tickets(S \cup T) = Tickets(S) \cup Tickets(T)
  BY DEF Tickets
<1>2. Tickets(S) \cap Tickets(T) = {}
  BY DEF Tickets
<1>3. Cardinality(Tickets(S) \cap Tickets(T)) = 0
  BY <1>2, FS_EmptySet
<1>4. /\ IsFiniteSet(Tickets(S)) /\ Cardinality(Tickets(S)) \in Nat
      /\ IsFiniteSet(Tickets(T)) /\ Cardinality(Tickets(T)) \in Nat
  BY TicketsFinite
<1>5. Cardinality(Tickets(S \cup T))
        = Cardinality(Tickets(S)) + Cardinality(Tickets(T)) - 0
  BY <1>1, <1>3, <1>4, FS_Union
<1>. QED
  BY <1>4, <1>5

\* Fewer orders have no more tickets.
LEMMA TicketsMonotone ==
    ASSUME NEW T \in SUBSET Orders, NEW S \in SUBSET T
    PROVE  Cardinality(Tickets(S)) <= Cardinality(Tickets(T))
<1>1. T = S \cup (T \ S) /\ S \cap (T \ S) = {}
  OBVIOUS
<1>2. Cardinality(Tickets(T)) = Cardinality(Tickets(S)) + Cardinality(Tickets(T \ S))
  BY <1>1, TicketsOfUnion
<1>3. Cardinality(Tickets(S)) \in Nat /\ Cardinality(Tickets(T \ S)) \in Nat
  BY TicketsFinite
<1>. QED
  BY <1>2, <1>3

\* A set of numbers that is not empty has a least one.
LEMMA LeastNatural ==
    ASSUME NEW S \in SUBSET Nat, S # {}
    PROVE  \E m \in S : \A k \in S : m <= k
<1>. DEFINE lt == {p \in Nat \X Nat : p[1] < p[2]}
<1>1. OpToRel(<, Nat) = lt
  BY DEF OpToRel
<1>2. IsWellFoundedOn(lt, Nat)
  BY <1>1, NatLessThanWellFounded
<1>. HIDE DEF lt
<1>3. PICK m \in S : \A k \in S : ~ (<<k, m>> \in lt)
  BY <1>2, WFMin
<1>4. ASSUME NEW k \in S PROVE m <= k
  <2>1. k \in Nat /\ m \in Nat
    OBVIOUS
  <2>2. ~ (k < m)
    BY <1>3, <2>1 DEF lt
  <2>. QED
    BY <2>1, <2>2
<1>. QED
  BY <1>4

\* Of an interval of numbers, those that have fewer than n before them are its
\* first n, or all of it.
LEMMA FirstOfInterval ==
    ASSUME NEW a \in Nat, NEW b \in Nat, a <= b, NEW n \in Nat \ {0}
    PROVE  LET first == {m \in (a + 1)..b : Cardinality({k \in (a + 1)..b : k < m}) < n}
           IN  /\ first = (a + 1)..(a + Cardinality(first))
               /\ Cardinality(first) \in Nat
               /\ a + Cardinality(first) <= b
<1>. DEFINE first == {m \in (a + 1)..b : Cardinality({k \in (a + 1)..b : k < m}) < n}
            last == IF b - a < n THEN b ELSE a + n
<1>1. last \in Nat /\ a <= last /\ last <= b
  OBVIOUS
<1>. HIDE DEF last
<1>2. ASSUME NEW x \in Int, a <= x
      PROVE  Cardinality((a + 1)..x) = x - a
  <2>1. a + 1 \in Int
    OBVIOUS
  <2>2. Cardinality((a + 1)..x) = IF a + 1 > x THEN 0 ELSE x - (a + 1) + 1
    BY <2>1, FS_Interval
  <2>. QED
    BY <1>2, <2>2
<1>3. ASSUME NEW m \in (a + 1)..b
      PROVE  Cardinality({k \in (a + 1)..b : k < m}) = m - a - 1
  <2>1. {k \in (a + 1)..b : k < m} = (a + 1)..(m - 1)
    OBVIOUS
  <2>2. m - 1 \in Int /\ a <= m - 1
    OBVIOUS
  <2>3. Cardinality((a + 1)..(m - 1)) = (m - 1) - a
    BY <1>2, <2>2
  <2>4. (m - 1) - a = m - a - 1
    OBVIOUS
  <2>. QED
    BY <2>1, <2>3, <2>4
<1>4. first = {m \in (a + 1)..b : m - a - 1 < n}
  BY <1>3
<1>5. {m \in (a + 1)..b : m - a - 1 < n} = (a + 1)..last
  BY DEF last
<1>6. Cardinality((a + 1)..last) = last - a
  BY <1>1, <1>2
<1>7. first = (a + 1)..last /\ Cardinality(first) = last - a
  BY <1>4, <1>5, <1>6
<1>8. last = a + (last - a) /\ last - a \in Nat
  BY <1>1
<1>. QED
  BY <1>1, <1>7, <1>8
=============================================================================
