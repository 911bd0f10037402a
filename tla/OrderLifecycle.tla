--------------------------- MODULE OrderLifecycle ---------------------------
(***************************************************************************)
(* What the booking system promises about orders and tickets, whatever     *)
(* components carry it out: an order takes its tickets in one step, is then*)
(* sold for good or lost, and only a lost order gives them back, once; or, *)
(* where losing and giving back are one transaction, a held one does. The  *)
(* components are shown to implement this specification.                   *)
(***************************************************************************)
EXTENDS CatalogProofs

CONSTANT Direct   \* TRUE where a held order is released in one step

VARIABLES life,   \* [Orders -> Lives]
          free    \* the tickets no order has

Lives == {"none", "held", "sold", "lost", "released"}

\* The orders that have tickets.
Keeping == {o \in Orders : life[o] \notin {"none", "released"}}

Init ==
    /\ life = [o \in Orders |-> "none"]
    /\ free = TotalTickets

\* A customer is held one order, ever.
Hold(o) ==
    /\ \A p \in Orders : CustomerOf[p] = CustomerOf[o] => life[p] = "none"
    /\ QuantityOf[o] <= free
    /\ free' = free - QuantityOf[o]
    /\ life' = [life EXCEPT ![o] = "held"]

\* Held orders are sold: one, or several at once, where the process dies that
\* might still have given them back.
Sell(S) ==
    /\ \A o \in S : life[o] = "held"
    /\ life' = [o \in Orders |-> IF o \in S THEN "sold" ELSE life[o]]
    /\ UNCHANGED free

Lose(o) ==
    /\ life[o] = "held"
    /\ life' = [life EXCEPT ![o] = "lost"]
    /\ UNCHANGED free

Release(o) ==
    /\ life[o] = "lost" \/ (Direct /\ life[o] = "held")
    /\ free' = free + QuantityOf[o]
    /\ life' = [life EXCEPT ![o] = "released"]

Next ==
    \/ \E S \in SUBSET Orders : Sell(S)
    \/ \E o \in Orders : Hold(o) \/ Lose(o) \/ Release(o)

Spec == Init /\ [][Next]_<<life, free>>

-----------------------------------------------------------------------------
TypeOK == life \in [Orders -> Lives] /\ free \in Nat

\* The free tickets and the kept ones are all the tickets there are.
Conserved == free + Cardinality(Tickets(Keeping)) = TotalTickets

\* No two orders of one customer were ever held.
OneEach ==
    \A o, p \in Orders :
        life[o] # "none" /\ life[p] # "none" /\ CustomerOf[o] = CustomerOf[p] => o = p

-----------------------------------------------------------------------------
(* Proofs *)

\* The typing, the conservation of tickets and the one order of each customer
\* are inductive together.
Inv == TypeOK /\ Conserved /\ OneEach

\* The invariant holds when nothing is sold.
LEMMA InvInit == Init => Inv
<1>. SUFFICES ASSUME Init PROVE Inv
  OBVIOUS
<1>1. Keeping = {}
  BY DEF Init, Keeping
<1>2. Tickets({}) = {}
  BY DEF Tickets
<1>3. Cardinality(Tickets(Keeping)) = 0
  BY <1>1, <1>2, FS_EmptySet
<1>4. TypeOK
  BY CatalogAssumption DEF Init, TypeOK, Lives
<1>5. Conserved
  BY <1>3, CatalogAssumption DEF Init, Conserved
<1>6. OneEach
  BY DEF Init, OneEach
<1>. QED
  BY <1>4, <1>5, <1>6 DEF Inv

\* Every step of an order's life keeps the invariant.
LEMMA InvNext == Inv /\ [Next]_<<life, free>> => Inv'
<1>. SUFFICES ASSUME Inv, [Next]_<<life, free>> PROVE Inv'
  OBVIOUS
<1>. USE DEF Inv
<1>0. CASE UNCHANGED <<life, free>>
  BY <1>0 DEF TypeOK, Conserved, OneEach, Keeping
<1>1. ASSUME NEW S \in SUBSET Orders, Sell(S) PROVE Inv'
  <2>1. TypeOK' /\ OneEach'
    BY <1>1 DEF Sell, TypeOK, Lives, OneEach
  <2>2. Keeping' = Keeping
    BY <1>1 DEF Sell, Keeping, TypeOK
  <2>. QED
    BY <1>1, <2>1, <2>2 DEF Sell, Conserved
<1>q. ASSUME NEW o \in Orders
      PROVE  QuantityOf[o] \in Nat /\ free \in Nat /\ Cardinality(Tickets(Keeping)) \in Nat
  BY CatalogAssumption, TicketsFinite DEF TypeOK, Keeping
<1>2. ASSUME NEW o \in Orders, Hold(o) PROVE Inv'
  <2>1. TypeOK'
    BY <1>2, <1>q DEF Hold, TypeOK, Lives
  <2>2. OneEach'
    BY <1>2 DEF Hold, OneEach, TypeOK
  <2>3. o \notin Keeping /\ Keeping' = Keeping \cup {o}
    BY <1>2 DEF Hold, Keeping, TypeOK
  <2>4. Cardinality(Tickets(Keeping))' = Cardinality(Tickets(Keeping)) + QuantityOf[o]
    BY <2>3, TicketsOfOneMore DEF Keeping
  <2>5. Conserved'
    BY <1>2, <1>q, <2>4 DEF Hold, Conserved
  <2>. QED
    BY <2>1, <2>2, <2>5
<1>3. ASSUME NEW o \in Orders, Lose(o) PROVE Inv'
  <2>1. TypeOK' /\ OneEach'
    BY <1>3 DEF Lose, TypeOK, Lives, OneEach
  <2>2. Keeping' = Keeping
    BY <1>3 DEF Lose, Keeping, TypeOK
  <2>. QED
    BY <1>3, <2>1, <2>2 DEF Lose, Conserved
<1>4. ASSUME NEW o \in Orders, Release(o) PROVE Inv'
  <2>1. TypeOK' /\ OneEach'
    BY <1>4, <1>q DEF Release, TypeOK, Lives, OneEach
  <2>2. o \in Keeping /\ Keeping' = Keeping \ {o}
    BY <1>4 DEF Release, Keeping, TypeOK
  <2>3. Keeping = Keeping' \cup {o} /\ Keeping' \in SUBSET Orders /\ o \in Orders \ Keeping'
    BY <2>2 DEF Keeping
  <2>4. Cardinality(Tickets(Keeping)) = Cardinality(Tickets(Keeping)') + QuantityOf[o]
    BY <2>3, TicketsOfOneMore
  <2>5. Cardinality(Tickets(Keeping)') \in Nat
    BY <2>3, TicketsFinite
  <2>6. Conserved'
    BY <1>4, <1>q, <2>4, <2>5 DEF Release, Conserved
  <2>. QED
    BY <2>1, <2>6
<1>. QED
  BY <1>0, <1>1, <1>2, <1>3, <1>4 DEF Next

\* Whoever implements OrderLifecycle neither sells a ticket twice nor loses one,
\* and holds at most one order for each customer.
THEOREM LifecycleInv == Spec => []Inv
<1>. QED
  BY InvInit, InvNext, PTL DEF Spec

\* No ticket is sold twice and none is lost.
THEOREM LifecycleConserves == Spec => []Conserved
<1>1. Inv => Conserved
  BY DEF Inv
<1>. QED
  BY <1>1, LifecycleInv, PTL

=============================================================================
