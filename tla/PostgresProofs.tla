--------------------------- MODULE PostgresProofs ---------------------------
(***************************************************************************)
(* What each transaction does to the tables, seen through OrderLifecycle:  *)
(* the lemmas the proofs about the components rest on.                     *)
(***************************************************************************)
EXTENDS Postgres, TLAPS, SequenceTheorems

\* What a component's step may do to an order: one of the transactions, or
\* nothing.
PgStep ==
    \/ \E o \in Orders :
        \/ InsertReservation(o)
        \/ \E now \in Phases : MarkPaid(o, now)
        \/ \E to \in FailedStatuses : FailOrder(o, to)
        \/ CompensateOrder(o)
    \/ UNCHANGED pgVars

\* Quantities are numbers.
LEMMA QuantityNat == \A o \in Orders : QuantityOf[o] \in Nat
BY CatalogAssumption

\* The tables start as OrderLifecycle does.
LEMMA PgInitIsInit == PgInit => Lifecycle!Init
BY DEF PgInit, Lifecycle!Init, Life

\* Every transaction keeps the types of the tables.
LEMMA PgStepTypeOK == PgTypeOK /\ PgStep => PgTypeOK'
<1>. SUFFICES ASSUME PgTypeOK, PgStep PROVE PgTypeOK'
  OBVIOUS
<1>. USE DEF PgTypeOK
<1>1. ASSUME NEW o \in Orders, InsertReservation(o) PROVE PgTypeOK'
  BY <1>1, QuantityNat DEF InsertReservation, SoldOut, Statuses
<1>2. ASSUME NEW o \in Orders, NEW now \in Phases, MarkPaid(o, now) PROVE PgTypeOK'
  BY <1>2 DEF MarkPaid, Statuses
<1>3. ASSUME NEW o \in Orders, NEW to \in FailedStatuses, FailOrder(o, to) PROVE PgTypeOK'
  BY <1>3 DEF FailOrder, FailedStatuses, Statuses, OutboxRows
<1>4. ASSUME NEW o \in Orders, CompensateOrder(o) PROVE PgTypeOK'
  BY <1>4, QuantityNat DEF CompensateOrder, Statuses
<1>5. CASE UNCHANGED pgVars
  BY <1>5 DEF pgVars
<1>. QED
  BY <1>1, <1>2, <1>3, <1>4, <1>5 DEF PgStep

\* The outbox is only appended to.
LEMMA OutboxGrows ==
    ASSUME PgTypeOK, PgStep
    PROVE  DOMAIN outbox \subseteq DOMAIN outbox' /\ \A i \in DOMAIN outbox : outbox'[i] = outbox[i]
<1>1. ASSUME NEW o \in Orders, NEW to \in FailedStatuses, FailOrder(o, to)
      PROVE  outbox' = Append(outbox, [order |-> o, reason |-> to])
             /\ [order |-> o, reason |-> to] \in OutboxRows
  BY <1>1 DEF FailOrder, OutboxRows
<1>2. outbox \in Seq(OutboxRows)
  BY DEF PgTypeOK
<1>3. outbox' = outbox \/ \E e \in OutboxRows : outbox' = Append(outbox, e)
  BY <1>1 DEF PgStep, InsertReservation, MarkPaid, CompensateOrder, pgVars
<1>. QED
  BY <1>2, <1>3

\* A row of the outbox is about an order.
LEMMA RowsHaveOrders == PgTypeOK => \A i \in DOMAIN outbox : outbox[i].order \in Orders
<1>. SUFFICES ASSUME PgTypeOK, NEW i \in DOMAIN outbox PROVE outbox[i].order \in Orders
  OBVIOUS
<1>1. outbox \in Seq(OutboxRows)
  BY DEF PgTypeOK
<1>2. outbox[i] \in OutboxRows
  BY <1>1, ElementOfSeq
<1>. QED
  BY <1>2 DEF OutboxRows

\* A compensated order stays compensated, and a present one present.
LEMMA CompensatedStays ==
    ASSUME PgTypeOK, PgStep, NEW o \in Orders
    PROVE  /\ status[o] = "compensated" => status'[o] = "compensated"
           /\ status[o] # "absent" => status'[o] # "absent"
BY DEF PgTypeOK, PgStep, InsertReservation, AlreadyBought, MarkPaid, FailOrder, FailedStatuses,
       CompensateOrder, CanCompensate, pgVars

\* Every transaction is a step of OrderLifecycle.
LEMMA PgStepIsLifecycleStep ==
    PgTypeOK /\ PgStep => [Lifecycle!Next]_<<[o \in Orders |-> Life[status[o]]], available>>
<1>. SUFFICES ASSUME PgTypeOK, PgStep
              PROVE  [Lifecycle!Next]_<<[o \in Orders |-> Life[status[o]]], available>>
  OBVIOUS
<1>. USE DEF PgTypeOK
<1>. DEFINE life == [o \in Orders |-> Life[status[o]]]
<1>a. ASSUME NEW o \in Orders, NEW s \in Statuses, status' = [status EXCEPT ![o] = s]
      PROVE  life' = [life EXCEPT ![o] = Life[s]]
  BY <1>a
<1>b. /\ Life["absent"] = "none" /\ Life["awaiting_payment"] = "held"
      /\ Life["paid"] = "sold" /\ Life["compensated"] = "released"
      /\ \A s \in FailedStatuses : Life[s] = "lost"
      /\ \A s \in Statuses : Life[s] = "none" => s = "absent"
  BY DEF Life, FailedStatuses, Statuses
<1>1. ASSUME NEW o \in Orders, InsertReservation(o) PROVE Lifecycle!Hold(o)
  <2>1. \A p \in Orders : CustomerOf[p] = CustomerOf[o] => life[p] = "none"
    BY <1>1, <1>b DEF InsertReservation, AlreadyBought
  <2>2. QuantityOf[o] <= available
    <3>1. QuantityOf[o] \in Nat /\ available \in Nat
      BY QuantityNat
    <3>2. ~(available < QuantityOf[o])
      BY <1>1 DEF InsertReservation, SoldOut
    <3>. QED
      BY <3>1, <3>2
  <2>3. life' = [life EXCEPT ![o] = "held"]
    BY <1>1, <1>a, <1>b DEF InsertReservation, Statuses
  <2>. QED
    BY <1>1, <2>1, <2>2, <2>3 DEF InsertReservation, Lifecycle!Hold
<1>2. ASSUME NEW o \in Orders, NEW now \in Phases, MarkPaid(o, now) PROVE Lifecycle!Sell({o})
  <2>1. life' = [p \in Orders |-> IF p \in {o} THEN "sold" ELSE life[p]]
    BY <1>2, <1>a, <1>b DEF MarkPaid, Statuses
  <2>. QED
    BY <1>2, <1>b, <2>1 DEF MarkPaid, Lifecycle!Sell
<1>3. ASSUME NEW o \in Orders, NEW to \in FailedStatuses, FailOrder(o, to)
      PROVE  Lifecycle!Lose(o)
  <2>1. life' = [life EXCEPT ![o] = "lost"]
    BY <1>3, <1>a, <1>b DEF FailOrder, FailedStatuses, Statuses
  <2>. QED
    BY <1>3, <1>b, <2>1 DEF FailOrder, Lifecycle!Lose
<1>4. ASSUME NEW o \in Orders, CompensateOrder(o) PROVE Lifecycle!Release(o)
  <2>1. life' = [life EXCEPT ![o] = "released"]
    BY <1>4, <1>a, <1>b DEF CompensateOrder, Statuses
  <2>. QED
    BY <1>4, <1>b, <2>1 DEF CompensateOrder, CanCompensate, Lifecycle!Release
<1>5. CASE UNCHANGED pgVars
  BY <1>5 DEF pgVars
<1>. QED
  BY <1>1, <1>2, <1>3, <1>4, <1>5 DEF PgStep, Lifecycle!Next

\* Seen from the tables: a component that only takes these steps implements
\* OrderLifecycle, and with it conserves tickets and keeps customers to one order.
LEMMA LifecycleInvariants ==
    Lifecycle!Inv /\ PgTypeOK => TicketsConserved /\ OneOrderPerCustomer
<1>. SUFFICES ASSUME Lifecycle!Inv, PgTypeOK PROVE TicketsConserved /\ OneOrderPerCustomer
  OBVIOUS
<1>1. \A o \in Orders : /\ Life[status[o]] = "none" <=> status[o] = "absent"
                        /\ Life[status[o]] = "released" <=> status[o] = "compensated"
  BY DEF PgTypeOK, Statuses, Life, FailedStatuses
<1>2. Lifecycle!Keeping = Holding
  BY <1>1 DEF Lifecycle!Keeping, Holding
<1>3. TicketsConserved
  BY <1>2 DEF Lifecycle!Inv, Lifecycle!Conserved, TicketsConserved, Tickets, Lifecycle!Tickets,
     Lifecycle!Cardinality, Cardinality
<1>4. OneOrderPerCustomer
  BY <1>1 DEF Lifecycle!Inv, Lifecycle!OneEach, OneOrderPerCustomer
<1>. QED
  BY <1>3, <1>4

\* The theorem about OrderLifecycle, for its instance over the tables.
THEOREM PgLifecycleInv == Lifecycle!Spec => []Lifecycle!Inv
<1>0. Lifecycle!CatalogAssumption
  BY CatalogAssumption DEF Lifecycle!CatalogAssumption, IsFiniteSet, Lifecycle!IsFiniteSet
<1>1. Lifecycle!Init => Lifecycle!Inv
  BY <1>0, Lifecycle!InvInit
<1>2. Lifecycle!Inv /\ [Lifecycle!Next]_<<[o \in Orders |-> Life[status[o]]], available>>
        => Lifecycle!Inv'
  BY <1>0, Lifecycle!InvNext
<1>. QED
  BY <1>1, <1>2, PTL DEF Lifecycle!Spec
=============================================================================
