------------------------------ MODULE Catalog -------------------------------
(***************************************************************************)
(* What is for sale and who asks for it. One ticket type of one event:     *)
(* inventory is kept per ticket type, and one order per customer and event.*)
(***************************************************************************)
EXTENDS Integers, FiniteSets

CONSTANTS Orders,        \* the order ids BookTicket mints, one per request
          Customers,
          CustomerOf,    \* [Orders -> Customers]: who asks for each order
          QuantityOf,    \* [Orders -> 1..MaxQuantity]: how many tickets
          MaxQuantity,
          TotalTickets   \* event_ticket_types.total_tickets

ASSUME CatalogAssumption ==
    /\ IsFiniteSet(Orders)
    /\ MaxQuantity \in Nat
    /\ TotalTickets \in Nat
    /\ CustomerOf \in [Orders -> Customers]
    /\ QuantityOf \in [Orders -> 1..MaxQuantity]

\* The tickets of a set of orders: one element for each ticket of each order.
Tickets(S) == {t \in S \X (1..MaxQuantity) : t[2] <= QuantityOf[t[1]]}
=============================================================================
