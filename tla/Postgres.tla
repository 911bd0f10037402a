------------------------------ MODULE Postgres ------------------------------
(***************************************************************************)
(* The tables the booking system keeps in Postgres, as far as the life of  *)
(* an order needs them, and the statements and transactions the components *)
(* run against them.                                                       *)
(*                                                                         *)
(* Each operator is one committed transaction (application.UnitOfWork.Do)  *)
(* or one autocommitted statement, hence atomic.                           *)
(***************************************************************************)
EXTENDS Environment, Sequences

VARIABLES status,      \* [Orders -> Statuses]: orders.status, "absent" without a row
          available,   \* event_ticket_types.available_tickets
          outbox       \* the order.failed rows of events_outbox, oldest first

pgVars == <<status, available, outbox>>

Statuses == {"absent", "awaiting_payment", "paid", "expired", "payment_failed",
             "compensated"}

FailedStatuses == {"expired", "payment_failed"}

OutboxRows == [order : Orders, reason : FailedStatuses]

PgTypeOK ==
    /\ status \in [Orders -> Statuses]
    /\ available \in Nat
    /\ outbox \in Seq(OutboxRows)

PgInit ==
    /\ status = [o \in Orders |-> "absent"]
    /\ available = TotalTickets
    /\ outbox = <<>>

-----------------------------------------------------------------------------
\* The orders whose tickets are taken out of available_tickets.
Holding == {o \in Orders : status[o] \notin {"absent", "compensated"}}

\* DecrementTicket affects no row.
SoldOut(o) == available < QuantityOf[o]

\* Create meets a unique violation: the primary key, or uq_orders_user_event
\* (every status but 'failed' counts, and Pattern A never writes 'failed').
AlreadyBought(o) ==
    \E p \in Orders : CustomerOf[p] = CustomerOf[o] /\ status[p] # "absent"

\* Mutant of InsertReservation: DecrementTicket is not undone when Create meets
\* the unique index, as without a transaction.
InsertWithoutRollback(o) ==
    /\ ~SoldOut(o)
    /\ available' = available - QuantityOf[o]
    /\ status' = IF AlreadyBought(o) THEN status
                 ELSE [status EXCEPT ![o] = "awaiting_payment"]
    /\ UNCHANGED outbox

\* The worker's unit of work: DecrementTicket, then Create.
InsertReservation(o) ==
    /\ ~SoldOut(o)
    /\ ~AlreadyBought(o)
    /\ available' = available - QuantityOf[o]
    /\ status' = [status EXCEPT ![o] = "awaiting_payment"]
    /\ UNCHANGED outbox

\* MarkPaid: the status and the deadline are tested in the one statement. NOW()
\* is the moment the transaction began, so now is the phase it began in.
MarkPaid(o, now) ==
    /\ status[o] = "awaiting_payment"
    /\ now = "open"
    /\ status' = [status EXCEPT ![o] = "paid"]
    /\ UNCHANGED <<available, outbox>>

\* Mutant of FailOrder: the UPDATE does not compare the status it moves from,
\* it only spares the compensated.
FailWithoutCompare(o, to) ==
    /\ status[o] \notin {"absent", "compensated"}
    /\ status' = [status EXCEPT ![o] = to]
    /\ outbox' = Append(outbox, [order |-> o, reason |-> to])
    /\ UNCHANGED available

\* MarkExpired or MarkPaymentFailed, and the order.failed row, in one unit of work.
FailOrder(o, to) ==
    /\ status[o] = "awaiting_payment"
    /\ status' = [status EXCEPT ![o] = to]
    /\ outbox' = Append(outbox, [order |-> o, reason |-> to])
    /\ UNCHANGED available

\* Mutant of CanCompensate: MarkCompensated does not compare the status.
CanIncrement(o) ==
    /\ available + QuantityOf[o] <= TotalTickets
    /\ status[o] # "absent"

\* The compensator's unit of work: IncrementTicket, then MarkCompensated. It
\* fails as a whole if the row would exceed total_tickets or has moved on.
CanCompensate(o) ==
    /\ available + QuantityOf[o] <= TotalTickets
    /\ status[o] \in FailedStatuses

CompensateOrder(o) ==
    /\ CanCompensate(o)
    /\ available' = available + QuantityOf[o]
    /\ status' = [status EXCEPT ![o] = "compensated"]
    /\ UNCHANGED outbox

-----------------------------------------------------------------------------
\* No ticket is sold twice and none is lost: what event_ticket_types still
\* offers and what the live orders hold add up to the tickets there are. It
\* rests on the guards of DecrementTicket, IncrementTicket and MarkCompensated
\* and on each running in the transaction that changes the order.
TicketsConserved == available + Cardinality(Tickets(Holding)) = TotalTickets

\* A customer holds at most one order for the event, whatever the queue
\* delivers twice (uq_orders_user_event).
OneOrderPerCustomer ==
    \A o, p \in Orders :
        /\ status[o] # "absent"
        /\ status[p] # "absent"
        /\ CustomerOf[o] = CustomerOf[p]
        => o = p

\* What the tables say of each order, as OrderLifecycle puts it.
Life == [absent           |-> "none",
         awaiting_payment |-> "held",
         paid             |-> "sold",
         expired          |-> "lost",
         payment_failed   |-> "lost",
         compensated      |-> "released"]

Lifecycle == INSTANCE OrderLifecycle
             WITH life <- [o \in Orders |-> Life[status[o]]], free <- available,
                  Direct <- FALSE

\* Whatever the components do, together or each on its own, the tables follow
\* OrderLifecycle: an order takes its tickets once, a sold one keeps them, and
\* a lost one returns them once.
ImplementsLifecycle == Lifecycle!Spec
=============================================================================
