--------------------------- MODULE BookingSystem ----------------------------
(***************************************************************************)
(* The whole of Pattern A: the booking path, the payment path and the saga *)
(* over the same Postgres tables, the same Redis inventory and one clock.  *)
(* Where Payment and Saga let an order appear or fail by a step of their   *)
(* environment, here the other components make it appear and fail.         *)
(***************************************************************************)
EXTENDS Reservation

CONSTANTS Handlers, SweepBatch, Unlabelled, NoEvent,
          Relays, NoRelay, RelayBatch, StuckBatch, SagaMaxRetries

VARIABLES intent, payer, created, declined, charged, webhooks,
          handler, event, began, lateSuccess, sweep, expiring,
          lock, leads, listed, sent, processed, topic, committed, fetched,
          retries, sagaDlq, stuck, tooOld, comp, job, marked

Pays == INSTANCE Payment
Undo == INSTANCE Saga WITH Failing <- Orders

\* What each component assumes of its constants.
ASSUME SystemAssumption == Pays!PaymentAssumption /\ Undo!SagaAssumption

payVars == <<intent, payer, created, declined, charged, webhooks,
             handler, event, began, lateSuccess, sweep, expiring>>
sagaVars == <<lock, leads, listed, sent, processed, topic, committed, fetched,
              retries, sagaDlq, stuck, tooOld, comp, job, marked>>
systemVars == <<vars, payVars, sagaVars>>

SystemTypeOK == TypeOK /\ Pays!TypeOK /\ Undo!TypeOK

SystemInit == Init /\ Pays!PayInit /\ Undo!SagaInit

-----------------------------------------------------------------------------
\* A step of one component leaves the state of the others alone.
Booking(A) == A /\ UNCHANGED <<payVars, sagaVars>>
Paying(A)  == A /\ UNCHANGED <<redisVars, resVars, sagaVars>>
Undoing(A) == A /\ UNCHANGED <<resVars, payVars>>

Clock(o) ==
    /\ PassDeadline(o) \/ PassGrace(o)
    /\ UNCHANGED <<pgVars, redisVars, resVars, payVars, sagaVars>>

\* Every request is answered and nothing is half done or in a queue. The
\* consumer may have left messages uncommitted that it will not read again.
SystemAtRest ==
    /\ Drained
    /\ Pays!AtRest
    /\ Undo!AtRest
    /\ webhooks = {}
    /\ processed = DOMAIN outbox
    /\ fetched = Len(topic)

SystemRest ==
    /\ SystemAtRest
    /\ \A w \in Workers : mode[w] = "subscribed"
    /\ UNCHANGED systemVars

SystemNext ==
    \/ \E o \in Orders : Booking(Api(o)) \/ Paying(Pays!Customer(o)) \/ Clock(o)
    \/ \E w \in Workers : Booking(Work(w) \/ Crash(w))
    \/ Booking(EvictMetadata)
    \/ \E h \in Handlers : Paying(Pays!Serve(h) \/ Pays!CrashHandler(h))
    \/ Paying(Pays!Sweep \/ Pays!CrashSweeper)
    \/ \E r \in Relays : Undoing(Undo!Relay(r))
    \/ Undoing(Undo!Consume \/ Undo!Watch \/ Undo!SagaFaults)
    \/ SystemRest

SystemSpec == SystemInit /\ [][SystemNext]_systemVars

\* What each component's own specification takes to be fair, and the clock.
FairSystemSpec ==
    /\ SystemSpec
    /\ \A o \in Orders : WF_systemVars(Booking(Api(o))) /\ WF_systemVars(Clock(o))
    /\ \A w \in Workers : WF_systemVars(Booking(Work(w)))
    /\ \A h \in Handlers : WF_systemVars(Paying(Pays!Serve(h)))
    /\ WF_systemVars(Paying(Pays!Sweep))
    /\ \A r \in Relays : WF_systemVars(Undoing(Undo!Relay(r)))
    /\ WF_systemVars(Undoing(Undo!Consume))
    /\ WF_systemVars(Undoing(Undo!Watch))

-----------------------------------------------------------------------------
(* What the components promise together *)

\* The tickets of the bookings that are in the queue and not yet in orders.
Unwritten ==
    {m \in Ids \ revertedMsgs : status[stream[m]] = "absent"}

\* Between them Redis and the queue never offer or hold a ticket that Postgres
\* does not have: while no acknowledgement, reply or commit is lost, whoever
\* was told "accepted" finds his tickets in event_ticket_types.
NoOversell == qty + Cardinality(MsgTickets(Unwritten)) <= available

\* When all is done, Redis and Postgres agree on what is left to sell: every path
\* that takes a ticket on one side and fails gives it back on the same side, and a
\* failed order that nobody is compensating has its tickets on neither.
RestsInAgreement == SystemAtRest => qty = available

\* Without failures the two sides come to agree for good, through the queue,
\* the deadline, the sweeper, the outbox, Kafka and the compensator.
SettlesInAgreement == <>[](qty = available)

\* Every accepted booking ends: paid, given back, or dead-lettered and given
\* back. No reservation holds tickets for ever.
AcceptedEnds ==
    \A o \in Orders : api[o] = "accepted" ~>
        \/ status[o] \in {"paid", "compensated"}
        \/ \E d \in dlq : stream[d.msg] = o /\ d.msg \in revertedMsgs

\* A customer whose earlier orders have all failed in payment may buy again
\* (deploy/postgres/migrations/000006_relax_unique_constraint.up.sql:1-3): the
\* worker gives a message up only if the tickets are gone or an order of the
\* same customer is alive.
FailedCustomerMayRetry ==
    [][\A w \in Workers :
        Process(w) /\ why'[w] = "exhausted_retries" /\ step'[w] = "revert" =>
            LET o == stream[Current(w)] IN
                \/ SoldOut(o)
                \/ \E p \in Orders : /\ CustomerOf[p] = CustomerOf[o]
                                     /\ status[p] \in {"awaiting_payment", "paid"}]_systemVars
=============================================================================
