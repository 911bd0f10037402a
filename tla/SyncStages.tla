----------------------------- MODULE SyncStages ------------------------------
(***************************************************************************)
(* The stages that compensate in one transaction, as one module: Stage 5,  *)
(* and the three it is compared with. They share the HTTP handlers of      *)
(* payment and the shape of sweeper and compensator; a deployment runs the *)
(* binary of one stage.                                                    *)
(*                                                                         *)
(* Stage 1 books in one Postgres transaction that locks the ticket type.   *)
(* Stage 2 deducts in Redis and inserts the row in the same request; its   *)
(* event_ticket_types are never written. Stage 3 books through the stream  *)
(* and the workers of Reservation, in the process that serves and sweeps.  *)
(***************************************************************************)
EXTENDS Stage5Intake

CONSTANTS Requests,     \* [Stages -> SUBSET Orders]: those that reach the server (a bound)
          Workers,      \* Stage 3: the consumer names of the group
          BatchSize,    \* Stage 3: StreamReadCount
          MaxRetries    \* Stage 3: attempts per message

Stages == {1, 2, 3, 5}

ASSUME StagesAssumption ==
    /\ Requests \in [Stages -> SUBSET Orders]
    /\ BatchSize \in Nat \ {0}
    /\ MaxRetries \in Nat \ {0}

VARIABLES stage,        \* the stage whose binary runs
          \* Stage 3: the variables of Reservation
          stream, cursor, pel, dlq, mode, batch, step, tries, why, workLeft

workVars == <<stream, cursor, pel, dlq, mode, batch, step, tries, why, workLeft>>
syncVars == <<stage, vars, workVars>>

R == INSTANCE Reservation WITH left <- workLeft

StagesTypeOK == TypeOK /\ stage \in Stages /\ (stage = 3 => R!TypeOK)

StagesInit ==
    /\ EnvInit /\ PgInit /\ Stage5Init
    /\ stage \in Stages
    /\ api = [o \in Orders |-> IF o \in Requests[stage] THEN "new" ELSE "failed"]
    /\ stream = <<>> /\ cursor = 0 /\ dlq = {} /\ workLeft = {}
    /\ pel = [w \in Workers |-> {}]
    /\ mode = [w \in Workers |-> "down"]
    /\ batch = [w \in Workers |-> {}]
    /\ step = [w \in Workers |-> "process"]
    /\ tries = [w \in Workers |-> 0]
    /\ why = [w \in Workers |-> "exhausted_retries"]

\* What neither a synchronous request nor a synchronous compensation touches.
elsewhere == <<meta, refunded, queueVars, counted, payVars>>

-----------------------------------------------------------------------------
(* Stage 1: BookTicket is one transaction *)

\* A booking holds the row lock of the ticket type.
TicketTypeLocked == \E o \in Orders : api[o] = "writing"

\* SELECT ... FOR UPDATE, which waits for the row, and the test of what it read.
LockTicketType(o) ==
    /\ api[o] = "new"
    /\ ~TicketTypeLocked
    /\ \/ Answer(o, IF SoldOut(o) THEN "sold_out" ELSE "writing") /\ UNCHANGED budget
       \/ Fault("db") /\ Answer(o, "failed")
    /\ UNCHANGED <<phase, pgVars, redisVars, elsewhere, compVars>>

\* The UPDATE of the ticket type and the INSERT of the order; the UPDATE tests
\* nothing, it relies on the lock.
TakeAndInsert(o) ==
    /\ ~AlreadyBought(o)
    /\ available' = available - QuantityOf[o]
    /\ status' = [status EXCEPT ![o] = "awaiting_payment"]
    /\ UNCHANGED outbox

\* The rest of the transaction: committed, rolled back, or committed with its
\* reply lost.
CommitBooking(o) ==
    /\ api[o] = "writing"
    /\ OpenWindow(o)
    /\ \/ /\ TakeAndInsert(o)
          /\ \/ Answer(o, "accepted") /\ UNCHANGED budget
             \/ Fault("commit") /\ Answer(o, "failed")
       \/ /\ AlreadyBought(o)
          /\ Answer(o, "failed")
          /\ UNCHANGED <<budget, pgVars>>
       \/ /\ Fault("db")
          /\ Answer(o, "failed")
          /\ UNCHANGED pgVars
    /\ UNCHANGED <<redisVars, elsewhere, compVars>>

\* stage1Compensator: no Redis; its UPDATE waits for a booking's lock.
ReleaseStage1(a) ==
    /\ comp[a] = "locked"
    /\ ~TicketTypeLocked
    /\ \/ ReleaseOrder(job[a]) /\ UNCHANGED budget
       \/ Fault("commit") /\ ReleaseOrder(job[a])
       \/ Fault("db") /\ UNCHANGED pgVars
    /\ Unlock(a)
    /\ UNCHANGED <<phase, redisVars, api, elsewhere, swept>>

-----------------------------------------------------------------------------
(* Stage 2: deduct in Redis, insert, or give back *)

\* deduct_sync.lua.
DeductSync(o) == DeductThen(o, "writing")

\* NewReservation, then the INSERT on its own. Any failure, also one whose
\* statement took effect, is answered by giving the tickets back.
InsertOrder(o) ==
    /\ api[o] = "writing"
    /\ \/ /\ phase[o] = "open"
          /\ ~AlreadyBought(o)
          /\ status' = [status EXCEPT ![o] = "awaiting_payment"]
          /\ \/ Answer(o, "accepted") /\ UNCHANGED budget
             \/ Fault("commit") /\ Answer(o, "reverting")
          /\ UNCHANGED <<available, outbox>>
       \/ /\ phase[o] # "open" \/ AlreadyBought(o)
          /\ Answer(o, "reverting")
          /\ UNCHANGED <<budget, pgVars>>
       \/ /\ Fault("db")
          /\ Answer(o, "reverting")
          /\ UNCHANGED pgVars
    /\ UNCHANGED <<phase, redisVars, elsewhere, compVars>>

\* revertAfterFailure, under the id the compensator uses.
RevertAfterFailure(o) ==
    /\ api[o] = "reverting"
    /\ Answer(o, "failed")
    /\ \/ RevertOrder(o, QuantityOf[o]) /\ UNCHANGED budget
       \/ /\ Fault("redis")
          /\ RevertOrder(o, QuantityOf[o]) \/ UNCHANGED redisVars
    /\ UNCHANGED <<phase, pgVars, elsewhere, compVars>>

\* stage2Compensator after the revert: the one UPDATE, of the order.
MarkStage2(o) ==
    /\ status[o] = "awaiting_payment"
    /\ status' = [status EXCEPT ![o] = "compensated"]
    /\ UNCHANGED <<available, outbox>>

ReleaseStage2(a) ==
    /\ comp[a] = "commit"
    /\ \/ MarkStage2(job[a]) /\ UNCHANGED budget
       \/ Fault("commit") /\ MarkStage2(job[a])
       \/ Fault("db") /\ UNCHANGED pgVars
    /\ Unlock(a)
    /\ UNCHANGED <<phase, redisVars, api, elsewhere, swept>>

-----------------------------------------------------------------------------
(* Stage 3: the booking path of Reservation *)

\* What a step of Reservation leaves alone.
notReserving == <<refunded, queueVars, counted, payVars, compVars>>

Stage3Book(o) == R!Api(o) /\ UNCHANGED notReserving

Stage3Work(w) == R!Work(w) /\ UNCHANGED notReserving

\* stage3Compensator gives back to both, as the worker took from both.
Stage3Compensate(a) == Compensate(a)

-----------------------------------------------------------------------------
Stage1Book(o) == LockTicketType(o) \/ CommitBooking(o)

Stage2Book(o) == DeductSync(o) \/ RepairMetadata(o) \/ InsertOrder(o) \/ RevertAfterFailure(o)

Stage1Compensate(a) == (\E o \in Orders : Lock(a, o)) \/ ReleaseStage1(a)

Stage2Compensate(a) == (\E o \in Orders : Lock(a, o)) \/ RevertLocked(a) \/ ReleaseStage2(a)

\* The workers of Stage 3 die with their process.
WorkersDie ==
    /\ mode' = [w \in Workers |-> "down"]
    /\ batch' = [w \in Workers |-> {}]
    /\ UNCHANGED <<stream, cursor, pel, dlq, step, tries, why, workLeft>>

BookIn(o) ==
    \/ /\ \/ stage = 1 /\ Stage1Book(o)
          \/ stage = 2 /\ Stage2Book(o)
          \/ stage = 5 /\ Api(o)
       /\ UNCHANGED workVars
    \/ stage = 3 /\ Stage3Book(o)

\* sweepOnce, or a failed confirmation, calls the compensator of the stage.
CompensateIn(a) ==
    /\ \/ stage = 1 /\ Stage1Compensate(a)
       \/ stage = 2 /\ Stage2Compensate(a)
       \/ stage = 3 /\ Stage3Compensate(a)
       \/ stage = 5 /\ Compensate(a)
    /\ UNCHANGED workVars

\* What runs in the background beside the sweeper.
ConsumeIn ==
    \/ stage = 3 /\ \E w \in Workers : Stage3Work(w)
    \/ stage = 5 /\ Consume /\ UNCHANGED workVars

StagesAtRest ==
    /\ AtRest
    /\ stage = 3 => R!AtRest /\ \A w \in Workers : mode[w] = "subscribed"

\* The handlers of payment, the clock and the crash are those of Stage 5.
SharedNext ==
    \/ /\ \/ \E o \in Orders : PayIntent(o) \/ StartConfirm(o) \/ Confirm(o) \/ Clock(o)
          \/ ListOverdue
          \/ stage # 1 /\ EvictMetadata
       /\ UNCHANGED workVars
    \/ Crash /\ WorkersDie
    \/ StagesAtRest /\ UNCHANGED <<vars, workVars>>

StagesNext ==
    /\ UNCHANGED stage
    /\ \/ \E o \in Orders : BookIn(o)
       \/ \E a \in Compensators : CompensateIn(a)
       \/ ConsumeIn
       \/ SharedNext

\* A step of a confirmation that has locked its row.
FinishConfirm(a) == comp[a] # "idle" /\ CompensateIn(a)

-----------------------------------------------------------------------------
(* What the stages promise *)

\* Every booking answered with success becomes accounted for. Stages 1 and 2
\* answer when it is an order; Stage 3 when its message is in the stream, Stage 5
\* when it is in the topic: through crashes and lost acknowledgements the message
\* becomes an order or is given back, or is logged as left.
StagesAccepted ==
    \A o \in Orders :
        api[o] = "accepted" ~>
            IF stage = 3
            THEN \A m \in R!Ids : stream[m] = o => R!Resolved(m) \/ m \in workLeft
            ELSE Accounted(o) \/ \E m \in left : topic[m] = o

\* A compensated order's tickets are back in Redis, where the stage keeps them
\* there (Stages 2 and 5): the revert comes before the commit.
CompensatedIsBack == stage # 1 => CompensatedIsReverted

\* Stage 2 seen from Redis: an order whose tickets were given back is released,
\* whatever its row says, and one whose insertion was reported as failed is not
\* sold before it is.
Stage2Life(o) ==
    IF status[o] = "absent" THEN "none"
    ELSE IF o \in revertedOrders THEN "released"
    ELSE IF api[o] = "reverting" THEN "held"
    ELSE Life[status[o]]

Stage2Keeping == {o \in Orders : status[o] # "absent" /\ o \notin revertedOrders}

Released == INSTANCE OrderLifecycle
            WITH life <- [o \in Orders |-> IF stage = 2 THEN Stage2Life(o) ELSE Life[status[o]]],
                 free <- IF stage = 2 THEN TotalTickets - Cardinality(Tickets(Stage2Keeping))
                                      ELSE available,
                 Direct <- TRUE

\* In every stage an order takes tickets that are there, once, is then sold or
\* released, and a released one frees them once: in Stage 1 by the locks of
\* Postgres, in Stage 2 by Redis alone, in Stages 3 and 5 by both.
StagesImplementLifecycle == Released!Spec

\* Stage 2: what Redis still offers and what the orders that were not given back
\* hold is never more than there is, whatever fails between Redis and Postgres.
RedisNeverOversells ==
    stage = 2 => qty + Cardinality(Tickets(Stage2Keeping)) <= TotalTickets
=============================================================================
