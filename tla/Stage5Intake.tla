---------------------------- MODULE Stage5Intake ----------------------------
(***************************************************************************)
(* Stage 5 of the booking path: BookTicket deducts from Redis and publishes*)
(* to Kafka in two steps; a consumer turns each message into a row of      *)
(* orders or gives its tickets back; there is no outbox and no saga, an    *)
(* abandoned or failed order is compensated in one transaction around the  *)
(* Redis revert.                                                           *)
(*                                                                         *)
(* One process serves the requests, consumes and sweeps. The topic is one  *)
(* partition, a message is the order it books, its offset its index.       *)
(***************************************************************************)
EXTENDS Postgres, RedisInventory

CONSTANTS Sweeper,      \* the expiry sweeper, as a caller of Compensate
          Confirmers,   \* requests that report a failed payment
          NoOrder,
          SweepBatch,   \* FindExpiredReservations' limit
          Oversized     \* orders whose amount_cents does not fit an int64

ASSUME Stage5Assumption ==
    /\ SweepBatch \in Nat \ {0}
    /\ Sweeper \notin Confirmers
    /\ NoOrder \notin Orders
    /\ Oversized \subseteq Orders

VARIABLES api,         \* [Orders -> ApiStates]: how far BookTicket has come
          meta,        \* ticket_type_meta:<id> is cached
          refunded,    \* the orders with a saga:reverted:<order id> key
          topic,       \* booking.intake.v5
          committed,   \* the consumer group's offset
          fetched,     \* the last message the consumer has fetched
          at,          \* what is next for that message
          counted,     \* the orders whose revert failed: metric and error log
          left,        \* the messages logged as left for redelivery and not fetched since
          intent,      \* the orders with a payment_intent_id
          confirming,  \* the orders whose success confirmation is under way
          swept,       \* what the sweeper listed and has not come to
          comp,        \* [Compensators -> CompSteps]
          job          \* [Compensators -> Orders \cup {NoOrder}]: the row it locks

apiVars == <<api, meta, refunded>>
queueVars == <<topic, committed, fetched, at, left>>
payVars == <<intent, confirming>>
compVars == <<swept, comp, job>>
vars == <<budget, phase, pgVars, redisVars, apiVars, queueVars, counted, payVars, compVars>>

Compensators == {Sweeper} \cup Confirmers
ApiStates == {"new", "repairing", "retrying", "publishing", "reverting",
              "writing",     \* SyncStages: the row of the order is written next
              "accepted", "sold_out", "failed"}
InRequest == ApiStates \ {"new", "accepted", "sold_out", "failed"}
ConsumerSteps == {"fetch", "process", "revert", "commit"}
CompSteps == {"idle", "locked", "commit"}

TypeOK ==
    /\ EnvTypeOK
    /\ PgTypeOK
    /\ RedisTypeOK
    /\ api \in [Orders -> ApiStates]
    /\ meta \in BOOLEAN
    /\ refunded \subseteq Orders
    /\ topic \in Seq(Orders)
    /\ fetched \in 0..Len(topic)
    /\ committed \in 0..fetched
    /\ at \in ConsumerSteps
    /\ counted \subseteq Orders
    /\ left \subseteq 1..fetched
    /\ confirming \subseteq intent /\ intent \subseteq Orders
    /\ swept \subseteq Orders
    /\ comp \in [Compensators -> CompSteps]
    /\ job \in [Compensators -> Orders \cup {NoOrder}]
    /\ \A a \in Compensators : comp[a] = "idle" <=> job[a] = NoOrder

Stage5Init ==
    /\ qty = TotalTickets
    /\ revertedMsgs = {}
    /\ revertedOrders = {}
    /\ meta = TRUE
    /\ refunded = {}
    /\ topic = <<>>
    /\ committed = 0
    /\ fetched = 0
    /\ at = "fetch"
    /\ counted = {}
    /\ left = {}
    /\ intent = {}
    /\ confirming = {}
    /\ swept = {}
    /\ comp = [a \in Compensators |-> "idle"]
    /\ job = [a \in Compensators |-> NoOrder]

Init == EnvInit /\ PgInit /\ Stage5Init /\ api = [o \in Orders |-> "new"]

-----------------------------------------------------------------------------
(* BookTicket *)

Answer(o, a) == api' = [api EXCEPT ![o] = a]

\* deduct_no_xadd.lua refuses: the quantity is put back before it returns.
DeductSoldOut(o) == qty < QuantityOf[o]

\* deduct_no_xadd.lua accepts: DECRBY, and nothing queued.
DeductOnly(o) ==
    /\ ~DeductSoldOut(o)
    /\ meta
    /\ qty' = qty - QuantityOf[o]

\* The first call of the script, or the second after the repair. A reply may be
\* lost after the script has run, or the client sends it again; an amount that is
\* no int64 fails after it has run. Nothing is given back then.
DeductThen(o, next) ==
    /\ api[o] \in {"new", "retrying"}
    /\ OpenWindow(o)
    /\ \/ /\ DeductOnly(o)
          /\ \/ /\ Answer(o, IF o \in Oversized THEN "failed" ELSE next)
                /\ UNCHANGED budget
             \/ /\ Fault("redis")
                /\ Answer(o, "failed")
             \/ /\ Fault("resend")
                /\ UNCHANGED api
       \/ /\ DeductSoldOut(o)
          /\ Answer(o, "sold_out")
          /\ UNCHANGED <<budget, qty>>
       \/ /\ ~DeductSoldOut(o)
          /\ ~meta
          /\ Answer(o, IF api[o] = "new" THEN "repairing" ELSE "failed")
          /\ UNCHANGED <<budget, qty>>
       \/ /\ Fault("redis")
          /\ Answer(o, "failed")
          /\ UNCHANGED qty
    /\ UNCHANGED <<pgVars, revertedMsgs, revertedOrders, meta, refunded, queueVars,
                   counted, payVars, compVars>>

\* DeductInventoryNoStream.
Deduct(o) == DeductThen(o, "publishing")

\* deductWithMetadataRepair: read the ticket type from Postgres, cache it again.
RepairMetadata(o) ==
    /\ api[o] = "repairing"
    /\ \/ /\ meta' = TRUE
          /\ Answer(o, "retrying")
          /\ UNCHANGED budget
       \/ /\ Fault("db") \/ Fault("redis")
          /\ Answer(o, "failed")
          /\ UNCHANGED meta
    /\ UNCHANGED <<phase, pgVars, redisVars, refunded, queueVars, counted, payVars, compVars>>

\* The metadata key reaches its time to live.
EvictMetadata ==
    /\ meta
    /\ Fault("metadata")
    /\ meta' = FALSE
    /\ UNCHANGED <<phase, pgVars, redisVars, api, refunded, queueVars, counted, payVars, compVars>>

\* PublishIntake: acknowledged; or an error or timeout, with the message in the
\* topic or not; or the writer repeats a write whose acknowledgement was lost.
Publish(o) ==
    /\ api[o] = "publishing"
    /\ \/ /\ topic' = Append(topic, o)
          /\ Answer(o, "accepted")
          /\ UNCHANGED budget
       \/ /\ Fault("kafka")
          /\ topic' \in {topic, Append(topic, o)}
          /\ Answer(o, "reverting")
       \/ /\ Fault("kafka")
          /\ topic' = Append(topic, o)
          /\ UNCHANGED api
    /\ UNCHANGED <<phase, pgVars, redisVars, meta, refunded, committed, fetched, at, left,
                   counted, payVars, compVars>>

\* revert.lua under the compensation id BookTicket gives it, the bare order id.
Refund(o) ==
    /\ IF o \in refunded THEN UNCHANGED qty ELSE qty' = qty + QuantityOf[o]
    /\ refunded' = refunded \cup {o}
    /\ UNCHANGED <<revertedMsgs, revertedOrders>>

\* The publish failed: give the tickets back, or count that it could not be done.
RevertPublish(o) ==
    /\ api[o] = "reverting"
    /\ Answer(o, "failed")
    /\ \/ /\ Refund(o)
          /\ UNCHANGED <<budget, counted>>
       \/ /\ Fault("redis")
          /\ Refund(o) \/ UNCHANGED <<redisVars, refunded>>
          /\ counted' = counted \cup {o}
    /\ UNCHANGED <<phase, pgVars, meta, queueVars, payVars, compVars>>

-----------------------------------------------------------------------------
(* The intake consumer *)

Fetch ==
    /\ at = "fetch"
    /\ fetched < Len(topic)
    /\ fetched' = fetched + 1
    /\ at' = "process"
    /\ UNCHANGED <<budget, phase, pgVars, redisVars, apiVars, topic, committed, left,
                   counted, payVars, compVars>>

\* Mutant of Skip: a message nothing can be made of is committed, its tickets
\* stay taken.
SkipWithoutRevert == at' = "commit" /\ UNCHANGED left

\* isTerminalProcessError: give the tickets back, then commit.
Skip == at' = "revert" /\ UNCHANGED left

\* Any other error: go on without a commit, for Kafka to redeliver.
Leave == at' = "fetch" /\ left' = left \cup {fetched}

\* Process: NewReservation, then the unit of work.
Process ==
    /\ at = "process"
    /\ LET o == topic[fetched] IN
        \/ /\ phase[o] # "open"
           /\ Skip
           /\ UNCHANGED <<budget, pgVars>>
        \/ /\ phase[o] = "open"
           /\ \/ /\ InsertReservation(o)
                 /\ \/ at' = "commit" /\ UNCHANGED <<budget, left>>
                    \/ Fault("commit") /\ Leave
              \/ /\ SoldOut(o) \/ AlreadyBought(o)
                 /\ Skip
                 /\ UNCHANGED <<budget, pgVars>>
              \/ /\ Fault("db")
                 /\ Leave
                 /\ UNCHANGED pgVars
    /\ UNCHANGED <<phase, redisVars, apiVars, topic, committed, fetched, counted,
                   payVars, compVars>>

\* compensateLeakedInventory: a failed revert is counted, not repeated.
RevertLeaked ==
    /\ at = "revert"
    /\ LET o == topic[fetched] IN
        \/ /\ RevertOrder(o, QuantityOf[o])
           /\ UNCHANGED <<budget, counted>>
        \/ /\ Fault("redis")
           /\ RevertOrder(o, QuantityOf[o]) \/ UNCHANGED redisVars
           /\ counted' = counted \cup {o}
    /\ at' = "commit"
    /\ UNCHANGED <<phase, pgVars, apiVars, topic, committed, fetched, left, payVars, compVars>>

CommitOffset == committed' = fetched

\* commitOrLog: a failed commit is logged, the consumer goes on.
Commit ==
    /\ at = "commit"
    /\ at' = "fetch"
    /\ \/ CommitOffset /\ UNCHANGED budget
       \/ Fault("kafka") /\ UNCHANGED committed
    /\ UNCHANGED <<phase, pgVars, redisVars, apiVars, topic, fetched, left, counted,
                   payVars, compVars>>

-----------------------------------------------------------------------------
(* Payment, and compensation *)

\* A compensation holds the row lock of the order.
Locked(o) == \E a \in Compensators : job[a] = o

\* HandlePayIntent: the conditions are tested in the UPDATE.
PayIntent(o) ==
    /\ status[o] = "awaiting_payment"
    /\ phase[o] = "open"
    /\ ~Locked(o)
    /\ intent' = intent \cup {o}
    /\ o \notin intent
    /\ UNCHANGED <<budget, phase, pgVars, redisVars, apiVars, queueVars, counted, confirming,
                   compVars>>

\* HandleTestConfirm, outcome succeeded: NOW() is when the UPDATE begins, which
\* may then have to wait for the row.
StartConfirm(o) ==
    /\ o \in intent \ confirming
    /\ status[o] = "awaiting_payment"
    /\ phase[o] = "open"
    /\ confirming' = confirming \cup {o}
    /\ UNCHANGED <<budget, phase, pgVars, redisVars, apiVars, queueVars, counted, intent, compVars>>

Confirm(o) ==
    /\ o \in confirming
    /\ ~Locked(o)
    /\ confirming' = confirming \ {o}
    /\ \/ MarkPaid(o, "open") /\ UNCHANGED budget
       \/ status[o] # "awaiting_payment" /\ UNCHANGED <<budget, pgVars>>
       \/ Fault("db") /\ UNCHANGED pgVars
    /\ UNCHANGED <<phase, redisVars, apiVars, queueVars, counted, intent, compVars>>

\* Mutant of Overdue: only what the grace period has not passed is listed.
JustLapsed == {o \in Orders : status[o] = "awaiting_payment" /\ phase[o] = "lapsed"}

\* FindExpiredReservations, without its limit.
Overdue == {o \in Orders : status[o] = "awaiting_payment" /\ phase[o] = "overdue"}

\* Sweep: list the oldest overdue orders.
ListOverdue ==
    /\ swept = {}
    /\ job[Sweeper] = NoOrder
    /\ \E S \in SUBSET Overdue :
        /\ S # {}
        /\ Cardinality(S) <= SweepBatch
        /\ swept' = S
    /\ UNCHANGED <<budget, phase, pgVars, redisVars, apiVars, queueVars, counted, payVars, comp, job>>

\* What a caller may ask Compensate for: what the sweeper listed, and any order
\* with a payment intent.
Wanted(a) == IF a = Sweeper THEN swept ELSE intent

\* Compensate begins: SELECT ... FOR UPDATE, which waits for the row, and the
\* status of the locked row decides.
Lock(a, o) ==
    /\ job[a] = NoOrder
    /\ o \in Wanted(a)
    /\ ~Locked(o)
    /\ swept' = IF a = Sweeper THEN swept \ {o} ELSE swept
    /\ \/ /\ status[o] = "awaiting_payment"
          /\ job' = [job EXCEPT ![a] = o]
          /\ comp' = [comp EXCEPT ![a] = "locked"]
          /\ UNCHANGED budget
       \/ /\ a = Sweeper
          /\ status[o] # "awaiting_payment"
          /\ UNCHANGED <<budget, comp, job>>
       \/ /\ Fault("db")
          /\ UNCHANGED <<comp, job>>
    /\ UNCHANGED <<phase, pgVars, redisVars, apiVars, queueVars, counted, payVars>>

\* The transaction is over, committed or rolled back, and the row is free.
Unlock(a) ==
    /\ comp' = [comp EXCEPT ![a] = "idle"]
    /\ job' = [job EXCEPT ![a] = NoOrder]

\* Mutant of RevertLocked: a failed revert does not end the transaction.
RevertLockedBestEffort(a) ==
    /\ comp[a] = "locked"
    /\ comp' = [comp EXCEPT ![a] = "commit"]
    /\ \/ RevertOrder(job[a], QuantityOf[job[a]]) /\ UNCHANGED budget
       \/ Fault("redis") /\ UNCHANGED redisVars
    /\ UNCHANGED <<phase, pgVars, apiVars, queueVars, counted, payVars, swept, job>>

\* RevertInventory, inside the transaction; if it fails, the transaction ends.
RevertLocked(a) ==
    /\ comp[a] = "locked"
    /\ \/ /\ RevertOrder(job[a], QuantityOf[job[a]])
          /\ comp' = [comp EXCEPT ![a] = "commit"]
          /\ UNCHANGED <<budget, job>>
       \/ /\ Fault("redis")
          /\ RevertOrder(job[a], QuantityOf[job[a]]) \/ UNCHANGED redisVars
          /\ Unlock(a)
    /\ UNCHANGED <<phase, pgVars, apiVars, queueVars, counted, payVars, swept>>

\* Mutant of ReleaseOrder: the UPDATE of event_ticket_types is missing.
ReleaseStatusOnly(o) ==
    /\ status[o] = "awaiting_payment"
    /\ status' = [status EXCEPT ![o] = "compensated"]
    /\ UNCHANGED <<available, outbox>>

\* The two UPDATEs and the commit.
ReleaseOrder(o) ==
    /\ status[o] = "awaiting_payment"
    /\ status' = [status EXCEPT ![o] = "compensated"]
    /\ available' = available + QuantityOf[o]
    /\ UNCHANGED outbox

\* The transaction commits, or fails and is rolled back: Redis is not.
CommitRelease(a) ==
    /\ comp[a] = "commit"
    /\ \/ ReleaseOrder(job[a]) /\ UNCHANGED budget
       \/ Fault("commit") /\ ReleaseOrder(job[a])
       \/ Fault("db") /\ UNCHANGED pgVars
    /\ Unlock(a)
    /\ UNCHANGED <<phase, redisVars, apiVars, queueVars, counted, payVars, swept>>

-----------------------------------------------------------------------------
\* Mutant of ResumeOffset: a restarted group reads from the end of the topic.
LastOffset == Len(topic)

\* Where a restarted consumer goes on.
ResumeOffset == committed

\* The process is gone: its requests end, its transactions are rolled back, and
\* the consumer it restarts with goes on from the committed offset.
Restart ==
    /\ api' = [o \in Orders |-> IF api[o] \in InRequest THEN "failed" ELSE api[o]]
    /\ fetched' = ResumeOffset
    /\ at' = "fetch"
    /\ left' = {m \in left : m <= ResumeOffset}
    /\ confirming' = {}
    /\ swept' = {}
    /\ comp' = [a \in Compensators |-> "idle"]
    /\ job' = [a \in Compensators |-> NoOrder]
    /\ UNCHANGED <<phase, pgVars, redisVars, meta, refunded, topic, committed, counted, intent>>

Crash == Fault("crash") /\ Restart

Api(o) == Deduct(o) \/ RepairMetadata(o) \/ Publish(o) \/ RevertPublish(o)

Consume == Fetch \/ Process \/ RevertLeaked \/ Commit

Compensate(a) ==
    \/ \E o \in Orders : Lock(a, o)
    \/ RevertLocked(a) \/ CommitRelease(a)

Clock(o) ==
    /\ PassDeadline(o) \/ PassGrace(o)
    /\ UNCHANGED <<pgVars, redisVars, apiVars, queueVars, counted, payVars, compVars>>

\* Every request is answered, every message consumed, nothing to sweep.
AtRest ==
    /\ \A o \in Orders : api[o] \in {"accepted", "sold_out", "failed"}
    /\ at = "fetch" /\ fetched = Len(topic)
    /\ Overdue = {} /\ swept = {}
    /\ \A a \in Compensators : comp[a] = "idle"

Rest == AtRest /\ UNCHANGED vars

Next ==
    \/ \E o \in Orders : Api(o) \/ PayIntent(o) \/ StartConfirm(o) \/ Confirm(o) \/ Clock(o)
    \/ Consume
    \/ ListOverdue
    \/ \E a \in Compensators : Compensate(a)
    \/ EvictMetadata \/ Crash
    \/ Rest

Spec == Init /\ [][Next]_vars

\* The server finishes its requests, the consumer and the sweeper run and are
\* restarted. Nobody has to pay and no deadline has to pass.
FairSpec ==
    /\ Spec
    /\ \A o \in Orders : WF_vars(Api(o)) /\ WF_vars(Confirm(o))
    /\ WF_vars(Consume)
    /\ WF_vars(ListOverdue \/ Compensate(Sweeper))
    /\ \A a \in Confirmers : WF_vars(RevertLocked(a) \/ CommitRelease(a))

-----------------------------------------------------------------------------
(* What Stage 5 promises *)

\* A compensated order's tickets are back in Redis, whatever failed on the way
\* and however often it was repeated: the revert comes before the commit.
CompensatedIsReverted ==
    \A o \in Orders : status[o] = "compensated" => o \in revertedOrders

\* The tickets of the order are accounted for: an order has them, they were
\* given back, or a metric says that giving them back failed.
Accounted(o) == status[o] # "absent" \/ o \in revertedOrders \cup counted

\* No published booking disappears behind the committed offset, except those
\* that were logged as left for redelivery: a later commit covers these.
CommittedIsAccounted ==
    \A m \in 1..committed : Accounted(topic[m]) \/ m \in left

\* Every booking answered with 202 becomes accounted for, through crashes and
\* failed commits of the offset, or is logged as left for redelivery.
AcceptedIsAccounted ==
    \A o \in Orders :
        api[o] = "accepted" ~> Accounted(o) \/ \E m \in left : topic[m] = o

\* A reservation nobody pays is given back: a sweep that fails after the Redis
\* revert is repeated until the commit succeeds.
OverdueIsReleased ==
    \A o \in Orders : o \in Overdue ~> status[o] # "awaiting_payment"

\* Without outbox and saga a held order is released in one transaction; apart
\* from that the tables follow OrderLifecycle here too.
DirectLifecycle == INSTANCE OrderLifecycle
                   WITH life <- [o \in Orders |-> Life[status[o]]], free <- available,
                        Direct <- TRUE

ImplementsDirectLifecycle == DirectLifecycle!Spec
=============================================================================
