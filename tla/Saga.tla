-------------------------------- MODULE Saga --------------------------------
(***************************************************************************)
(* Compensation: the relay publishes the order.failed rows of the outbox to*)
(* Kafka, the saga consumer gives the tickets of each failed order back,   *)
(* first in Postgres and then in Redis, and the watchdog re-drives orders  *)
(* the consumer did not finish. The consumer and the watchdog run the same *)
(* compensator and may work on the same order at the same time.            *)
(*                                                                         *)
(* Offsets count from 1. The reader keeps the position it has fetched up to*)
(* in memory and Kafka keeps the committed one; a restart or a rebalance   *)
(* goes back to the latter. One partition, one consumer.                   *)
(***************************************************************************)
EXTENDS Postgres, RedisInventory

CONSTANTS Relays,          \* the processes that run the outbox relay
          NoRelay,         \* nobody holds the advisory lock
          RelayBatch,      \* the relay's batch size
          StuckBatch,      \* the watchdog's BatchSize
          SagaMaxRetries,  \* sagaMaxRetries
          Failing          \* the orders whose payment may fail (a bound)

VARIABLES lock,       \* who holds the advisory lock in Postgres
          leads,      \* the relays that hold on to a lock connection
          listed,     \* [Relays -> SUBSET Nat]: outbox rows still to publish
          sent,       \* [Relays -> SUBSET Nat]: the row published, not yet marked
          processed,  \* the outbox rows with a processed_at
          topic,      \* order.failed
          committed,  \* the group's committed offset
          fetched,    \* the reader's position
          retries,    \* [1..Len(topic) -> Nat]: saga:retry:<offset>
          sagaDlq,    \* the offsets copied to order.failed.dlq
          stuck,      \* the failed orders the watchdog has still to resolve
          tooOld,     \* the failed orders past MaxFailedAge
          comp,       \* [Compensators -> CompSteps]
          job,        \* [Compensators -> Orders]
          marked      \* the orders with a redis_reverted_at

relayVars == <<lock, leads, listed, sent, processed>>
kafkaVars == <<topic, committed, fetched, retries, sagaDlq>>
dogVars == <<stuck, tooOld>>
compVars == <<comp, job, marked>>
sagaVars == <<relayVars, kafkaVars, dogVars, compVars>>
vars == <<budget, phase, pgVars, redisVars, sagaVars>>

ASSUME SagaAssumption ==
    /\ NoRelay \notin Relays
    /\ RelayBatch \in Nat \ {0}
    /\ StuckBatch \in Nat \ {0}
    /\ SagaMaxRetries \in Nat
    /\ Failing \subseteq Orders
    /\ Orders # {}

Compensators == {"consumer", "watchdog"}
CompSteps == {"idle", "read", "tx", "check", "revert", "mark", "failed", "exhausted", "done"}
Offsets == 1..Len(topic)

RelayTypeOK ==
    /\ lock \in Relays \cup {NoRelay}
    /\ leads \subseteq Relays
    /\ listed \in [Relays -> SUBSET (DOMAIN outbox)]
    /\ sent \in [Relays -> SUBSET (DOMAIN outbox)]
    /\ processed \subseteq DOMAIN outbox

KafkaTypeOK ==
    /\ topic \in Seq(Orders)
    /\ committed \in 0..Len(topic)
    /\ fetched \in committed..Len(topic)
    /\ retries \in [Offsets -> Nat]
    /\ sagaDlq \subseteq Offsets

CompTypeOK ==
    /\ comp \in [Compensators -> CompSteps]
    /\ job \in [Compensators -> Orders]
    /\ marked \subseteq Orders

TypeOK ==
    /\ EnvTypeOK
    /\ PgTypeOK
    /\ RedisTypeOK
    /\ RelayTypeOK
    /\ KafkaTypeOK
    /\ stuck \subseteq Orders /\ tooOld \subseteq Orders
    /\ CompTypeOK

SagaInit ==
    /\ lock = NoRelay
    /\ leads = {}
    /\ listed = [r \in Relays |-> {}]
    /\ sent = [r \in Relays |-> {}]
    /\ processed = {}
    /\ topic = <<>>
    /\ committed = 0
    /\ fetched = 0
    /\ retries = <<>>
    /\ sagaDlq = {}
    /\ stuck = {}
    /\ tooOld = {}
    /\ comp = [c \in Compensators |-> "idle"]
    /\ job = [c \in Compensators |-> CHOOSE o \in Orders : TRUE]
    /\ marked = {}

Init ==
    /\ EnvInit
    /\ PgInit
    /\ qty = TotalTickets
    /\ revertedMsgs = {}
    /\ revertedOrders = {}
    /\ SagaInit

-----------------------------------------------------------------------------
(* What the other components do to the order, in one step each *)

\* The booking path has taken the tickets from Redis and written the order.
Reserve(o) ==
    /\ QuantityOf[o] <= qty
    /\ InsertReservation(o)
    /\ qty' = qty - QuantityOf[o]
    /\ OpenWindow(o)
    /\ UNCHANGED <<budget, revertedMsgs, revertedOrders, sagaVars>>

\* The payment path has failed it.
FailPayment(o) ==
    /\ o \in Failing
    /\ \E to \in FailedStatuses : FailOrder(o, to)
    /\ UNCHANGED <<budget, phase, redisVars, sagaVars>>

-----------------------------------------------------------------------------
(* outbox.Relay *)

\* The first n rows of a set of outbox rows.
Oldest(S, n) == {i \in S : Cardinality({k \in S : k < i}) < n}

\* TryLock. A relay that has the connection does not ask Postgres again.
TryLock(r) ==
    /\ r \notin leads
    /\ lock = NoRelay
    /\ lock' = r
    /\ leads' = leads \cup {r}
    /\ UNCHANGED <<budget, phase, pgVars, redisVars, listed, sent, processed,
                   kafkaVars, dogVars, compVars>>

\* Postgres ends the session and with it the lock; the relay does not notice.
LoseSession(r) ==
    /\ lock = r
    /\ Fault("session")
    /\ lock' = NoRelay
    /\ UNCHANGED <<phase, pgVars, redisVars, leads, listed, sent, processed,
                   kafkaVars, dogVars, compVars>>

ListPending(r) ==
    /\ r \in leads
    /\ listed[r] \cup sent[r] = {}
    /\ LET pending == DOMAIN outbox \ processed IN
        /\ pending # {}
        /\ listed' = [listed EXCEPT ![r] = Oldest(pending, RelayBatch)]
    /\ UNCHANGED <<budget, phase, pgVars, redisVars, lock, leads, sent, processed,
                   kafkaVars, dogVars, compVars>>

Produce(o) ==
    /\ topic' = Append(topic, o)
    /\ retries' = Append(retries, 0)
    /\ UNCHANGED <<committed, fetched, sagaDlq>>

\* Mutant of Publish: a failed publication is marked like a successful one.
PublishOrNot(r) ==
    /\ sent[r] = {}
    /\ listed[r] # {}
    /\ LET first == Oldest(listed[r], 1) IN
        /\ listed' = [listed EXCEPT ![r] = @ \ first]
        /\ sent' = [sent EXCEPT ![r] = first]
        /\ \E i \in first :
            \/ Produce(outbox[i].order) /\ UNCHANGED budget
            \/ Fault("kafka") /\ UNCHANGED kafkaVars
    /\ UNCHANGED <<phase, pgVars, redisVars, lock, leads, processed, dogVars, compVars>>

\* A row whose publication fails, or seems to, waits for the next batch.
Publish(r) ==
    /\ sent[r] = {}
    /\ listed[r] # {}
    /\ LET first == Oldest(listed[r], 1) IN
        /\ listed' = [listed EXCEPT ![r] = @ \ first]
        /\ \E i \in first :
            \/ /\ Produce(outbox[i].order)
               /\ \/ sent' = [sent EXCEPT ![r] = first] /\ UNCHANGED budget
                  \/ Fault("kafka") /\ UNCHANGED sent
            \/ Fault("kafka") /\ UNCHANGED <<sent, kafkaVars>>
    /\ UNCHANGED <<phase, pgVars, redisVars, lock, leads, processed, dogVars, compVars>>

MarkProcessed(r) ==
    /\ sent[r] # {}
    /\ sent' = [sent EXCEPT ![r] = {}]
    /\ \/ processed' = processed \cup sent[r] /\ UNCHANGED budget
       \/ Fault("db") /\ UNCHANGED processed
    /\ UNCHANGED <<phase, pgVars, redisVars, lock, leads, listed, kafkaVars, dogVars, compVars>>

\* The relay dies or is stopped; its session, if it still has one, ends too.
CrashRelay(r) ==
    /\ r \in leads
    /\ Fault("crash")
    /\ lock' = IF lock = r THEN NoRelay ELSE lock
    /\ leads' = leads \ {r}
    /\ listed' = [listed EXCEPT ![r] = {}]
    /\ sent' = [sent EXCEPT ![r] = {}]
    /\ UNCHANGED <<phase, pgVars, redisVars, processed, kafkaVars, dogVars, compVars>>

-----------------------------------------------------------------------------
(* compensator.HandleOrderFailed, run by c for the order job[c] *)

Doing(c, s) == comp[c] = s

CompGoes(c, s) ==
    /\ comp' = [comp EXCEPT ![c] = s]
    /\ UNCHANGED job

StartJob(c, o) ==
    /\ comp' = [comp EXCEPT ![c] = "read"]
    /\ job' = [job EXCEPT ![c] = o]
    /\ UNCHANGED marked

\* Mutant of ReadOrder: Redis is given its tickets before Postgres.
ReadThenRevert(c) ==
    /\ Doing(c, "read")
    /\ CompGoes(c, IF status[job[c]] = "compensated" THEN "check" ELSE "revert")
    /\ UNCHANGED <<budget, phase, pgVars, redisVars, relayVars, kafkaVars, dogVars, marked>>

\* GetByID in the unit of work: it takes no lock, the order may still change.
ReadOrder(c) ==
    /\ Doing(c, "read")
    /\ \/ /\ CompGoes(c, IF status[job[c]] = "compensated" THEN "check" ELSE "tx")
          /\ UNCHANGED budget
       \/ Fault("db") /\ CompGoes(c, "failed")
    /\ UNCHANGED <<phase, pgVars, redisVars, relayVars, kafkaVars, dogVars, marked>>

\* The rest of the unit of work; it is rolled back if the order has moved on.
Compensate(c) ==
    /\ Doing(c, "tx")
    /\ \/ /\ CompensateOrder(job[c])
          /\ \/ CompGoes(c, "revert") /\ UNCHANGED budget
             \/ CompGoes(c, "failed") /\ Fault("commit")
       \/ /\ ~CanCompensate(job[c])
          /\ CompGoes(c, "failed")
          /\ UNCHANGED <<budget, pgVars>>
       \/ /\ Fault("db")
          /\ CompGoes(c, "failed")
          /\ UNCHANGED pgVars
    /\ UNCHANGED <<phase, redisVars, relayVars, kafkaVars, dogVars, marked>>

WasRedisReverted(o) == o \in marked

\* If redis_reverted_at cannot be read, the revert is left to revert.lua.
CheckReverted(c) ==
    /\ Doing(c, "check")
    /\ \/ CompGoes(c, IF WasRedisReverted(job[c]) THEN "done" ELSE "revert") /\ UNCHANGED budget
       \/ CompGoes(c, "revert") /\ Fault("db")
    /\ UNCHANGED <<phase, pgVars, redisVars, relayVars, kafkaVars, dogVars, marked>>

RevertRedis(c) ==
    /\ Doing(c, "revert")
    /\ \/ /\ RevertOrder(job[c], QuantityOf[job[c]])
          /\ \/ CompGoes(c, "mark") /\ UNCHANGED budget
             \/ CompGoes(c, "failed") /\ Fault("redis")
       \/ /\ Fault("redis")
          /\ CompGoes(c, "failed")
          /\ UNCHANGED redisVars
    /\ UNCHANGED <<phase, pgVars, relayVars, kafkaVars, dogVars, marked>>

MarkRedisReverted(c) ==
    /\ Doing(c, "mark")
    /\ \/ /\ marked' = marked \cup {job[c]}
          /\ \/ CompGoes(c, "done") /\ UNCHANGED budget
             \/ CompGoes(c, "failed") /\ Fault("commit")
       \/ /\ Fault("db")
          /\ CompGoes(c, "failed")
          /\ UNCHANGED marked
    /\ UNCHANGED <<phase, pgVars, redisVars, relayVars, kafkaVars, dogVars>>

-----------------------------------------------------------------------------
(* SagaConsumer.Start *)

Fetch ==
    /\ Doing("consumer", "idle")
    /\ fetched < Len(topic)
    /\ fetched' = fetched + 1
    /\ StartJob("consumer", topic[fetched + 1])
    /\ UNCHANGED <<budget, phase, pgVars, redisVars, relayVars, topic, committed,
                   retries, sagaDlq, dogVars>>

\* Count the failure in Redis. Within the budget, or when it cannot be counted,
\* go on to the next message without committing this one.
CountFailure ==
    /\ Doing("consumer", "failed")
    /\ \/ /\ retries' = [retries EXCEPT ![fetched] = @ + 1]
          /\ CompGoes("consumer", IF retries'[fetched] <= SagaMaxRetries
                                  THEN "idle" ELSE "exhausted")
          /\ UNCHANGED budget
       \/ /\ Fault("redis")
          /\ CompGoes("consumer", "idle")
          /\ UNCHANGED retries
    /\ UNCHANGED <<phase, pgVars, redisVars, relayVars, topic, committed, fetched,
                   sagaDlq, dogVars, marked>>

writeDLQ(k) == sagaDlq' = sagaDlq \cup {k}

\* A failed copy leaves the message uncommitted.
DeadLetter ==
    /\ Doing("consumer", "exhausted")
    /\ \/ /\ writeDLQ(fetched)
          /\ CompGoes("consumer", "done")
          /\ UNCHANGED budget
       \/ /\ Fault("kafka")
          /\ CompGoes("consumer", "idle")
          /\ UNCHANGED sagaDlq
    /\ UNCHANGED <<phase, pgVars, redisVars, relayVars, topic, committed, fetched,
                   retries, dogVars, marked>>

\* Mutant of CommitFetched: the offset of the next message, counted twice.
CommitNext == committed' = fetched + 1

CommitFetched == committed' = fetched

\* clearRetry, then commitOrLog. The commit covers every earlier offset.
Commit ==
    /\ Doing("consumer", "done")
    /\ CompGoes("consumer", "idle")
    /\ \/ /\ retries' = [retries EXCEPT ![fetched] = 0]
          /\ CommitFetched
          /\ UNCHANGED budget
       \/ /\ Fault("redis")
          /\ CommitFetched
          /\ UNCHANGED retries
       \/ /\ Fault("kafka")
          /\ retries' = [retries EXCEPT ![fetched] = 0]
          /\ UNCHANGED committed
    /\ UNCHANGED <<phase, pgVars, redisVars, relayVars, topic, fetched, sagaDlq, dogVars, marked>>

\* The consumer restarts, or the group rebalances.
CrashConsumer ==
    /\ Fault("crash")
    /\ fetched' = committed
    /\ CompGoes("consumer", "idle")
    /\ UNCHANGED <<phase, pgVars, redisVars, relayVars, topic, committed, retries,
                   sagaDlq, dogVars, marked>>

-----------------------------------------------------------------------------
(* Watchdog.Sweep *)

\* Mutant of Failed: the query is not widened to expired orders.
FailedPayments == {o \in Orders : status[o] = "payment_failed"}

Failed == {o \in Orders : status[o] \in FailedStatuses}

\* FindStuckFailed: some of the failed orders, those past the threshold.
FindStuck ==
    /\ Doing("watchdog", "idle")
    /\ stuck = {}
    /\ \E S \in SUBSET Failed :
        /\ S # {}
        /\ Cardinality(S) <= StuckBatch
        /\ stuck' = S
    /\ UNCHANGED <<budget, phase, pgVars, redisVars, relayVars, kafkaVars, tooOld, compVars>>

\* resolve, up to the call of the compensator.
ResolveStuck(o) ==
    /\ Doing("watchdog", "idle")
    /\ o \in stuck
    /\ stuck' = stuck \ {o}
    /\ \/ /\ o \notin tooOld
          /\ status[o] # "compensated"
          /\ StartJob("watchdog", o)
          /\ UNCHANGED budget
       \/ /\ o \in tooOld \/ status[o] = "compensated"
          /\ UNCHANGED <<budget, compVars>>
       \/ Fault("db") /\ UNCHANGED compVars
    /\ UNCHANGED <<phase, pgVars, redisVars, relayVars, kafkaVars, tooOld>>

\* HandleOrderFailed has returned; an error waits for the next sweep.
Resolved ==
    /\ Doing("watchdog", "failed") \/ Doing("watchdog", "done")
    /\ CompGoes("watchdog", "idle")
    /\ UNCHANGED <<budget, phase, pgVars, redisVars, relayVars, kafkaVars, dogVars, marked>>

GrowTooOld(o) ==
    /\ status[o] \in FailedStatuses /\ o \notin tooOld
    /\ Fault("age")
    /\ tooOld' = tooOld \cup {o}
    /\ UNCHANGED <<phase, pgVars, redisVars, relayVars, kafkaVars, stuck, compVars>>

\* Its process dies, is told to stop, or its sweep panics.
CrashWatchdog ==
    /\ ~Doing("watchdog", "idle") \/ stuck # {}
    /\ Fault("crash")
    /\ stuck' = {}
    /\ CompGoes("watchdog", "idle")
    /\ UNCHANGED <<phase, pgVars, redisVars, relayVars, kafkaVars, tooOld, marked>>

-----------------------------------------------------------------------------
Relay(r) == TryLock(r) \/ ListPending(r) \/ Publish(r) \/ MarkProcessed(r)

HandleOrderFailed(c) ==
    ReadOrder(c) \/ Compensate(c) \/ CheckReverted(c) \/ RevertRedis(c) \/ MarkRedisReverted(c)

Consume == Fetch \/ CountFailure \/ DeadLetter \/ Commit \/ HandleOrderFailed("consumer")

Watch ==
    \/ FindStuck \/ Resolved \/ HandleOrderFailed("watchdog")
    \/ \E o \in Orders : ResolveStuck(o)

SagaFaults ==
    \/ \E r \in Relays : LoseSession(r) \/ CrashRelay(r)
    \/ CrashConsumer \/ CrashWatchdog
    \/ \E o \in Orders : GrowTooOld(o)

\* Nothing is half done.
AtRest ==
    /\ \A r \in Relays : listed[r] \cup sent[r] = {}
    /\ \A c \in Compensators : Doing(c, "idle")
    /\ stuck = {}

Rest == AtRest /\ UNCHANGED vars

Next ==
    \/ \E o \in Orders : Reserve(o) \/ FailPayment(o)
    \/ \E r \in Relays : Relay(r)
    \/ Consume \/ Watch \/ SagaFaults \/ Rest

Spec == Init /\ [][Next]_vars

\* A relay, the consumer and the watchdog run, and are restarted.
FairSpec ==
    /\ Spec
    /\ \A r \in Relays : WF_vars(Relay(r))
    /\ WF_vars(Consume)
    /\ WF_vars(Watch)

-----------------------------------------------------------------------------
(* What compensation promises *)

\* Redis never offers tickets that Postgres does not: a failed order's tickets
\* are back in event_ticket_types before they are back in Redis, however the
\* consumer and the watchdog interleave, and each order's come back once.
NoPhantomTickets == qty <= available

\* What is missing from Redis is what compensated orders are still owed: the
\* tickets of an order are deducted once and reverted at most once.
SagaLedger ==
    qty + Cardinality(Tickets({o \in Orders : status[o] # "absent"}))
        = TotalTickets + Cardinality(Tickets(revertedOrders))

\* The fence in Postgres is never ahead of Redis: where redis_reverted_at is
\* set, a redelivery may skip the revert.
MarkedIsReverted == \A o \in marked : o \in revertedOrders /\ status[o] = "compensated"

\* An order.failed row is only ever taken off the outbox once it is in Kafka,
\* whichever relay crashes or believes it still leads.
ProcessedIsPublished ==
    \A i \in processed : \E k \in DOMAIN topic : topic[k] = outbox[i].order

\* Every failed order is compensated in Postgres, if not by the consumer then
\* by the watchdog, unless it has grown too old for the watchdog.
FailedIsCompensated ==
    \A o \in Orders : status[o] \in FailedStatuses ~> status[o] = "compensated" \/ o \in tooOld

\* An event the consumer has committed is compensated in full, or on record in
\* order.failed.dlq: nothing is lost in silence.
CommittedIsHandled ==
    \A k \in 1..committed : topic[k] \in revertedOrders \/ k \in sagaDlq
=============================================================================
