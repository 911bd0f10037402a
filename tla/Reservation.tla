---------------------------- MODULE Reservation -----------------------------
(***************************************************************************)
(* The booking path: BookTicket deducts from Redis and queues a message in *)
(* the same script; workers of the consumer group turn each message into a *)
(* row of orders, or give its tickets back to Redis and move it to the     *)
(* dead-letter stream.                                                     *)
(*                                                                         *)
(* A message id is its index in the stream. A worker has a batch of        *)
(* message ids it has read and works on the lowest; what it has read and   *)
(* not acknowledged is its pending entries list, which only a restart of   *)
(* the worker reads again.                                                 *)
(***************************************************************************)
EXTENDS Postgres, RedisInventory

CONSTANTS Workers,      \* the consumer names of the group
          BatchSize,    \* StreamReadCount
          MaxRetries,   \* attempts per message
          Oversized     \* orders whose amount_cents does not fit an int64

ASSUME ReservationAssumption ==
    /\ BatchSize \in Nat \ {0}
    /\ MaxRetries \in Nat \ {0}
    /\ Oversized \subseteq Orders

VARIABLES api,      \* [Orders -> ApiStates]: how far BookTicket has come
          meta,     \* ticket_type_meta:<id> is cached
          stream,   \* orders:stream
          cursor,   \* the group's last delivered id
          pel,      \* [Workers -> SUBSET Nat]
          dlq,      \* orders:dlq
          mode,     \* [Workers -> Modes]
          batch,    \* [Workers -> SUBSET Nat]
          step,     \* [Workers -> Steps]: what is next for the current message
          tries,    \* [Workers -> Nat]: attempts made on it
          why,      \* [Workers -> Reasons]: why it is being compensated
          left      \* the messages logged as left pending and not read since

apiVars == <<api, meta>>
queueVars == <<stream, cursor, pel, dlq>>
workerVars == <<mode, batch, step, tries, why, left>>
resVars == <<apiVars, queueVars, workerVars>>
vars == <<budget, phase, pgVars, redisVars, resVars>>

ApiStates == {"new", "repairing", "retrying", "accepted", "sold_out", "failed"}
Modes == {"down", "recovering", "subscribed"}
Steps == {"process", "revert", "dlq", "ack"}
Reasons == {"exhausted_retries", "malformed_classified", "malformed_reverted_legacy"}

Ids == 1..Len(stream)

TypeOK ==
    /\ EnvTypeOK
    /\ PgTypeOK
    /\ RedisTypeOK
    /\ api \in [Orders -> ApiStates]
    /\ meta \in BOOLEAN
    /\ stream \in Seq(Orders)
    /\ cursor \in 0..Len(stream)
    /\ pel \in [Workers -> SUBSET Ids]
    /\ dlq \subseteq [msg : Ids, reason : Reasons]
    /\ mode \in [Workers -> Modes]
    /\ batch \in [Workers -> SUBSET Ids]
    /\ step \in [Workers -> Steps]
    /\ tries \in [Workers -> 0..(MaxRetries - 1)]
    /\ why \in [Workers -> Reasons]
    /\ left \subseteq Ids

ResInit ==
    /\ qty = TotalTickets
    /\ revertedMsgs = {}
    /\ revertedOrders = {}
    /\ api = [o \in Orders |-> "new"]
    /\ meta = TRUE
    /\ stream = <<>>
    /\ cursor = 0
    /\ pel = [w \in Workers |-> {}]
    /\ dlq = {}
    /\ mode = [w \in Workers |-> "down"]
    /\ batch = [w \in Workers |-> {}]
    /\ step = [w \in Workers |-> "process"]
    /\ tries = [w \in Workers |-> 0]
    /\ why = [w \in Workers |-> "exhausted_retries"]
    /\ left = {}

Init == EnvInit /\ PgInit /\ ResInit

-----------------------------------------------------------------------------
(* BookTicket *)

\* Mutant of DeductSoldOut: the script tests the quantity before it subtracts.
DeductSoldOutAtZero(o) == qty = 0

\* deduct.lua refuses: the quantity is put back before it returns.
DeductSoldOut(o) == qty < QuantityOf[o]

\* deduct.lua accepts: DECRBY and XADD in one script.
DeductAndQueue(o) ==
    /\ ~DeductSoldOut(o)
    /\ meta
    /\ qty' = qty - QuantityOf[o]
    /\ stream' = Append(stream, o)
    /\ OpenWindow(o)

Answer(o, a) == api' = [api EXCEPT ![o] = a]

\* DeductInventory: the first call, or the second after the repair. The reply
\* may be lost; then the call fails, or the Redis client sends the script again
\* although it has run. An amount that is no int64 fails after the script ran.
Deduct(o) ==
    /\ api[o] \in {"new", "retrying"}
    /\ \/ /\ DeductAndQueue(o)
          /\ \/ /\ Answer(o, IF o \in Oversized THEN "failed" ELSE "accepted")
                /\ UNCHANGED budget
             \/ /\ Fault("redis")
                /\ Answer(o, "failed")
             \/ /\ Fault("resend")
                /\ UNCHANGED api
       \/ /\ DeductSoldOut(o)
          /\ Answer(o, "sold_out")
          /\ UNCHANGED <<budget, phase, qty, stream>>
       \/ /\ ~DeductSoldOut(o)
          /\ ~meta
          /\ Answer(o, IF api[o] = "new" THEN "repairing" ELSE "failed")
          /\ OpenWindow(o)
          /\ UNCHANGED <<budget, qty, stream>>
       \/ /\ Fault("redis")
          /\ Answer(o, "failed")
          /\ UNCHANGED <<phase, qty, stream>>
    /\ UNCHANGED <<pgVars, revertedMsgs, revertedOrders, meta, cursor, pel, dlq, workerVars>>

\* repairRuntimeMetadata: read the ticket type from Postgres, cache it again.
RepairMetadata(o) ==
    /\ api[o] = "repairing"
    /\ \/ /\ meta' = TRUE
          /\ Answer(o, "retrying")
          /\ UNCHANGED budget
       \/ /\ Fault("db") \/ Fault("redis")
          /\ Answer(o, "failed")
          /\ UNCHANGED meta
    /\ UNCHANGED <<phase, pgVars, redisVars, queueVars, workerVars>>

\* The metadata key reaches its time to live.
EvictMetadata ==
    /\ meta
    /\ Fault("metadata")
    /\ meta' = FALSE
    /\ UNCHANGED <<phase, pgVars, redisVars, api, queueVars, workerVars>>

-----------------------------------------------------------------------------
(* The workers *)

Current(w) == CHOOSE m \in batch[w] : \A k \in batch[w] : m <= k

\* The first BatchSize ids of a set.
Lowest(S) == {m \in S : Cardinality({k \in S : k < m}) < BatchSize}

\* Take up the messages of S: the current one starts from its first attempt.
TakeUp(w, S) ==
    /\ batch' = [batch EXCEPT ![w] = S]
    /\ step' = [step EXCEPT ![w] = "process"]
    /\ tries' = [tries EXCEPT ![w] = 0]
    /\ UNCHANGED why

\* What is read is left no longer.
Read(w, S) == TakeUp(w, S) /\ left' = left \ S

\* Go on to the next message of the batch.
NextMessage(w) == TakeUp(w, batch[w] \ {Current(w)}) /\ UNCHANGED left

\* "leaving message in PEL for retry": go on without an acknowledgement.
LeavePending(w) ==
    /\ TakeUp(w, batch[w] \ {Current(w)})
    /\ left' = left \cup {Current(w)}

GoTo(w, s) ==
    /\ step' = [step EXCEPT ![w] = s]
    /\ UNCHANGED <<batch, tries, why, left>>

\* Mutant of GiveUp: the message is dead-lettered without the revert.
GiveUpWithoutRevert(w, r) ==
    /\ step' = [step EXCEPT ![w] = "dlq"]
    /\ why' = [why EXCEPT ![w] = r]
    /\ UNCHANGED <<batch, tries, left>>

\* Compensate the current message for the reason r.
GiveUp(w, r) ==
    /\ step' = [step EXCEPT ![w] = "revert"]
    /\ why' = [why EXCEPT ![w] = r]
    /\ UNCHANGED <<batch, tries, left>>

Busy(w, s) == batch[w] # {} /\ step[w] = s

Start(w) ==
    /\ mode[w] = "down"
    /\ mode' = [mode EXCEPT ![w] = "recovering"]
    /\ Read(w, {})
    /\ UNCHANGED <<budget, phase, pgVars, redisVars, apiVars, queueVars>>

\* Mutant of ReadPending: a restarted worker goes straight to new messages.
SkipPending(w) ==
    /\ mode[w] = "recovering"
    /\ mode' = [mode EXCEPT ![w] = "subscribed"]
    /\ UNCHANGED <<budget, phase, pgVars, redisVars, apiVars, queueVars,
                   batch, step, tries, why, left>>

\* processPending reads the worker's own pending entries until there are none;
\* a failed read leaves them where they are.
ReadPending(w) ==
    /\ mode[w] = "recovering"
    /\ batch[w] = {}
    /\ \/ /\ pel[w] # {}
          /\ Read(w, Lowest(pel[w]))
          /\ UNCHANGED <<budget, mode>>
       \/ /\ \/ pel[w] = {} /\ UNCHANGED <<budget, left>>
             \/ Fault("redis") /\ left' = left \cup pel[w]
          /\ mode' = [mode EXCEPT ![w] = "subscribed"]
          /\ UNCHANGED <<batch, step, tries, why>>
    /\ UNCHANGED <<phase, pgVars, redisVars, apiVars, queueVars>>

\* XREADGROUP with ">" delivers the next messages of the stream to the worker.
ReadNew(w) ==
    /\ mode[w] = "subscribed"
    /\ batch[w] = {}
    /\ cursor < Len(stream)
    /\ LET new == Lowest((cursor + 1)..Len(stream)) IN
        /\ Read(w, new)
        /\ pel' = [pel EXCEPT ![w] = @ \cup new]
        /\ cursor' = cursor + Cardinality(new)
    /\ UNCHANGED <<budget, phase, pgVars, redisVars, apiVars, stream, dlq, mode>>

\* Mutant of RetryOrGiveUp: the last failure is acknowledged, not compensated.
RetryOrAck(w) ==
    IF tries[w] + 1 < MaxRetries
    THEN tries' = [tries EXCEPT ![w] = @ + 1] /\ UNCHANGED <<batch, step, why, left>>
    ELSE GoTo(w, "ack")

\* processWithRetry after a failed attempt that may be repeated.
RetryOrGiveUp(w) ==
    IF tries[w] + 1 < MaxRetries
    THEN tries' = [tries EXCEPT ![w] = @ + 1] /\ UNCHANGED <<batch, step, why, left>>
    ELSE GiveUp(w, "exhausted_retries")

\* parseMessage takes every message deduct.lua writes, but for an amount_cents
\* that is no int64.
Parses(o) == o \notin Oversized

\* parseMessage, then NewReservation, then the unit of work.
Process(w) ==
    /\ Busy(w, "process")
    /\ LET o == stream[Current(w)] IN
        \/ /\ ~Parses(o)
           /\ GiveUp(w, "malformed_reverted_legacy")
           /\ UNCHANGED <<budget, pgVars>>
        \/ /\ Parses(o)
           /\ phase[o] # "open"
           /\ GiveUp(w, "malformed_classified")
           /\ UNCHANGED <<budget, pgVars>>
        \/ /\ Parses(o)
           /\ phase[o] = "open"
           /\ \/ /\ InsertReservation(o)
                 /\ GoTo(w, "ack")
                 /\ UNCHANGED budget
              \/ /\ InsertReservation(o)
                 /\ Fault("commit")
                 /\ RetryOrGiveUp(w)
              \/ /\ SoldOut(o) \/ AlreadyBought(o)
                 /\ RetryOrGiveUp(w)
                 /\ UNCHANGED <<budget, pgVars>>
              \/ /\ Fault("db")
                 /\ RetryOrGiveUp(w)
                 /\ UNCHANGED pgVars
    /\ UNCHANGED <<phase, redisVars, apiVars, queueVars, mode>>

\* handleFailure and handleParseFailure, first half: RevertInventory. When it
\* fails the message stays pending and the worker goes on.
Revert(w) ==
    /\ Busy(w, "revert")
    /\ LET m == Current(w) IN
        \/ /\ RevertMsg(m, QuantityOf[stream[m]])
           /\ \/ GoTo(w, "dlq") /\ UNCHANGED budget
              \/ Fault("redis") /\ LeavePending(w)
        \/ /\ Fault("redis")
           /\ LeavePending(w)
           /\ UNCHANGED redisVars
    /\ UNCHANGED <<phase, pgVars, apiVars, queueVars, mode>>

\* Mutant of DeadLetter: the message is acknowledged even if moveToDLQ failed.
DeadLetterOrNot(w) ==
    /\ Busy(w, "dlq")
    /\ \/ dlq' = dlq \cup {[msg |-> Current(w), reason |-> why[w]]} /\ UNCHANGED budget
       \/ Fault("redis") /\ UNCHANGED dlq
    /\ GoTo(w, "ack")
    /\ UNCHANGED <<phase, pgVars, redisVars, apiVars, stream, cursor, pel, mode>>

\* Second half: moveToDLQ. When it fails the message stays pending.
DeadLetter(w) ==
    /\ Busy(w, "dlq")
    /\ \/ /\ dlq' = dlq \cup {[msg |-> Current(w), reason |-> why[w]]}
          /\ \/ GoTo(w, "ack") /\ UNCHANGED budget
             \/ Fault("redis") /\ LeavePending(w)
       \/ /\ Fault("redis")
          /\ LeavePending(w)
          /\ UNCHANGED dlq
    /\ UNCHANGED <<phase, pgVars, redisVars, apiVars, stream, cursor, pel, mode>>

\* ackOrLog: a failed XACK is logged and the message stays pending.
Ack(w) ==
    /\ Busy(w, "ack")
    /\ \/ /\ pel' = [pel EXCEPT ![w] = @ \ {Current(w)}]
          /\ UNCHANGED budget
       \/ /\ Fault("ack")
          /\ UNCHANGED pel
    /\ NextMessage(w)
    /\ UNCHANGED <<phase, pgVars, redisVars, apiVars, stream, cursor, dlq, mode>>

\* The worker dies, is shut down during a backoff, or leaves its loop after too
\* many read errors: the batch is forgotten, the pending entries are not.
Crash(w) ==
    /\ mode[w] # "down"
    /\ Fault("crash")
    /\ mode' = [mode EXCEPT ![w] = "down"]
    /\ batch' = [batch EXCEPT ![w] = {}]
    /\ UNCHANGED <<phase, pgVars, redisVars, apiVars, queueVars, step, tries, why, left>>

-----------------------------------------------------------------------------
Api(o) == Deduct(o) \/ RepairMetadata(o)

Work(w) ==
    \/ Start(w) \/ ReadPending(w) \/ ReadNew(w)
    \/ Process(w) \/ Revert(w) \/ DeadLetter(w) \/ Ack(w)

Lapse(o) == PassDeadline(o) /\ UNCHANGED <<pgVars, redisVars, resVars>>

\* Every request is answered and every delivered message acted upon.
AtRest ==
    /\ \A o \in Orders : api[o] \in {"accepted", "sold_out", "failed"}
    /\ cursor = Len(stream)
    /\ \A w \in Workers : batch[w] = {}

Drained == AtRest /\ \A w \in Workers : pel[w] = {}

Rest ==
    /\ AtRest
    /\ \A w \in Workers : mode[w] = "subscribed"
    /\ UNCHANGED vars

Next ==
    \/ \E o \in Orders : Api(o) \/ Lapse(o)
    \/ \E w \in Workers : Work(w) \/ Crash(w)
    \/ EvictMetadata
    \/ Rest

Spec == Init /\ [][Next]_vars

\* The server answers its requests and every worker runs and is restarted.
FairSpec ==
    /\ Spec
    /\ \A o \in Orders : WF_vars(Api(o))
    /\ \A w \in Workers : WF_vars(Work(w))

-----------------------------------------------------------------------------
(* What the booking path promises *)

\* The tickets of a set of stream messages.
MsgTickets(S) == {t \in S \X (1..MaxQuantity) : t[2] <= QuantityOf[stream[t[1]]]}

\* deduct.lua takes a message's tickets from Redis exactly when it queues the
\* message, and revert.lua gives them back at most once for each compensation
\* id, however often a worker repeats a compensation it could not finish.
RedisLedger ==
    qty + Cardinality(MsgTickets(Ids)) =
        TotalTickets + Cardinality(MsgTickets(revertedMsgs))
                     + Cardinality(Tickets(revertedOrders))

Resolved(m) ==
    \/ status[stream[m]] # "absent"
    \/ m \in revertedMsgs /\ \E d \in dlq : d.msg = m

\* No delivered booking disappears: it is pending at a worker, it is an order,
\* or its tickets are back in Redis and it is on record in the dead-letter
\* stream. This is what acknowledging last, and only after both compensation
\* steps, is for.
NoBookingLost ==
    \A m \in 1..cursor : Resolved(m) \/ \E w \in Workers : m \in pel[w]

\* Nothing is dead-lettered before its tickets are back in Redis: an operator
\* who finds a message in orders:dlq need not give anything back.
DeadLetteredIsReverted == \A d \in dlq : d.msg \in revertedMsgs

\* Once the queue is drained Redis offers what Postgres offers: the worker has
\* compensated for each message that became no order, and for no other.
RedisAgreesWhenDrained == Drained => qty = available

\* Every accepted booking becomes an order or is compensated in full, through
\* crashes, failed statements and lost acknowledgements, or is logged as left
\* pending. What is left the worker reads again only when it restarts.
AcceptedIsResolved ==
    \A o \in Orders :
        api[o] = "accepted" ~> \A m \in Ids : stream[m] = o => Resolved(m) \/ m \in left
=============================================================================
