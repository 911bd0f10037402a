---------------------------- MODULE StageProofs -----------------------------
(***************************************************************************)
(* The servers of the stages, for any orders, requests, workers and        *)
(* failures: an order takes tickets that are there and gives them back     *)
(* once, compensated means given back, no published message is forgotten,  *)
(* and a stop in order loses no ticket.                                    *)
(***************************************************************************)
EXTENDS StageServer, CatalogProofs

-----------------------------------------------------------------------------
(* The inductive invariant *)

\* The stages never write 'expired' or 'payment_failed': they compensate at once.
StageStatuses == {"absent", "awaiting_payment", "paid", "compensated"}

StageTypeInv ==
    /\ stage \in Stages
    /\ status \in [Orders -> StageStatuses]
    /\ available \in Nat
    /\ qty \in Nat
    /\ revertedOrders \in SUBSET Orders
    /\ api \in [Orders -> ApiStates]
    /\ topic \in Seq(Orders)
    /\ fetched \in 0..Len(topic)
    /\ committed \in 0..fetched
    /\ at \in ConsumerSteps
    /\ at # "fetch" => committed < fetched
    /\ intent \in SUBSET Orders
    /\ confirming \in SUBSET Orders
    /\ swept \in SUBSET Orders
    /\ comp \in [Compensators -> CompSteps]
    /\ job \in [Compensators -> Orders \cup {NoOrder}]
    /\ \A a \in Compensators : comp[a] = "idle" <=> job[a] = NoOrder
    /\ stream \in Seq(Orders)
    /\ batch \in [Workers -> SUBSET (1..Len(stream))]
    /\ pel \in [Workers -> SUBSET (1..Len(stream))]
    /\ cursor \in 0..Len(stream)

\* A compensation owns the row it has locked, and the row waits for it.
LocksInv ==
    /\ \A a, b \in Compensators : job[a] = job[b] /\ job[a] # NoOrder => a = b
    /\ \A a \in Compensators : job[a] # NoOrder => status[job[a]] = "awaiting_payment"

\* Stage 1: the booking that holds the lock finds the tickets it has seen.
TicketLockInv ==
    stage = 1 =>
        /\ qty = TotalTickets
        /\ \A o, p \in Orders : api[o] = "writing" /\ api[p] = "writing" => o = p
        /\ \A o \in Orders : api[o] = "writing" => QuantityOf[o] <= available

\* What is about to be compensated is given back already.
BackInv ==
    stage # 1 =>
        /\ CompensatedIsReverted
        /\ \A a \in Compensators : comp[a] = "commit" => job[a] \in revertedOrders

\* Stage 2: before its row is inserted an order has none, and nothing is given
\* back for it.
InsertInv ==
    stage = 2 =>
        \A o \in Orders :
            /\ api[o] \in {"new", "repairing", "retrying", "writing"}
                 => status[o] = "absent" /\ o \notin revertedOrders
            /\ api[o] = "accepted" => status[o] # "absent"

\* What was fetched is accounted for, left, or the consumer is at it.
FetchedInv ==
    \A m \in 1..fetched :
        Accounted(topic[m]) \/ m \in left \/ (m = fetched /\ at \in {"process", "revert"})

\* The keys are there when the answer is, and the rows before.
EventInv ==
    /\ event \in {"hydrating", "created"} => rows
    /\ event = "created" => (stage # 1 => keys)
    /\ event = "rolled_back" => ~rows

BaseInv ==
    /\ StageTypeInv /\ LocksInv /\ TicketLockInv /\ BackInv /\ InsertInv
    /\ FetchedInv /\ EventInv

\* The orders that have tickets of Redis: those with a row, and those on the way
\* to one.
OnTheWay(o) ==
    IF stage = 3 THEN \E m \in R!Ids \ revertedMsgs : stream[m] = o
    ELSE api[o] \in {"writing", "reverting", "publishing", "accepted"}

Underway == {o \in Orders \ revertedOrders : status[o] # "absent" \/ OnTheWay(o)}

\* Stage 2: whatever is lost on the way is lost to nobody else.
RedisInv == stage = 2 => qty + Cardinality(Tickets(Underway)) <= TotalTickets

-----------------------------------------------------------------------------
(* A behaviour in which nothing fails but that the process is asked to stop *)

Undisturbed ==
    \/ life = "up" /\ budget = MaxFaults
    \/ life \in {"stopping", "again"} /\ budget = MaxFaults - 1 /\ stage # 3

LifeInv ==
    /\ budget \in 0..MaxFaults
    /\ life \in {"up", "stopping", "again", "cut"}
    /\ life # "up" => budget < MaxFaults
    /\ life \in {"up", "again"} => running

\* Redis offers exactly what is not underway.
ExactInv ==
    Undisturbed /\ stage # 1 => qty + Cardinality(Tickets(Underway)) = TotalTickets

\* Stage 5: no message is left but by a process that stops, which then takes up
\* no other.
LeftInv ==
    /\ counted = {}
    /\ \A m \in left : m \in Nat /\ committed < m /\ ~running /\ at = "fetch"

\* A booking is accepted when its message is in the topic, and before that
\* nothing is known of it.
TopicInv ==
    \A o \in Orders :
        /\ api[o] \in {"new", "repairing", "retrying", "publishing"}
             => status[o] = "absent" /\ o \notin revertedOrders
        /\ api[o] # "reverting"
        /\ api[o] = "accepted" <=> \E m \in 1..Len(topic) : topic[m] = o

\* Stage 5: a message is published once, and left to the next process at most.
PublishInv == Undisturbed /\ stage = 5 => LeftInv /\ TopicInv

\* Stage 3: the message has become an order, or was given back.
Done(m) == status[stream[m]] # "absent" \/ m \in revertedMsgs

\* Each order has one message at most, and no row and no revert without it.
OneMessage ==
    /\ \A o \in Orders :
        /\ api[o] \in {"new", "repairing", "retrying"}
             => \A m \in R!Ids : stream[m] # o
        /\ status[o] # "absent" => \E m \in R!Ids : stream[m] = o
        /\ o \in revertedOrders => status[o] # "absent"
    /\ \A m, n \in R!Ids : stream[m] = stream[n] => m = n

\* A worker's messages are its own, and only the one it works on can be done.
Batches ==
    /\ mode \in [Workers -> R!Modes] /\ step \in [Workers -> R!Steps]
    /\ \A w \in Workers :
        /\ mode[w] # "subscribed" => batch[w] = {} /\ pel[w] = {}
        /\ \A v \in Workers : v # w => batch[w] \cap batch[v] = {}
        /\ \A m \in batch[w] :
            /\ m <= cursor
            /\ Done(m) <=> m = R!Current(w) /\ step[w] \in {"dlq", "ack"}

\* What was delivered is done or at a worker, what was not is not done.
Delivered ==
    /\ revertedMsgs \subseteq R!Ids
    /\ \A m \in R!Ids :
        /\ m <= cursor => Done(m) \/ \E w \in Workers : m \in batch[w]
        /\ cursor < m => ~Done(m)
        /\ m \in revertedMsgs => status[stream[m]] = "absent"

\* Stage 3: each message is worked on once, by one worker.
WorkInv == Undisturbed /\ stage = 3 => OneMessage /\ Batches /\ Delivered

-----------------------------------------------------------------------------
(* Typing, locks and what was given back *)

\* Quantities are numbers.
LEMMA QuantityIsNat == \A o \in Orders : QuantityOf[o] \in Nat
BY CatalogAssumption

\* Stage 1 books in one transaction.
LEMMA Stage1BookStep ==
    ASSUME BaseInv, NEW o \in Orders, stage = 1, Stage1Book(o), UNCHANGED <<stage, workVars, eventVars>>
    PROVE  BaseInv'
<1>. USE DEF BaseInv
<1>1. CASE LockTicketType(o)
  <2>0. UNCHANGED <<status, available, qty, revertedOrders, topic, fetched, committed, at, intent,
                    confirming, swept, comp, job, stream, batch, pel, cursor, counted, left,
                    event, rows, keys, stage>>
    BY <1>1 DEF LockTicketType, elsewhere, queueVars, payVars, compVars, pgVars, redisVars,
       workVars, eventVars
  <2>1. StageTypeInv'
    BY <1>1, <2>0 DEF LockTicketType, Answer, StageTypeInv, ApiStates
  <2>2. TicketLockInv'
    BY <1>1, <2>0, QuantityIsNat
       DEF LockTicketType, Answer, StageTypeInv, TicketLockInv, TicketTypeLocked, SoldOut
  <2>. QED
    BY <2>0, <2>1, <2>2 DEF LocksInv, BackInv, InsertInv, FetchedInv, EventInv, Accounted,
       CompensatedIsReverted
<1>2. CASE CommitBooking(o)
  <2>0. UNCHANGED <<qty, revertedOrders, topic, fetched, committed, at, intent,
                    confirming, swept, comp, job, stream, batch, pel, cursor, counted, left,
                    event, rows, keys, stage>>
    BY <1>2 DEF CommitBooking, elsewhere, queueVars, payVars, compVars, pgVars, redisVars,
       workVars, eventVars
  <2>a. available' \in Nat
    BY <1>2, QuantityIsNat DEF CommitBooking, TakeAndInsert, pgVars, StageTypeInv, TicketLockInv
  <2>b. status' \in [Orders -> StageStatuses] /\ api' \in [Orders -> ApiStates]
    BY <1>2 DEF CommitBooking, TakeAndInsert, pgVars, Answer, StageTypeInv, ApiStates, StageStatuses
  <2>1. StageTypeInv'
    BY <2>0, <2>a, <2>b DEF StageTypeInv
  <2>2. TicketLockInv'
    BY <1>2, <2>0, QuantityIsNat
       DEF CommitBooking, TakeAndInsert, pgVars, Answer, StageTypeInv, TicketLockInv
  <2>3. LocksInv'
    BY <1>2, <2>0 DEF CommitBooking, TakeAndInsert, pgVars, AlreadyBought, StageTypeInv, LocksInv
  <2>4. FetchedInv'
    BY <1>2, <2>0 DEF CommitBooking, TakeAndInsert, pgVars, StageTypeInv, FetchedInv, Accounted
  <2>. QED
    BY <2>0, <2>1, <2>2, <2>3, <2>4 DEF BackInv, InsertInv, EventInv
<1>. QED
  BY <1>1, <1>2 DEF Stage1Book


\* The script of Stages 2 and 5, and the repair of the metadata.
LEMMA DeductStep ==
    ASSUME BaseInv, NEW o \in Orders, NEW next \in {"writing", "publishing"}, stage # 1,
           DeductThen(o, next) \/ RepairMetadata(o), UNCHANGED <<stage, workVars, eventVars>>
    PROVE  BaseInv'
<1>. USE DEF BaseInv
<1>0. UNCHANGED <<status, available, revertedOrders, topic, fetched, committed, at, intent,
                  confirming, swept, comp, job, stream, batch, pel, cursor, counted, left,
                  event, rows, keys, stage>>
  BY DEF DeductThen, RepairMetadata, queueVars, payVars, compVars, pgVars, redisVars, workVars,
     eventVars
<1>1. qty' \in Nat
  BY QuantityIsNat DEF DeductThen, DeductOnly, DeductSoldOut, RepairMetadata, redisVars,
     StageTypeInv
<1>2. /\ api[o] \in {"new", "repairing", "retrying"}
      /\ \E a \in {api[o], "repairing", "retrying", "writing", "publishing", "sold_out", "failed"} :
             api' = [api EXCEPT ![o] = a]
  <2>1. CASE DeductThen(o, next)
    <3>1. api' = api => api' = [api EXCEPT ![o] = api[o]]
      BY DEF StageTypeInv
    <3>2. api[o] \in {"new", "retrying"}
      BY <2>1 DEF DeductThen
    <3>3. \/ api' = api
          \/ \E a \in {"repairing", "writing", "publishing", "sold_out", "failed"} : Answer(o, a)
      BY <2>1 DEF DeductThen
    <3>. QED
      BY <3>1, <3>2, <3>3 DEF Answer
  <2>2. CASE RepairMetadata(o)
    BY <2>2 DEF RepairMetadata, Answer
  <2>. QED
    BY <2>1, <2>2
<1>3. StageTypeInv'
  BY <1>0, <1>1, <1>2 DEF StageTypeInv, ApiStates
<1>4. InsertInv'
  BY <1>0, <1>2 DEF InsertInv, StageTypeInv
<1>. QED
  BY <1>0, <1>3, <1>4 DEF LocksInv, TicketLockInv, BackInv, FetchedInv, EventInv, Accounted,
                          CompensatedIsReverted

\* Stage 2 inserts the row, or gives the tickets back.
LEMMA Stage2BookStep ==
    ASSUME BaseInv, NEW o \in Orders, stage = 2, Stage2Book(o), UNCHANGED <<stage, workVars, eventVars>>
    PROVE  BaseInv'
<1>. USE DEF BaseInv
<1>1. CASE InsertOrder(o)
  <2>0. UNCHANGED <<available, qty, revertedOrders, topic, fetched, committed, at, intent,
                    confirming, swept, comp, job, stream, batch, pel, cursor, counted, left,
                    event, rows, keys, stage>>
    BY <1>1 DEF InsertOrder, elsewhere, queueVars, payVars, compVars, pgVars, redisVars,
       workVars, eventVars
  <2>1. status[o] = "absent" /\ o \notin revertedOrders /\ api[o] = "writing"
    BY <1>1 DEF InsertOrder, InsertInv
  <2>2. /\ \/ status' = [status EXCEPT ![o] = "awaiting_payment"]
           \/ status' = status
        /\ \E a \in {"accepted", "reverting"} :
               api' = [api EXCEPT ![o] = a] /\ (a = "accepted" => status' # status)
    BY <1>1, <2>1 DEF InsertOrder, Answer, pgVars, StageTypeInv
  <2>3. StageTypeInv'
    BY <2>0, <2>2 DEF StageTypeInv, ApiStates, StageStatuses
  <2>4. LocksInv' /\ BackInv'
    BY <2>0, <2>1, <2>2 DEF StageTypeInv, LocksInv, BackInv, CompensatedIsReverted
  <2>5. InsertInv'
    BY <2>0, <2>1, <2>2 DEF StageTypeInv, InsertInv
  <2>6. FetchedInv'
    BY <2>0, <2>2 DEF StageTypeInv, FetchedInv, Accounted
  <2>. QED
    BY <2>0, <2>3, <2>4, <2>5, <2>6 DEF TicketLockInv, EventInv
<1>2. CASE RevertAfterFailure(o)
  <2>0. UNCHANGED <<status, available, topic, fetched, committed, at, intent,
                    confirming, swept, comp, job, stream, batch, pel, cursor, counted, left,
                    event, rows, keys, stage>>
    BY <1>2 DEF RevertAfterFailure, elsewhere, queueVars, payVars, compVars, pgVars, workVars,
       eventVars
  <2>1. /\ qty' \in Nat
        /\ revertedOrders' \in {revertedOrders, revertedOrders \cup {o}}
        /\ api[o] = "reverting" /\ api' = [api EXCEPT ![o] = "failed"]
    BY <1>2, QuantityIsNat DEF RevertAfterFailure, Answer, RevertOrder, redisVars, StageTypeInv
  <2>2. StageTypeInv'
    BY <2>0, <2>1 DEF StageTypeInv, ApiStates
  <2>3. InsertInv'
    BY <2>0, <2>1 DEF StageTypeInv, InsertInv
  <2>. QED
    BY <2>0, <2>1, <2>2, <2>3
    DEF LocksInv, TicketLockInv, BackInv, FetchedInv, EventInv, Accounted, CompensatedIsReverted
<1>. QED
  BY <1>1, <1>2, DeductStep DEF Stage2Book, DeductSync

\* Stage 5 publishes, or gives the tickets back under the key of the request.
LEMMA Stage5BookStep ==
    ASSUME BaseInv, NEW o \in Orders, stage = 5, Api(o), UNCHANGED <<stage, workVars, eventVars>>
    PROVE  BaseInv'
<1>. USE DEF BaseInv
<1>1. CASE Publish(o)
  <2>0. UNCHANGED <<status, available, qty, revertedOrders, fetched, committed, at, intent,
                    confirming, swept, comp, job, stream, batch, pel, cursor, counted, left,
                    event, rows, keys, stage>>
    BY <1>1 DEF Publish, payVars, compVars, pgVars, redisVars, workVars, eventVars
  <2>1. topic' \in {topic, Append(topic, o)}
    BY <1>1 DEF Publish
  <2>2. /\ topic' \in Seq(Orders) /\ Len(topic) <= Len(topic')
        /\ \A m \in 1..Len(topic) : topic'[m] = topic[m]
    <3>1. topic \in Seq(Orders)
      BY DEF StageTypeInv
    <3>2. CASE topic' = topic
      BY <3>1, <3>2
    <3>3. CASE topic' = Append(topic, o)
      BY <3>1, <3>3
    <3>. QED
      BY <2>1, <3>2, <3>3
  <2>3. api' \in [Orders -> ApiStates]
    BY <1>1 DEF Publish, Answer, StageTypeInv, ApiStates
  <2>4. fetched' \in 0..Len(topic')
    BY <2>0, <2>2 DEF StageTypeInv
  <2>5. StageTypeInv'
    BY <2>0, <2>2, <2>3, <2>4 DEF StageTypeInv
  <2>6. FetchedInv'
    <3>1. \A m \in 1..fetched : topic'[m] = topic[m]
      BY <2>2 DEF StageTypeInv
    <3>. QED
      BY <2>0, <3>1 DEF FetchedInv, Accounted
  <2>7. InsertInv'
    BY DEF InsertInv
  <2>. QED
    BY <2>0, <2>5, <2>6, <2>7 DEF LocksInv, TicketLockInv, BackInv, EventInv, CompensatedIsReverted
<1>2. CASE RevertPublish(o)
  <2>0. UNCHANGED <<status, available, revertedOrders, topic, fetched, committed, at, intent,
                    confirming, swept, comp, job, stream, batch, pel, cursor, left,
                    event, rows, keys, stage>>
    BY <1>2 DEF RevertPublish, Refund, redisVars, queueVars, payVars, compVars, pgVars,
       workVars, eventVars
  <2>1. qty' \in Nat /\ counted \subseteq counted' /\ api' \in [Orders -> ApiStates]
    BY <1>2, QuantityIsNat DEF RevertPublish, Answer, Refund, redisVars, StageTypeInv, ApiStates
  <2>2. StageTypeInv'
    BY <2>0, <2>1 DEF StageTypeInv
  <2>3. FetchedInv'
    BY <2>0, <2>1 DEF StageTypeInv, FetchedInv, Accounted
  <2>. QED
    BY <2>0, <2>2, <2>3 DEF LocksInv, TicketLockInv, BackInv, InsertInv, EventInv,
       CompensatedIsReverted
<1>. QED
  BY <1>1, <1>2, DeductStep DEF Api, Deduct


\* Stage 3: the request queues its message in the script that deducts.
LEMMA Stage3BookStep ==
    ASSUME BaseInv, NEW o \in Orders, stage = 3, Stage3Book(o), UNCHANGED <<stage, eventVars>>
    PROVE  BaseInv'
<1>. USE DEF BaseInv
<1>0. UNCHANGED <<status, available, revertedOrders, topic, fetched, committed, at, intent,
                  confirming, swept, comp, job, batch, pel, cursor, counted, left,
                  event, rows, keys, stage>>
  BY DEF Stage3Book, R!Api, R!Deduct, R!RepairMetadata, notReserving, queueVars, payVars, compVars,
         R!queueVars, R!workerVars, R!pgVars, R!redisVars, eventVars
<1>1. qty' \in Nat
  BY QuantityIsNat DEF Stage3Book, R!Api, R!Deduct, R!DeductAndQueue, R!DeductSoldOut,
                       R!RepairMetadata, R!redisVars, StageTypeInv
<1>2. api' \in [Orders -> ApiStates]
  BY DEF Stage3Book, R!Api, R!Deduct, R!RepairMetadata, R!Answer, StageTypeInv, ApiStates
<1>3. stream' \in {stream, Append(stream, o)}
  BY DEF Stage3Book, R!Api, R!Deduct, R!DeductAndQueue, R!RepairMetadata, R!queueVars
<1>4. stream' \in Seq(Orders) /\ Len(stream) <= Len(stream')
  <2>1. stream \in Seq(Orders)
    BY DEF StageTypeInv
  <2>. QED
    BY <1>3, <2>1
<1>5. SUBSET (1..Len(stream)) \subseteq SUBSET (1..Len(stream')) /\ cursor' \in 0..Len(stream')
  BY <1>0, <1>4 DEF StageTypeInv
<1>6. batch' \in [Workers -> SUBSET (1..Len(stream'))] /\ pel' \in [Workers -> SUBSET (1..Len(stream'))]
  BY <1>0, <1>5 DEF StageTypeInv
<1>7. StageTypeInv'
  BY <1>0, <1>1, <1>2, <1>4, <1>5, <1>6 DEF StageTypeInv
<1>8. InsertInv' /\ TicketLockInv'
  BY <1>0 DEF InsertInv, TicketLockInv
<1>. QED
  BY <1>0, <1>7, <1>8 DEF LocksInv, BackInv, FetchedInv, EventInv, Accounted, CompensatedIsReverted

\* The current message of a worker is one of its batch, and asks for an order.
LEMMA CurrentIsRead ==
    ASSUME StageTypeInv, NEW w \in Workers, batch[w] # {}
    PROVE  /\ R!Current(w) \in batch[w]
           /\ R!Current(w) \in DOMAIN stream
           /\ stream[R!Current(w)] \in Orders
<1>1. batch[w] \in SUBSET (1..Len(stream)) /\ stream \in Seq(Orders)
  BY DEF StageTypeInv
<1>2. batch[w] \in SUBSET Nat
  BY <1>1
<1>3. \E m \in batch[w] : \A k \in batch[w] : m <= k
  BY <1>2, LeastNatural
<1>4. R!Current(w) \in batch[w]
  BY <1>3 DEF R!Current
<1>. QED
  BY <1>1, <1>4

\* What a worker reads of the stream follows the cursor, without a gap.
LEMMA ReadNewIsNext ==
    ASSUME StageTypeInv, cursor < Len(stream)
    PROVE  LET new == R!Lowest((cursor + 1)..Len(stream)) IN
               /\ new = (cursor + 1)..(cursor + Cardinality(new))
               /\ Cardinality(new) \in Nat
               /\ cursor + Cardinality(new) <= Len(stream)
<1>1. cursor \in Nat /\ Len(stream) \in Nat /\ cursor <= Len(stream)
  BY DEF StageTypeInv
<1>. QED
  BY <1>1, FirstOfInterval, StagesAssumption DEF R!Lowest, R!Cardinality, Cardinality

\* A worker's step is one of the worker's unit of work, which books, of the
\* revert of a message, or leaves both inventories alone.
LEMMA WorkEffect ==
    ASSUME StageTypeInv, NEW w \in Workers, R!Work(w)
    PROVE  /\ batch' \in [Workers -> SUBSET (1..Len(stream))]
           /\ pel' \in [Workers -> SUBSET (1..Len(stream))]
           /\ cursor' \in 0..Len(stream)
           /\ UNCHANGED <<api, stream, revertedOrders>>
           /\ \/ UNCHANGED <<status, available, qty, revertedMsgs>>
              \/ /\ R!Busy(w, "process")
                 /\ R!InsertReservation(stream[R!Current(w)])
                 /\ UNCHANGED <<qty, revertedMsgs>>
              \/ /\ R!Busy(w, "revert")
                 /\ R!RevertMsg(R!Current(w), QuantityOf[stream[R!Current(w)]])
                 /\ UNCHANGED <<status, available>>
<1>. USE DEF StageTypeInv
<1>1. ASSUME NEW S \in SUBSET (1..Len(stream)), R!TakeUp(w, S)
      PROVE  batch' \in [Workers -> SUBSET (1..Len(stream))]
  BY <1>1 DEF R!TakeUp
<1>2. CASE R!Start(w)
  BY <1>1, <1>2 DEF R!Start, R!Read, R!apiVars, R!queueVars, R!pgVars, R!redisVars
<1>3. CASE R!ReadPending(w)
  <2>1. R!Lowest(pel[w]) \in SUBSET (1..Len(stream))
    BY DEF R!Lowest
  <2>2. batch' \in [Workers -> SUBSET (1..Len(stream))]
    BY <1>1, <1>3, <2>1 DEF R!ReadPending, R!Read
  <2>. QED
    BY <1>3, <2>2 DEF R!ReadPending, R!apiVars, R!queueVars, R!pgVars, R!redisVars
<1>4. CASE R!ReadNew(w)
  <2>. DEFINE new == R!Lowest((cursor + 1)..Len(stream))
  <2>1. /\ new \in SUBSET (1..Len(stream))
        /\ cursor + Cardinality(new) \in 0..Len(stream)
    <3>1. cursor < Len(stream)
      BY <1>4 DEF R!ReadNew
    <3>2. new \subseteq (cursor + 1)..Len(stream)
      BY DEF R!Lowest
    <3>3. cursor \in Nat /\ Len(stream) \in Nat
      OBVIOUS
    <3>4. Cardinality(new) \in Nat /\ cursor + Cardinality(new) <= Len(stream)
      BY <3>1, ReadNewIsNext
    <3>. HIDE DEF new
    <3>. QED
      BY <3>2, <3>3, <3>4
  <2>2. /\ R!TakeUp(w, new)
        /\ pel' = [pel EXCEPT ![w] = @ \cup new]
        /\ cursor' = cursor + Cardinality(new)
    BY <1>4 DEF R!ReadNew, R!Read, R!Cardinality, Cardinality
  <2>3. UNCHANGED <<api, stream, revertedOrders, status, available, qty, revertedMsgs>>
    BY <1>4 DEF R!ReadNew, R!apiVars, R!pgVars, R!redisVars
  <2>. HIDE DEF new
  <2>. QED
    BY <1>1, <2>1, <2>2, <2>3
<1>5. ASSUME R!TakeUp(w, batch[w] \ {R!Current(w)}) \/ batch' = batch
      PROVE  batch' \in [Workers -> SUBSET (1..Len(stream))]
  BY <1>1, <1>5
<1>6. CASE R!Process(w)
  <2>1. batch' = batch
    BY <1>6 DEF R!Process, R!GiveUp, R!GoTo, R!RetryOrGiveUp
  <2>2. UNCHANGED <<api, stream, pel, cursor, revertedOrders, qty, revertedMsgs>>
    BY <1>6 DEF R!Process, R!apiVars, R!queueVars, R!redisVars
  <2>3. R!InsertReservation(stream[R!Current(w)]) \/ UNCHANGED <<status, available>>
    BY <1>6 DEF R!Process, R!pgVars
  <2>. QED
    BY <1>6, <2>1, <2>2, <2>3 DEF R!Process
<1>7. CASE R!Revert(w)
  <2>1. R!TakeUp(w, batch[w] \ {R!Current(w)}) \/ batch' = batch
    BY <1>7 DEF R!Revert, R!GoTo, R!LeavePending
  <2>2. UNCHANGED <<api, stream, pel, cursor, revertedOrders, status, available>>
    BY <1>7 DEF R!Revert, R!apiVars, R!queueVars, R!pgVars, R!RevertMsg, R!redisVars
  <2>3. R!RevertMsg(R!Current(w), QuantityOf[stream[R!Current(w)]]) \/ UNCHANGED <<qty, revertedMsgs>>
    BY <1>7 DEF R!Revert, R!redisVars
  <2>. QED
    BY <1>5, <1>7, <2>1, <2>2, <2>3 DEF R!Revert
<1>8. CASE R!DeadLetter(w)
  <2>1. R!TakeUp(w, batch[w] \ {R!Current(w)}) \/ batch' = batch
    BY <1>8 DEF R!DeadLetter, R!GoTo, R!LeavePending
  <2>. QED
    BY <1>5, <1>8, <2>1 DEF R!DeadLetter, R!apiVars, R!pgVars, R!redisVars
<1>9. CASE R!Ack(w)
  <2>1. R!TakeUp(w, batch[w] \ {R!Current(w)})
    BY <1>9 DEF R!Ack, R!NextMessage
  <2>. QED
    BY <1>5, <1>9, <2>1 DEF R!Ack, R!apiVars, R!pgVars, R!redisVars
<1>. QED
  BY <1>2, <1>3, <1>4, <1>6, <1>7, <1>8, <1>9 DEF R!Work


\* A row that was not there appears, awaiting its payment.
LEMMA InsertKeeps ==
    ASSUME BaseInv, NEW o \in Orders, status[o] = "absent",
           status' = [status EXCEPT ![o] = "awaiting_payment"],
           UNCHANGED <<stage, revertedOrders, comp, job>>
    PROVE  /\ status' \in [Orders -> StageStatuses]
           /\ LocksInv' /\ BackInv'
           /\ \A p \in Orders : status[p] # "absent" => status'[p] # "absent"
BY DEF BaseInv, StageTypeInv, StageStatuses, LocksInv, BackInv, CompensatedIsReverted

\* Stage 3: a worker.
LEMMA Stage3WorkStep ==
    ASSUME BaseInv, NEW w \in Workers, stage = 3, Stage3Work(w), UNCHANGED <<stage, eventVars>>
    PROVE  BaseInv'
<1>. USE DEF BaseInv
<1>0. UNCHANGED <<topic, fetched, committed, at, intent, confirming, swept, comp, job, counted,
                  left, event, rows, keys, stage>>
  BY DEF Stage3Work, notReserving, queueVars, payVars, compVars, eventVars
<1>1. /\ batch' \in [Workers -> SUBSET (1..Len(stream))]
      /\ pel' \in [Workers -> SUBSET (1..Len(stream))]
      /\ cursor' \in 0..Len(stream)
      /\ UNCHANGED <<api, stream, revertedOrders>>
  BY WorkEffect DEF Stage3Work
<1>2. \/ UNCHANGED <<status, available, qty>>
      \/ /\ R!Busy(w, "process")
         /\ R!InsertReservation(stream[R!Current(w)])
         /\ UNCHANGED <<qty>>
      \/ /\ R!Busy(w, "revert")
         /\ R!RevertMsg(R!Current(w), QuantityOf[stream[R!Current(w)]])
         /\ UNCHANGED <<status, available>>
  BY WorkEffect DEF Stage3Work
<1>3. /\ qty' \in Nat /\ available' \in Nat
      /\ status' \in [Orders -> StageStatuses]
      /\ LocksInv' /\ BackInv'
      /\ \A p \in Orders : status[p] # "absent" => status'[p] # "absent"
  <2>1. CASE UNCHANGED <<status, available, qty>>
    BY <1>0, <1>1, <2>1 DEF StageTypeInv, LocksInv, BackInv, CompensatedIsReverted
  <2>2. CASE R!Busy(w, "process") /\ R!InsertReservation(stream[R!Current(w)]) /\ UNCHANGED qty
    <3>. DEFINE o == stream[R!Current(w)]
    <3>1. o \in Orders
      BY <2>2, CurrentIsRead DEF R!Busy
    <3>2. /\ status[o] = "absent" /\ status' = [status EXCEPT ![o] = "awaiting_payment"]
          /\ ~(available < QuantityOf[o]) /\ available' = available - QuantityOf[o]
      BY <2>2, <3>1 DEF R!InsertReservation, R!AlreadyBought, R!SoldOut
    <3>. HIDE DEF o
    <3>3. available' \in Nat
      BY <3>1, <3>2, QuantityIsNat DEF StageTypeInv
    <3>. QED
      BY <1>0, <1>1, <2>2, <3>1, <3>2, <3>3, InsertKeeps DEF StageTypeInv
  <2>3. CASE /\ R!Busy(w, "revert")
             /\ R!RevertMsg(R!Current(w), QuantityOf[stream[R!Current(w)]])
             /\ UNCHANGED <<status, available>>
    <3>1. QuantityOf[stream[R!Current(w)]] \in Nat
      BY <2>3, CurrentIsRead, QuantityIsNat DEF R!Busy
    <3>2. qty' \in Nat
      BY <2>3, <3>1 DEF R!RevertMsg, StageTypeInv
    <3>. QED
      BY <1>0, <1>1, <2>3, <3>2 DEF StageTypeInv, LocksInv, BackInv, CompensatedIsReverted
  <2>. QED
    BY <1>2, <2>1, <2>2, <2>3
<1>4. StageTypeInv'
  BY <1>0, <1>1, <1>3 DEF StageTypeInv
<1>5. FetchedInv'
  BY <1>0, <1>1, <1>3 DEF StageTypeInv, FetchedInv, Accounted
<1>6. TicketLockInv' /\ InsertInv'
  BY <1>0 DEF TicketLockInv, InsertInv
<1>. QED
  BY <1>0, <1>3, <1>4, <1>5, <1>6 DEF EventInv

\* Stage 5: the consumer. It commits the offset of a message only when the
\* message is accounted for.
LEMMA ConsumeStep ==
    ASSUME BaseInv, stage = 5, Consume, UNCHANGED <<stage, workVars, eventVars>>
    PROVE  BaseInv'
<1>. USE DEF BaseInv
<1>0. UNCHANGED <<topic, intent, confirming, swept, comp, job, stream, batch, pel, cursor, api,
                  event, rows, keys, stage>>
  BY DEF Consume, Fetch, Process, RevertLeaked, Commit, apiVars, queueVars, payVars, compVars,
         workVars, eventVars
<1>1. TicketLockInv' /\ InsertInv' /\ EventInv'
  BY <1>0 DEF TicketLockInv, InsertInv, EventInv
<1>t. /\ topic \in Seq(Orders) /\ Len(topic) \in Nat /\ fetched \in Nat /\ committed \in Nat
      /\ committed <= fetched /\ fetched <= Len(topic)
      /\ at # "fetch" => fetched \in 1..Len(topic) /\ topic[fetched] \in Orders
  BY DEF StageTypeInv
<1>2. CASE Fetch
  <2>1. /\ UNCHANGED <<status, available, qty, revertedOrders, committed, left, counted>>
        /\ at = "fetch" /\ at' = "process"
        /\ fetched' = fetched + 1 /\ fetched < Len(topic)
    BY <1>2 DEF Fetch, pgVars, redisVars
  <2>2. StageTypeInv'
    BY <1>0, <1>t, <2>1 DEF StageTypeInv, ConsumerSteps
  <2>3. FetchedInv'
    <3>1. \A m \in 1..fetched' : m = fetched' \/ m \in 1..fetched
      BY <1>t, <2>1
    <3>. QED
      BY <1>0, <2>1, <3>1 DEF FetchedInv, Accounted
  <2>. QED
    BY <1>0, <1>1, <2>1, <2>2, <2>3 DEF LocksInv, BackInv, CompensatedIsReverted
<1>3. CASE Process
  <2>. DEFINE o == topic[fetched]
  <2>0. o \in Orders /\ fetched \in 1..Len(topic) /\ committed < fetched
    BY <1>3, <1>t DEF Process, StageTypeInv
  <2>1. UNCHANGED <<qty, revertedOrders, committed, fetched, counted>> /\ at = "process"
    BY <1>3 DEF Process, redisVars
  <2>2. \/ /\ InsertReservation(o)
           /\ \/ at' = "commit" /\ UNCHANGED left
              \/ at' = "fetch" /\ left' = left \cup {fetched}
        \/ /\ UNCHANGED pgVars
           /\ \/ at' = "revert" /\ UNCHANGED left
              \/ at' = "fetch" /\ left' = left \cup {fetched}
    BY <1>3 DEF Process, Skip, Leave
  <2>. HIDE DEF o
  <2>3. /\ available' \in Nat /\ status' \in [Orders -> StageStatuses]
        /\ LocksInv' /\ BackInv'
        /\ \A p \in Orders : status[p] # "absent" => status'[p] # "absent"
        /\ InsertReservation(o) => status'[o] # "absent"
    <3>1. CASE InsertReservation(o)
      <4>1. /\ status[o] = "absent" /\ status' = [status EXCEPT ![o] = "awaiting_payment"]
            /\ ~(available < QuantityOf[o]) /\ available' = available - QuantityOf[o]
        BY <2>0, <3>1 DEF InsertReservation, AlreadyBought, SoldOut
      <4>2. available' \in Nat
        BY <2>0, <4>1, QuantityIsNat DEF StageTypeInv
      <4>3. status'[o] # "absent"
        BY <2>0, <4>1 DEF StageTypeInv
      <4>. QED
        BY <1>0, <2>0, <2>1, <4>1, <4>2, <4>3, InsertKeeps
    <3>2. CASE UNCHANGED pgVars
      <4>1. ~InsertReservation(o)
        BY <2>0, <3>2 DEF InsertReservation, AlreadyBought, pgVars, StageTypeInv
      <4>. QED
        BY <1>0, <2>1, <3>2, <4>1 DEF pgVars, StageTypeInv, LocksInv, BackInv, CompensatedIsReverted
    <3>. QED
      BY <2>2, <3>1, <3>2
  <2>4. StageTypeInv'
    BY <1>0, <2>0, <2>1, <2>2, <2>3 DEF StageTypeInv, ConsumerSteps
  <2>5. FetchedInv'
    <3>1. \A m \in 1..fetched : Accounted(topic[m]) => Accounted(topic[m])'
      BY <1>0, <1>t, <2>1, <2>3 DEF Accounted
    <3>2. InsertReservation(o) => Accounted(topic[fetched])'
      BY <1>0, <2>1, <2>3 DEF Accounted, o
    <3>. QED
      BY <1>0, <2>1, <2>2, <3>1, <3>2 DEF FetchedInv
  <2>. QED
    BY <1>1, <2>3, <2>4, <2>5
<1>4. CASE RevertLeaked
  <2>0. topic[fetched] \in Orders
    BY <1>4, <1>t DEF RevertLeaked
  <2>1. /\ UNCHANGED <<status, available, committed, fetched, left>>
        /\ at = "revert" /\ at' = "commit"
    BY <1>4 DEF RevertLeaked, pgVars
  <2>2. /\ revertedOrders' \in {revertedOrders, revertedOrders \cup {topic[fetched]}}
        /\ counted \subseteq counted'
        /\ topic[fetched] \in revertedOrders' \cup counted'
        /\ qty' \in {qty, qty + QuantityOf[topic[fetched]]}
    BY <1>4 DEF RevertLeaked, RevertOrder, redisVars
  <2>3. qty' \in Nat
    BY <2>0, <2>2, QuantityIsNat DEF StageTypeInv
  <2>4. StageTypeInv'
    BY <1>0, <2>0, <2>1, <2>2, <2>3 DEF StageTypeInv, ConsumerSteps
  <2>5. FetchedInv'
    BY <1>0, <2>1, <2>2 DEF FetchedInv, Accounted
  <2>. QED
    BY <1>0, <1>1, <2>1, <2>2, <2>4, <2>5 DEF LocksInv, BackInv, CompensatedIsReverted
<1>5. CASE Commit
  <2>1. /\ UNCHANGED <<status, available, qty, revertedOrders, fetched, left, counted>>
        /\ at = "commit" /\ at' = "fetch" /\ committed' \in {committed, fetched}
    BY <1>5 DEF Commit, CommitOffset, pgVars, redisVars
  <2>2. StageTypeInv'
    BY <1>0, <1>t, <2>1 DEF StageTypeInv, ConsumerSteps
  <2>3. FetchedInv'
    BY <1>0, <2>1 DEF FetchedInv, Accounted
  <2>. QED
    BY <1>0, <1>1, <2>1, <2>2, <2>3 DEF LocksInv, BackInv, CompensatedIsReverted
<1>. QED
  BY <1>2, <1>3, <1>4, <1>5 DEF Consume

\* A compensation takes the lock of its row, which nobody else has.
LEMMA LockStep ==
    ASSUME BaseInv, NEW a \in Compensators, NEW o \in Orders, Lock(a, o),
           UNCHANGED <<stage, workVars, eventVars>>
    PROVE  BaseInv'
<1>. USE DEF BaseInv
<1>0. UNCHANGED <<status, available, qty, revertedOrders, api, topic, fetched, committed, at,
                  intent, confirming, stream, batch, pel, cursor, counted, left,
                  event, rows, keys, stage>>
  BY DEF Lock, pgVars, redisVars, apiVars, queueVars, payVars, workVars, eventVars
<1>1. /\ swept' \in SUBSET Orders
      /\ \/ UNCHANGED <<comp, job>>
         \/ /\ job[a] = NoOrder /\ ~Locked(o) /\ status[o] = "awaiting_payment"
            /\ job' = [job EXCEPT ![a] = o]
            /\ comp' = [comp EXCEPT ![a] = "locked"]
  BY DEF Lock, StageTypeInv
<1>2. StageTypeInv'
  BY <1>0, <1>1, Stage5Assumption DEF StageTypeInv, CompSteps
<1>3. LocksInv'
  BY <1>0, <1>1 DEF StageTypeInv, LocksInv, Locked
<1>4. BackInv'
  BY <1>0, <1>1 DEF StageTypeInv, BackInv, CompensatedIsReverted
<1>. QED
  BY <1>0, <1>2, <1>3, <1>4 DEF TicketLockInv, InsertInv, FetchedInv, EventInv, Accounted

\* The revert inside the transaction.
LEMMA RevertLockedStep ==
    ASSUME BaseInv, NEW a \in Compensators, stage # 1, RevertLocked(a),
           UNCHANGED <<stage, workVars, eventVars>>
    PROVE  BaseInv'
<1>. USE DEF BaseInv
<1>0. UNCHANGED <<status, available, api, topic, fetched, committed, at, swept,
                  intent, confirming, stream, batch, pel, cursor, counted, left,
                  event, rows, keys, stage>>
  BY DEF RevertLocked, pgVars, apiVars, queueVars, payVars, workVars, eventVars
<1>1. job[a] \in Orders /\ status[job[a]] = "awaiting_payment" /\ comp[a] = "locked"
  BY DEF RevertLocked, StageTypeInv, LocksInv
<1>2. /\ qty' \in {qty, qty + QuantityOf[job[a]]}
      /\ \/ /\ revertedOrders' = revertedOrders \cup {job[a]}
            /\ comp' = [comp EXCEPT ![a] = "commit"]
            /\ UNCHANGED job
         \/ /\ revertedOrders' \in {revertedOrders, revertedOrders \cup {job[a]}}
            /\ Unlock(a)
  BY DEF RevertLocked, RevertOrder, redisVars
<1>3. qty' \in Nat
  BY <1>1, <1>2, QuantityIsNat DEF StageTypeInv
<1>4. StageTypeInv'
  BY <1>0, <1>1, <1>2, <1>3, Stage5Assumption DEF StageTypeInv, CompSteps, Unlock
<1>5. LocksInv'
  BY <1>0, <1>1, <1>2 DEF StageTypeInv, LocksInv, Unlock
<1>6. BackInv'
  BY <1>0, <1>1, <1>2 DEF StageTypeInv, BackInv, CompensatedIsReverted, Unlock
<1>7. InsertInv'
  BY <1>0, <1>1, <1>2 DEF StageTypeInv, InsertInv
<1>8. FetchedInv'
  BY <1>0, <1>2 DEF StageTypeInv, FetchedInv, Accounted
<1>. QED
  BY <1>0, <1>4, <1>5, <1>6, <1>7, <1>8 DEF TicketLockInv, EventInv

\* The end of a compensation: its row is compensated, or still awaits payment.
LEMMA ReleaseStep ==
    ASSUME BaseInv, NEW a \in Compensators,
           \/ stage = 1 /\ ReleaseStage1(a)
           \/ stage = 2 /\ ReleaseStage2(a)
           \/ stage \in {3, 5} /\ CommitRelease(a),
           UNCHANGED <<stage, workVars, eventVars>>
    PROVE  BaseInv'
<1>. USE DEF BaseInv
<1>0. UNCHANGED <<qty, revertedOrders, api, topic, fetched, committed, at, swept,
                  intent, confirming, stream, batch, pel, cursor, counted, left,
                  event, rows, keys, stage>>
  BY DEF ReleaseStage1, ReleaseStage2, CommitRelease, elsewhere, redisVars, apiVars, queueVars,
         payVars, workVars, eventVars
<1>1. comp[a] # "idle" /\ (stage # 1 => comp[a] = "commit")
  BY DEF ReleaseStage1, ReleaseStage2, CommitRelease
<1>2. job[a] \in Orders /\ status[job[a]] = "awaiting_payment"
  BY <1>1 DEF StageTypeInv, LocksInv
<1>3. stage # 1 => job[a] \in revertedOrders
  BY <1>1 DEF BackInv
<1>4. /\ status' \in {status, [status EXCEPT ![job[a]] = "compensated"]}
      /\ available' \in {available, available + QuantityOf[job[a]]}
      /\ Unlock(a)
  BY DEF ReleaseStage1, ReleaseStage2, CommitRelease, ReleaseOrder, MarkStage2, pgVars
<1>5. available' \in Nat /\ available' >= available
  BY <1>2, <1>4, QuantityIsNat DEF StageTypeInv
<1>6. StageTypeInv'
  BY <1>0, <1>2, <1>4, <1>5, Stage5Assumption DEF StageTypeInv, StageStatuses, CompSteps, Unlock
<1>7. LocksInv'
  BY <1>0, <1>2, <1>4 DEF StageTypeInv, LocksInv, Unlock
<1>8. BackInv'
  BY <1>0, <1>2, <1>3, <1>4 DEF StageTypeInv, BackInv, CompensatedIsReverted, Unlock
<1>9. InsertInv'
  BY <1>0, <1>2, <1>3, <1>4 DEF StageTypeInv, InsertInv
<1>10. FetchedInv'
  BY <1>0, <1>2, <1>4 DEF StageTypeInv, FetchedInv, Accounted
<1>11. TicketLockInv'
  <2>1. \A o \in Orders : QuantityOf[o] <= available => QuantityOf[o] <= available'
    BY <1>5, QuantityIsNat DEF StageTypeInv
  <2>. QED
    BY <1>0, <2>1 DEF TicketLockInv
<1>. QED
  BY <1>0, <1>6, <1>7, <1>8, <1>9, <1>10, <1>11 DEF EventInv

\* The compensator of each stage.
LEMMA CompensateStep ==
    ASSUME BaseInv, NEW a \in Compensators, CompensateIn(a), UNCHANGED <<stage, eventVars>>
    PROVE  BaseInv'
BY LockStep, RevertLockedStep, ReleaseStep
   DEF CompensateIn, Stage1Compensate, Stage2Compensate, Stage3Compensate, Compensate

\* Payment: a confirmation finds the row awaiting payment and not locked.
LEMMA PayStep ==
    ASSUME BaseInv, NEW o \in Orders, PayIntent(o) \/ StartConfirm(o) \/ Confirm(o),
           UNCHANGED <<stage, workVars, eventVars>>
    PROVE  BaseInv'
<1>. USE DEF BaseInv
<1>0. UNCHANGED <<available, qty, revertedOrders, api, topic, fetched, committed, at, swept,
                  comp, job, stream, batch, pel, cursor, counted, left,
                  event, rows, keys, stage>>
  BY DEF PayIntent, StartConfirm, Confirm, MarkPaid, pgVars, redisVars, apiVars, queueVars,
     compVars,
         workVars, eventVars
<1>1. /\ intent' \in SUBSET Orders /\ confirming' \in SUBSET Orders
      /\ \/ UNCHANGED status
         \/ /\ status[o] = "awaiting_payment" /\ ~Locked(o)
            /\ status' = [status EXCEPT ![o] = "paid"]
  BY DEF PayIntent, StartConfirm, Confirm, MarkPaid, pgVars, StageTypeInv
<1>2. StageTypeInv'
  BY <1>0, <1>1 DEF StageTypeInv, StageStatuses
<1>3. LocksInv' /\ BackInv'
  BY <1>0, <1>1 DEF StageTypeInv, LocksInv, Locked, BackInv, CompensatedIsReverted
<1>4. InsertInv' /\ FetchedInv'
  BY <1>0, <1>1 DEF StageTypeInv, InsertInv, FetchedInv, Accounted
<1>. QED
  BY <1>0, <1>2, <1>3, <1>4 DEF TicketLockInv, EventInv

\* The process is gone, and started again.
LEMMA RestartStep ==
    ASSUME BaseInv, Restart, WorkersDie \/ UNCHANGED workVars, UNCHANGED <<stage, eventVars>>
    PROVE  BaseInv'
<1>. USE DEF BaseInv
<1>0. UNCHANGED <<status, available, qty, revertedOrders, topic, committed, counted, intent,
                  stream, pel, cursor, event, rows, keys, stage>>
  BY DEF Restart, WorkersDie, pgVars, redisVars, workVars, eventVars
<1>1. batch' \in [Workers -> SUBSET (1..Len(stream))]
  BY DEF WorkersDie, workVars, StageTypeInv
<1>2. /\ api' = [o \in Orders |-> IF api[o] \in InRequest THEN "failed" ELSE api[o]]
      /\ api' \in [Orders -> ApiStates]
      /\ fetched' = committed /\ at' = "fetch"
      /\ left' = {m \in left : m <= committed}
      /\ confirming' = {} /\ swept' = {}
      /\ comp' = [a \in Compensators |-> "idle"]
      /\ job' = [a \in Compensators |-> NoOrder]
  BY DEF Restart, ResumeOffset, StageTypeInv, ApiStates
<1>3. committed \in Nat /\ committed <= Len(topic) /\ Len(topic) \in Nat /\ committed <= fetched
  BY DEF StageTypeInv
<1>4. StageTypeInv'
  BY <1>0, <1>1, <1>2, <1>3 DEF StageTypeInv, ConsumerSteps, CompSteps
<1>5. \A o \in Orders : \A s \in {"new", "writing", "repairing", "retrying", "accepted"} :
          api'[o] = s => api[o] = s
  BY <1>2
<1>6. \A o \in Orders : api'[o] # "writing"
  BY <1>2 DEF InRequest, ApiStates
<1>7. TicketLockInv' /\ InsertInv'
  BY <1>0, <1>5, <1>6 DEF TicketLockInv, InsertInv
<1>8. FetchedInv'
  <2>1. ASSUME NEW m \in 1..committed PROVE Accounted(topic[m]) \/ m \in left
    BY <1>3, <2>1 DEF StageTypeInv, FetchedInv
  <2>. QED
    BY <1>0, <1>2, <2>1 DEF FetchedInv, Accounted
<1>9. LocksInv' /\ BackInv'
  BY <1>0, <1>2 DEF LocksInv, BackInv, CompensatedIsReverted
<1>. QED
  BY <1>0, <1>4, <1>7, <1>8, <1>9 DEF EventInv

\* The context of the background ends: the sweep and the consumer's transaction
\* are rolled back.
LEMMA AbortStep ==
    ASSUME BaseInv, AbortSweep \/ AbortProcess
    PROVE  BaseInv'
<1>. USE DEF BaseInv
<1>1. CASE AbortSweep
  <2>0. UNCHANGED <<status, available, qty, revertedOrders, api, topic, fetched, committed, at,
                    intent, confirming, stream, batch, pel, cursor, counted, left,
                    event, rows, keys, stage>>
    BY <1>1 DEF AbortSweep, pgVars, redisVars, apiVars, queueVars, payVars, workVars, eventVars
  <2>1. swept' = {} /\ Unlock(Sweeper) /\ Sweeper \in Compensators
    BY <1>1 DEF AbortSweep, Compensators
  <2>2. StageTypeInv'
    BY <2>0, <2>1, Stage5Assumption DEF StageTypeInv, Unlock, CompSteps
  <2>3. LocksInv' /\ BackInv'
    BY <2>0, <2>1 DEF StageTypeInv, LocksInv, BackInv, CompensatedIsReverted, Unlock
  <2>. QED
    BY <2>0, <2>2, <2>3 DEF TicketLockInv, InsertInv, FetchedInv, EventInv, Accounted
<1>2. CASE AbortProcess
  <2>0. UNCHANGED <<status, available, qty, revertedOrders, api, topic, fetched, committed, swept,
                    comp, job, intent, confirming, stream, batch, pel, cursor, counted,
                    event, rows, keys, stage>>
    BY <1>2 DEF AbortProcess, pgVars, redisVars, apiVars, payVars, compVars, workVars, eventVars
  <2>1. at' = "fetch" /\ left' = left \cup {fetched}
    BY <1>2 DEF AbortProcess, Leave
  <2>2. StageTypeInv'
    BY <2>0, <2>1 DEF StageTypeInv, ConsumerSteps
  <2>3. FetchedInv'
    BY <2>0, <2>1 DEF FetchedInv, Accounted
  <2>. QED
    BY <2>0, <2>2, <2>3 DEF LocksInv, BackInv, TicketLockInv, InsertInv, EventInv,
       CompensatedIsReverted
<1>. QED
  BY <1>1, <1>2

\* The clock, the metadata, the sweeper's list, the event and the order to stop.
Quiet ==
    \/ CreateEvent
    \/ \E o \in Orders : Elapse(o)
    \/ ListOverdue /\ UNCHANGED <<stage, workVars, eventVars, lifeVars>>
    \/ ExpireMetadata
    \/ AskToStop \/ StopOther
    \/ UNCHANGED serverVars

\* They change neither tables, nor inventory, nor what is underway.
LEMMA QuietEffect ==
    ASSUME BaseInv, Quiet
    PROVE  /\ UNCHANGED <<stage, status, available, qty, revertedMsgs, revertedOrders, api, topic,
                          fetched, committed, at, intent, confirming, comp, job, stream, pel,
                          cursor, step, counted, left>>
           /\ UNCHANGED batch \/ AskToStop
           /\ UNCHANGED mode \/ AskToStop
           /\ swept' \in SUBSET Orders
           /\ batch' \in [Workers -> SUBSET (1..Len(stream))]
           /\ EventInv'
<1>. USE DEF pgVars, redisVars, apiVars, queueVars, payVars, compVars, workVars, eventVars, lifeVars,
             vars, syncVars, serverVars, BaseInv
<1>1. CASE CreateEvent
  <2>1. EventInv'
    BY <1>1 DEF CreateEvent, InsertEvent, Hydrate, UndoEvent, EventInv
  <2>. QED
    BY <1>1, <2>1 DEF CreateEvent, StageTypeInv
<1>2. CASE \E o \in Orders : Elapse(o)
  BY <1>2 DEF Elapse, Clock, EventInv, StageTypeInv
<1>3. CASE ListOverdue /\ UNCHANGED <<stage, workVars, eventVars>>
  BY <1>3 DEF ListOverdue, Overdue, EventInv, StageTypeInv
<1>4. CASE ExpireMetadata
  BY <1>4 DEF ExpireMetadata, EvictMetadata, EventInv, StageTypeInv
<1>5. CASE AskToStop
  BY <1>5 DEF AskToStop, WorkersDie, EventInv, StageTypeInv
<1>6. CASE StopOther
  BY <1>6 DEF StopOther, EventInv, StageTypeInv
<1>7. CASE UNCHANGED serverVars
  BY <1>7 DEF EventInv, StageTypeInv
<1>. QED
  BY <1>1, <1>2, <1>3, <1>4, <1>5, <1>6, <1>7 DEF Quiet

\* So they keep the invariant.
LEMMA QuietStep ==
    ASSUME BaseInv, Quiet
    PROVE  BaseInv'
<1>. USE DEF BaseInv
<1>0. /\ UNCHANGED <<stage, status, available, qty, revertedOrders, api, topic, fetched, committed,
                     at, intent, confirming, comp, job, stream, pel, cursor, counted, left>>
      /\ swept' \in SUBSET Orders
      /\ batch' \in [Workers -> SUBSET (1..Len(stream))]
      /\ EventInv'
  BY QuietEffect
<1>1. StageTypeInv'
  BY <1>0 DEF StageTypeInv
<1>. QED
  BY <1>0, <1>1 DEF LocksInv, BackInv, TicketLockInv, InsertInv, FetchedInv, Accounted,
                    CompensatedIsReverted

\* What a step of the server is, action by action.
LEMMA ServerStep ==
    ASSUME [ServerNext]_serverVars
    PROVE  \/ Quiet
           \/ \E o \in Orders : BookIn(o) /\ Served /\ UNCHANGED stage
           \/ \E o \in Orders :
                 /\ PayIntent(o) \/ StartConfirm(o) \/ Confirm(o)
                 /\ Served /\ UNCHANGED <<stage, workVars>>
           \/ \E a \in Compensators : CompensateIn(a) /\ Served /\ UNCHANGED stage
           \/ ConsumeIn /\ Served /\ UNCHANGED stage
           \/ AbortSweep \/ AbortProcess
           \/ /\ Restart
              /\ WorkersDie \/ UNCHANGED workVars
              /\ UNCHANGED <<stage, eventVars>>
              /\ \/ StartAgain("again") /\ UNCHANGED workVars /\ Exit
                 \/ StartAgain("cut")
                 \/ Fault("crash") /\ UNCHANGED lifeVars
BY DEF ServerNext, ServeBook, ServePay, ServeConfirm, RunSweeper, RunConsumer, ServeFailed, Served,
       Stopping, Exit, CutOff, StartAgain, Die, Crash, ServerRest, Compensators, Quiet, serverVars,
       lifeVars, eventVars

\* Nothing has happened, and nothing is sold.
LEMMA BaseInit == ServerInit => BaseInv
<1>. SUFFICES ASSUME ServerInit PROVE BaseInv
  OBVIOUS
<1>. USE DEF ServerInit, StagesInit, EnvInit, PgInit, Stage5Init
<1>1. topic = <<>> /\ stream = <<>> /\ Len(topic) = 0 /\ Len(stream) = 0
      /\ topic \in Seq(Orders) /\ stream \in Seq(Orders)
  OBVIOUS
<1>2. \A o \in Orders : api[o] \in {"new", "failed"} /\ status[o] = "absent"
  OBVIOUS
<1>3. StageTypeInv
  BY <1>1, <1>2, CatalogAssumption
     DEF StageTypeInv, StageStatuses, ApiStates, ConsumerSteps, CompSteps
<1>4. FetchedInv
  BY DEF FetchedInv
<1>. QED
  BY <1>2, <1>3, <1>4 DEF BaseInv, LocksInv, TicketLockInv, BackInv, CompensatedIsReverted,
     InsertInv,
                          EventInv

\* Every step of the server keeps the invariant.
LEMMA BaseNext == BaseInv /\ [ServerNext]_serverVars => BaseInv'
<1>. SUFFICES ASSUME BaseInv, [ServerNext]_serverVars PROVE BaseInv'
  OBVIOUS
<1>1. ASSUME NEW o \in Orders, BookIn(o), Served, UNCHANGED stage PROVE BaseInv'
  BY <1>1, Stage1BookStep, Stage2BookStep, Stage3BookStep, Stage5BookStep DEF BookIn, Served
<1>2. ASSUME NEW o \in Orders, PayIntent(o) \/ StartConfirm(o) \/ Confirm(o), Served,
             UNCHANGED <<stage, workVars>>
      PROVE  BaseInv'
  BY <1>2, PayStep DEF Served
<1>3. ASSUME NEW a \in Compensators, CompensateIn(a), Served, UNCHANGED stage PROVE BaseInv'
  BY <1>3, CompensateStep DEF Served
<1>4. CASE ConsumeIn /\ Served /\ UNCHANGED stage
  BY <1>4, Stage3WorkStep, ConsumeStep DEF ConsumeIn, Served
<1>. QED
  BY <1>1, <1>2, <1>3, <1>4, ServerStep, QuietStep, AbortStep, RestartStep

\* The invariant holds in every reachable state.
LEMMA BaseAlways == ServerSpec => []BaseInv
<1>. QED
  BY BaseInit, BaseNext, PTL DEF ServerSpec

-----------------------------------------------------------------------------
(* What follows from it *)

\* Stages 2, 3 and 5: the tickets of a compensated order are back in Redis, for
\* the compensators commit after the revert.
THEOREM StagesCompensateAfterRevert == ServerSpec => []CompensatedIsBack
<1>1. BaseInv => CompensatedIsBack
  BY DEF BaseInv, BackInv, CompensatedIsBack
<1>. QED
  BY <1>1, BaseAlways, PTL

\* Stage 5: every message behind the committed offset has become an order or was
\* given back, but for those whose revert failed and was counted and those that
\* were logged as left for redelivery.
THEOREM CommittedAccounted == ServerSpec => []CommittedIsAccounted
<1>1. ASSUME BaseInv PROVE CommittedIsAccounted
  <2>1. committed \in Nat /\ fetched \in Nat /\ committed <= fetched
        /\ (at # "fetch" => committed < fetched)
    BY <1>1 DEF BaseInv, StageTypeInv
  <2>2. ASSUME NEW m \in 1..committed PROVE Accounted(topic[m]) \/ m \in left
    BY <1>1, <2>1, <2>2 DEF BaseInv, FetchedInv
  <2>. QED
    BY <2>2 DEF CommittedIsAccounted
<1>. QED
  BY <1>1, BaseAlways, PTL

\* A created event can be sold, and one that was rolled back is gone.
THEOREM AnswersAreTrue == ServerSpec => []AnsweredIsTrue
<1>1. BaseInv => AnsweredIsTrue
  BY DEF BaseInv, EventInv, AnsweredIsTrue
<1>. QED
  BY <1>1, BaseAlways, PTL

-----------------------------------------------------------------------------
(* What Redis offers, and what is underway *)

\* The step moves tickets between Redis and the orders underway, if any.
SameTickets ==
    \/ UNCHANGED <<qty, Underway>>
    \/ \E o \in Orders \ Underway :
          Underway' = Underway \cup {o} /\ qty' = qty - QuantityOf[o]
    \/ \E o \in Underway :
          Underway' = Underway \ {o} /\ qty' = qty + QuantityOf[o]

\* The step loses tickets on the way.
FewerTickets == Underway' \subseteq Underway /\ qty' <= qty

\* Moving tickets leaves their number.
LEMMA SameTicketsSum ==
    ASSUME StageTypeInv, SameTickets
    PROVE  qty' + Cardinality(Tickets(Underway))' = qty + Cardinality(Tickets(Underway))
<1>0. Underway \in SUBSET Orders /\ qty \in Nat
  BY DEF Underway, StageTypeInv
<1>. HIDE DEF Underway
<1>1. CASE UNCHANGED <<qty, Underway>>
  BY <1>1
<1>2. ASSUME NEW o \in Orders \ Underway, Underway' = Underway \cup {o},
             qty' = qty - QuantityOf[o]
      PROVE  qty' + Cardinality(Tickets(Underway))' = qty + Cardinality(Tickets(Underway))
  <2>1. Cardinality(Tickets(Underway')) = Cardinality(Tickets(Underway)) + QuantityOf[o]
    BY <1>0, <1>2, TicketsOfOneMore
  <2>2. Cardinality(Tickets(Underway)) \in Nat /\ QuantityOf[o] \in Nat
    BY <1>0, TicketsFinite, QuantityIsNat
  <2>. QED
    BY <1>0, <1>2, <2>1, <2>2
<1>3. ASSUME NEW o \in Underway, Underway' = Underway \ {o}, qty' = qty + QuantityOf[o]
      PROVE  qty' + Cardinality(Tickets(Underway))' = qty + Cardinality(Tickets(Underway))
  <2>1. Underway' \in SUBSET Orders /\ o \in Orders \ Underway' /\ Underway = Underway' \cup {o}
    BY <1>0, <1>3
  <2>2. Cardinality(Tickets(Underway)) = Cardinality(Tickets(Underway')) + QuantityOf[o]
    BY <2>1, TicketsOfOneMore
  <2>3. Cardinality(Tickets(Underway')) \in Nat /\ QuantityOf[o] \in Nat
    BY <2>1, TicketsFinite, QuantityIsNat
  <2>. QED
    BY <1>0, <1>3, <2>2, <2>3
<1>. QED
  BY <1>1, <1>2, <1>3 DEF SameTickets

\* Losing tickets adds none.
LEMMA FewerTicketsSum ==
    ASSUME StageTypeInv, StageTypeInv', FewerTickets
    PROVE  qty' + Cardinality(Tickets(Underway))' <= qty + Cardinality(Tickets(Underway))
<1>0. Underway \in SUBSET Orders /\ qty \in Nat /\ qty' \in Nat /\ Underway' \in SUBSET Orders
  BY DEF Underway, StageTypeInv
<1>. HIDE DEF Underway
<1>1. Cardinality(Tickets(Underway')) <= Cardinality(Tickets(Underway))
  BY <1>0, TicketsMonotone DEF FewerTickets
<1>2. Cardinality(Tickets(Underway)) \in Nat /\ Cardinality(Tickets(Underway')) \in Nat
  BY <1>0, TicketsFinite
<1>. QED
  BY <1>0, <1>1, <1>2 DEF FewerTickets

\* What is underway changes with the rows there are, the replies and the reverts.
LEMMA UnderwayKept ==
    ASSUME StageTypeInv, stage # 1, UNCHANGED <<stage, revertedOrders, revertedMsgs, stream>>,
           \A p \in Orders : (status'[p] = "absent") <=> (status[p] = "absent"),
           \A p \in Orders : (api'[p] \in {"writing", "reverting", "publishing", "accepted"})
                         <=> (api[p] \in {"writing", "reverting", "publishing", "accepted"})
    PROVE  Underway' = Underway
BY DEF Underway, OnTheWay, R!Ids

\* The revert of an order that has a row.
LEMMA UnderwayGiven ==
    ASSUME StageTypeInv, stage # 1, NEW o \in Orders, status[o] # "absent",
           RevertOrder(o, QuantityOf[o]), UNCHANGED <<stage, stream, status, api>>
    PROVE  SameTickets
<1>1. Underway' = Underway \ {o}
  BY DEF Underway, OnTheWay, RevertOrder, R!Ids
<1>2. o \in Underway <=> o \notin revertedOrders
  BY DEF Underway
<1>3. o \in revertedOrders => UNCHANGED qty
  BY DEF RevertOrder
<1>4. o \notin revertedOrders => qty' = qty + QuantityOf[o]
  BY DEF RevertOrder
<1>. HIDE DEF Underway
<1>. QED
  BY <1>1, <1>2, <1>3, <1>4 DEF SameTickets

\* Compensation, payment, the clock and a stop in order lose no ticket, whatever
\* fails with them.
LEMMA SharedMoves ==
    ASSUME BaseInv, stage # 1,
           \/ Quiet
           \/ \E o \in Orders :
                 /\ PayIntent(o) \/ StartConfirm(o) \/ Confirm(o)
                 /\ UNCHANGED <<stage, workVars>>
           \/ \E a \in Compensators : CompensateIn(a) /\ UNCHANGED stage
           \/ AbortSweep \/ AbortProcess
           \/ Exit
    PROVE  SameTickets
<1>. USE DEF BaseInv
<1>1. CASE Quiet
  <2>1. UNCHANGED <<stage, status, qty, revertedMsgs, revertedOrders, api, stream>>
    BY <1>1, QuietEffect
  <2>. QED
    BY <2>1, UnderwayKept DEF SameTickets
<1>2. ASSUME NEW o \in Orders, PayIntent(o) \/ StartConfirm(o) \/ Confirm(o),
             UNCHANGED <<stage, workVars>>
      PROVE  SameTickets
  <2>1. /\ UNCHANGED <<stage, qty, revertedMsgs, revertedOrders, api, stream>>
        /\ \A p \in Orders : (status'[p] = "absent") <=> (status[p] = "absent")
    BY <1>2 DEF PayIntent, StartConfirm, Confirm, MarkPaid, pgVars, redisVars, apiVars, workVars,
                StageTypeInv
  <2>. QED
    BY <2>1, UnderwayKept DEF SameTickets
<1>3. ASSUME NEW a \in Compensators, CompensateIn(a), UNCHANGED stage PROVE SameTickets
  <2>0. UNCHANGED <<stage, api, stream>>
    BY <1>3 DEF CompensateIn, Stage1Compensate, Stage2Compensate, Stage3Compensate, Compensate,
                Lock, ReleaseStage2, RevertLocked, CommitRelease, elsewhere, apiVars, workVars
  <2>1. CASE RevertLocked(a)
    <3>1. job[a] \in Orders /\ status[job[a]] # "absent" /\ UNCHANGED status
      BY <2>1 DEF RevertLocked, StageTypeInv, LocksInv, pgVars
    <3>2. RevertOrder(job[a], QuantityOf[job[a]]) \/ UNCHANGED redisVars
      BY <2>1 DEF RevertLocked
    <3>3. CASE UNCHANGED redisVars
      BY <2>0, <3>1, <3>3, UnderwayKept DEF SameTickets, redisVars
    <3>. QED
      BY <2>0, <3>1, <3>2, <3>3, UnderwayGiven
  <2>2. ASSUME NEW o \in Orders, Lock(a, o) PROVE SameTickets
    BY <2>0, <2>2, UnderwayKept DEF Lock, SameTickets, redisVars, pgVars
  <2>3. CASE ReleaseStage2(a) \/ CommitRelease(a)
    <3>1. job[a] \in Orders /\ status[job[a]] = "awaiting_payment"
      BY <2>3 DEF ReleaseStage2, CommitRelease, StageTypeInv, LocksInv
    <3>2. status' \in {status, [status EXCEPT ![job[a]] = "compensated"]} /\ UNCHANGED redisVars
      BY <2>3 DEF ReleaseStage2, CommitRelease, ReleaseOrder, MarkStage2, pgVars
    <3>3. \A p \in Orders : (status'[p] = "absent") <=> (status[p] = "absent")
      BY <3>1, <3>2 DEF StageTypeInv
    <3>. QED
      BY <2>0, <3>2, <3>3, UnderwayKept DEF SameTickets, redisVars
  <2>. QED
    BY <1>3, <2>1, <2>2, <2>3 DEF CompensateIn, Stage2Compensate, Stage3Compensate, Compensate
<1>4. CASE AbortSweep \/ AbortProcess
  BY <1>4, UnderwayKept DEF AbortSweep, AbortProcess, pgVars, redisVars, apiVars, workVars,
     SameTickets
<1>5. CASE Exit
  <2>1. UNCHANGED <<stage, status, qty, revertedMsgs, revertedOrders, stream>>
    BY <1>5 DEF Exit, StartAgain, Restart, pgVars, redisVars, workVars
  <2>2. \A p \in Orders : api'[p] = api[p]
    BY <1>5 DEF Exit, StartAgain, Restart, Drained
  <2>. QED
    BY <2>1, <2>2, UnderwayKept DEF SameTickets
<1>. QED
  BY <1>1, <1>2, <1>3, <1>4, <1>5

\* Whose process is gone is on the way no longer.
LEMMA RestartLoses ==
    ASSUME StageTypeInv, stage # 1, Restart, UNCHANGED stage, WorkersDie \/ UNCHANGED workVars
    PROVE  FewerTickets
<1>1. UNCHANGED <<stage, status, qty, revertedMsgs, revertedOrders, stream>>
  BY DEF Restart, WorkersDie, pgVars, redisVars, workVars
<1>2. \A p \in Orders : \A s \in {"writing", "reverting", "publishing", "accepted"} :
          api'[p] = s => api[p] = s
  BY DEF Restart
<1>3. Underway' \subseteq Underway
  BY <1>1, <1>2 DEF Underway, OnTheWay, R!Ids
<1>4. qty' <= qty
  BY <1>1 DEF StageTypeInv
<1>. QED
  BY <1>3, <1>4 DEF FewerTickets

\* The script takes the tickets of an order that has none, or takes them for
\* nobody: then a call failed, or the amount is no int64.
LEMMA DeductMoves ==
    ASSUME BaseInv, NEW o \in Orders, NEW next \in {"writing", "publishing"}, stage \in {2, 5},
           status[o] = "absent", o \notin revertedOrders,
           DeductThen(o, next), UNCHANGED <<stage, workVars>>
    PROVE  SameTickets \/ (FewerTickets /\ (budget' = budget - 1 \/ Oversized # {}))
<1>. USE DEF BaseInv
<1>0. UNCHANGED <<stage, status, revertedMsgs, revertedOrders, stream>>
  BY DEF DeductThen, pgVars, workVars
<1>1. api[o] \in {"new", "retrying"} /\ o \notin Underway
  BY DEF DeductThen, Underway, OnTheWay
<1>2. \/ /\ qty' = qty - QuantityOf[o] /\ QuantityOf[o] <= qty
         /\ \/ Answer(o, next)
            \/ /\ Answer(o, "failed") \/ UNCHANGED api
               /\ budget' = budget - 1 \/ Oversized # {}
      \/ /\ UNCHANGED qty
         /\ \E a \in {"sold_out", "repairing", "failed"} : Answer(o, a)
  BY QuantityIsNat DEF DeductThen, DeductOnly, DeductSoldOut, Fault, StageTypeInv
<1>3. CASE Answer(o, next)
  <2>1. Underway' = Underway \cup {o}
    BY <1>0, <1>1, <1>3 DEF Underway, OnTheWay, Answer, StageTypeInv
  <2>2. qty' = qty - QuantityOf[o]
    BY <1>1, <1>2, <1>3 DEF Answer, StageTypeInv
  <2>. QED
    BY <1>1, <2>1, <2>2 DEF SameTickets
<1>4. CASE \E a \in {"sold_out", "repairing", "failed"} : Answer(o, a)
  <2>1. Underway' = Underway
    BY <1>0, <1>1, <1>4, UnderwayKept DEF Answer, StageTypeInv
  <2>2. qty' \in Nat /\ qty' <= qty
    BY <1>2, QuantityIsNat DEF StageTypeInv
  <2>3. UNCHANGED qty \/ budget' = budget - 1 \/ Oversized # {}
    BY <1>1, <1>2, <1>4 DEF Answer, StageTypeInv
  <2>. QED
    BY <2>1, <2>2, <2>3 DEF SameTickets, FewerTickets
<1>5. CASE qty' = qty - QuantityOf[o] /\ QuantityOf[o] <= qty /\ UNCHANGED api
           /\ (budget' = budget - 1 \/ Oversized # {})
  <2>1. Underway' = Underway
    BY <1>0, <1>5, UnderwayKept
  <2>2. qty' <= qty
    BY <1>5, QuantityIsNat DEF StageTypeInv
  <2>. QED
    BY <1>5, <2>1, <2>2 DEF FewerTickets
<1>. QED
  BY <1>2, <1>3, <1>4, <1>5

\* Stage 2: every step keeps the tickets together, or loses some where something
\* fails.
LEMMA Stage2Moves ==
    ASSUME BaseInv, stage = 2, [ServerNext]_serverVars
    PROVE  \/ SameTickets
           \/ FewerTickets /\ (budget' = budget - 1 \/ life' = "cut" \/ Oversized # {})
<1>. USE DEF BaseInv
<1>1. ASSUME NEW o \in Orders, BookIn(o), UNCHANGED stage
      PROVE  SameTickets \/ (FewerTickets /\ (budget' = budget - 1 \/ Oversized # {}))
  <2>0. Stage2Book(o) /\ UNCHANGED workVars /\ stage # 1
    BY <1>1 DEF BookIn
  <2>1. CASE DeductSync(o)
    <3>1. status[o] = "absent" /\ o \notin revertedOrders
      BY <2>1 DEF DeductSync, DeductThen, InsertInv
    <3>. QED
      BY <1>1, <2>0, <2>1, <3>1, DeductMoves DEF DeductSync
  <2>2. CASE RepairMetadata(o)
    <3>1. /\ UNCHANGED <<stage, status, qty, revertedMsgs, revertedOrders, stream>>
          /\ api[o] = "repairing"
          /\ \E a \in {"retrying", "failed"} : api' = [api EXCEPT ![o] = a]
      BY <1>1, <2>0, <2>2 DEF RepairMetadata, pgVars, redisVars, workVars, Answer
    <3>. QED
      BY <2>0, <3>1, UnderwayKept DEF SameTickets, StageTypeInv
  <2>3. CASE InsertOrder(o)
    <3>1. /\ UNCHANGED <<stage, qty, revertedMsgs, revertedOrders, stream>>
          /\ api[o] = "writing" /\ status[o] = "absent" /\ o \notin revertedOrders
          /\ \E a \in {"accepted", "reverting"} : api' = [api EXCEPT ![o] = a]
          /\ status' \in {status, [status EXCEPT ![o] = "awaiting_payment"]}
      BY <1>1, <2>0, <2>3 DEF InsertOrder, pgVars, redisVars, workVars, Answer, InsertInv
    <3>2. Underway' = Underway
      BY <2>0, <3>1 DEF Underway, OnTheWay, StageTypeInv
    <3>. QED
      BY <3>1, <3>2 DEF SameTickets
  <2>4. CASE RevertAfterFailure(o)
    <3>0. /\ UNCHANGED <<stage, status, stream>>
          /\ api[o] = "reverting" /\ api' = [api EXCEPT ![o] = "failed"]
          /\ \/ RevertOrder(o, QuantityOf[o])
             \/ UNCHANGED redisVars /\ budget' = budget - 1
      BY <1>1, <2>0, <2>4 DEF RevertAfterFailure, pgVars, workVars, Answer, Fault
    <3>1. CASE RevertOrder(o, QuantityOf[o])
      <4>1. Underway' = Underway \ {o}
        BY <2>0, <3>0, <3>1 DEF Underway, OnTheWay, RevertOrder, StageTypeInv
      <4>2. o \in Underway <=> o \notin revertedOrders
        BY <2>0, <3>0 DEF Underway, OnTheWay
      <4>3. qty' = IF o \in revertedOrders THEN qty ELSE qty + QuantityOf[o]
        BY <3>1 DEF RevertOrder
      <4>. QED
        BY <4>1, <4>2, <4>3 DEF SameTickets
    <3>2. CASE UNCHANGED redisVars /\ budget' = budget - 1
      <4>1. Underway' \subseteq Underway
        BY <2>0, <3>0, <3>2 DEF Underway, OnTheWay, redisVars, StageTypeInv
      <4>2. qty' <= qty
        BY <3>2 DEF redisVars, StageTypeInv
      <4>. QED
        BY <3>2, <4>1, <4>2 DEF FewerTickets
    <3>. QED
      BY <3>0, <3>1, <3>2
  <2>. QED
    BY <2>0, <2>1, <2>2, <2>3, <2>4 DEF Stage2Book
<1>2. CASE /\ Restart
           /\ WorkersDie \/ UNCHANGED workVars
           /\ UNCHANGED <<stage, eventVars>>
           /\ \/ StartAgain("cut")
              \/ Fault("crash") /\ UNCHANGED lifeVars
  BY <1>2, RestartLoses DEF StartAgain, Fault
<1>3. ~ (ConsumeIn /\ Served /\ UNCHANGED stage)
  BY DEF ConsumeIn
<1>. QED
  BY <1>1, <1>2, <1>3, ServerStep, SharedMoves

\* Whatever fails in Stage 2 between Redis and Postgres, Redis never offers more
\* than the orders leave that were not given back.
LEMMA RedisAlways == ServerSpec => []RedisInv
<1>1. ServerInit => RedisInv
  <2>. SUFFICES ASSUME ServerInit, stage = 2 PROVE qty + Cardinality(Tickets(Underway)) <= TotalTickets
    BY DEF RedisInv
  <2>1. Underway = {}
    BY DEF ServerInit, StagesInit, PgInit, Underway, OnTheWay
  <2>2. Tickets({}) = {}
    BY DEF Tickets
  <2>3. Cardinality(Tickets(Underway)) = 0
    BY <2>1, <2>2, FS_EmptySet
  <2>. QED
    BY <2>3, CatalogAssumption DEF ServerInit, StagesInit, Stage5Init
<1>2. BaseInv /\ BaseInv' /\ RedisInv /\ [ServerNext]_serverVars => RedisInv'
  <2>. SUFFICES ASSUME BaseInv, BaseInv', RedisInv, [ServerNext]_serverVars, stage' = 2
                PROVE  RedisInv'
    BY DEF RedisInv
  <2>1. stage = 2
    BY ServerStep, QuietEffect DEF AbortSweep, AbortProcess
  <2>2. SameTickets \/ FewerTickets
    BY <2>1, Stage2Moves
  <2>3. qty' + Cardinality(Tickets(Underway))' <= qty + Cardinality(Tickets(Underway))
    <3>1. CASE FewerTickets
      BY <3>1, FewerTicketsSum DEF BaseInv
    <3>2. CASE SameTickets
      <4>1. qty \in Nat /\ Cardinality(Tickets(Underway)) \in Nat
        BY TicketsFinite DEF BaseInv, StageTypeInv, Underway
      <4>. QED
        BY <3>2, <4>1, SameTicketsSum DEF BaseInv
    <3>. QED
      BY <2>2, <3>1, <3>2
  <2>4. /\ qty \in Nat /\ Cardinality(Tickets(Underway)) \in Nat
        /\ qty' \in Nat /\ Cardinality(Tickets(Underway'))  \in Nat
    <3>1. Underway \in SUBSET Orders /\ Underway' \in SUBSET Orders
      BY DEF Underway
    <3>. QED
      BY <3>1, TicketsFinite DEF BaseInv, StageTypeInv
  <2>. QED
    BY <2>1, <2>3, <2>4, CatalogAssumption DEF RedisInv
<1>. QED
  BY <1>1, <1>2, BaseAlways, PTL DEF ServerSpec

\* Stage 2 never offers a ticket of an order that was not given back.
THEOREM Stage2NeverOversells == ServerSpec => []RedisNeverOversells
<1>1. ASSUME BaseInv, RedisInv PROVE RedisNeverOversells
  <2>. SUFFICES ASSUME stage = 2
                PROVE  qty + Cardinality(Tickets(Stage2Keeping)) <= TotalTickets
    BY DEF RedisNeverOversells
  <2>1. Stage2Keeping \subseteq Underway /\ Underway \in SUBSET Orders
    BY DEF Stage2Keeping, Underway
  <2>2. Cardinality(Tickets(Stage2Keeping)) <= Cardinality(Tickets(Underway))
    BY <2>1, TicketsMonotone
  <2>3. /\ Cardinality(Tickets(Stage2Keeping)) \in Nat
        /\ Cardinality(Tickets(Underway)) \in Nat
    BY <2>1, TicketsFinite
  <2>. QED
    BY <1>1, <2>2, <2>3, CatalogAssumption DEF BaseInv, StageTypeInv, RedisInv
<1>. QED
  BY <1>1, BaseAlways, RedisAlways, PTL

-----------------------------------------------------------------------------
(* A stop in order loses no ticket *)

\* Each failure uses up one of those that may still happen.
LEMMA BudgetStep ==
    ASSUME LifeInv, [ServerNext]_serverVars
    PROVE  \/ UNCHANGED budget
           \/ budget' = budget - 1 /\ budget > 0
<1>. USE DEF Fault
<1>1. ASSUME NEW o \in Orders, BookIn(o) PROVE UNCHANGED budget \/ (budget' = budget - 1 /\ budget > 0)
  BY <1>1 DEF BookIn, Stage1Book, LockTicketType, CommitBooking, Stage2Book, DeductSync, DeductThen,
     RepairMetadata, InsertOrder, RevertAfterFailure, Stage3Book, R!Api, R!Deduct, R!RepairMetadata,
     R!Fault, Api, Deduct, Publish, RevertPublish
<1>2. ASSUME NEW o \in Orders, PayIntent(o) \/ StartConfirm(o) \/ Confirm(o)
      PROVE  UNCHANGED budget \/ (budget' = budget - 1 /\ budget > 0)
  BY <1>2 DEF PayIntent, StartConfirm, Confirm
<1>3. ASSUME NEW a \in Compensators, CompensateIn(a)
      PROVE  UNCHANGED budget \/ (budget' = budget - 1 /\ budget > 0)
  BY <1>3 DEF CompensateIn, Stage1Compensate, Stage2Compensate, Stage3Compensate, Compensate, Lock,
     RevertLocked, ReleaseStage1, ReleaseStage2, CommitRelease
<1>4. ASSUME NEW w \in Workers, R!Work(w)
      PROVE  UNCHANGED budget \/ (budget' = budget - 1 /\ budget > 0)
  BY <1>4 DEF R!Work, R!Start, R!ReadPending, R!ReadNew, R!Process, R!Revert, R!DeadLetter,
     R!Ack, R!Fault
<1>5. CASE ConsumeIn
  BY <1>4, <1>5 DEF ConsumeIn, Stage3Work, Consume, Fetch, Process, RevertLeaked, Commit
<1>6. CASE Quiet
  BY <1>6 DEF Quiet, CreateEvent, Elapse, Clock, PassDeadline, PassGrace, ListOverdue,
     ExpireMetadata,
     EvictMetadata, AskToStop, StopOther, serverVars, syncVars, vars
<1>7. CASE AbortSweep \/ AbortProcess
  BY <1>7 DEF AbortSweep, AbortProcess
<1>8. CASE StartAgain("again") \/ StartAgain("cut") \/ Fault("crash")
  BY <1>8 DEF StartAgain
<1>. QED
  BY <1>1, <1>2, <1>3, <1>5, <1>6, <1>7, <1>8, ServerStep

\* How far the process has come in its life.
LEMMA LifeStep ==
    ASSUME [ServerNext]_serverVars
    PROVE  \/ UNCHANGED lifeVars
           \/ UNCHANGED life /\ UNCHANGED budget /\ StopOther
           \/ AskToStop /\ stage' = stage
           \/ Exit
           \/ StartAgain("cut")
BY ServerStep DEF Quiet, CreateEvent, Elapse, ExpireMetadata, StopOther, Served, AbortSweep,
   AbortProcess,
   serverVars, lifeVars, AskToStop, syncVars, vars

\* What a process may be asked, and when.
LEMMA LifeNext == LifeInv /\ [ServerNext]_serverVars => LifeInv'
<1>. SUFFICES ASSUME LifeInv, [ServerNext]_serverVars PROVE LifeInv'
  OBVIOUS
<1>1. budget' \in 0..MaxFaults /\ budget' <= budget
  BY BudgetStep, EnvironmentAssumption DEF LifeInv
<1>2. CASE UNCHANGED lifeVars
  BY <1>1, <1>2, EnvironmentAssumption DEF LifeInv, lifeVars
<1>3. CASE UNCHANGED life /\ StopOther
  BY <1>1, <1>3, EnvironmentAssumption DEF LifeInv, StopOther
<1>4. CASE AskToStop
  BY <1>1, <1>4, EnvironmentAssumption DEF LifeInv, AskToStop, Fault
<1>5. CASE StartAgain("again") \/ StartAgain("cut")
  BY <1>1, <1>5, EnvironmentAssumption DEF LifeInv, StartAgain
<1>. QED
  BY <1>2, <1>3, <1>4, <1>5, LifeStep DEF Exit

\* Where nothing but the stop has gone wrong, nothing had before.
LEMMA UndisturbedStep ==
    ASSUME LifeInv, [ServerNext]_serverVars, stage' = stage, Undisturbed'
    PROVE  /\ Undisturbed
           /\ AskToStop \/ (UNCHANGED budget /\ life' # "cut")
           /\ stage = 3 => ~AskToStop /\ life = "up" /\ life' = "up"
<1>1. budget \in Nat /\ MaxFaults \in Nat /\ budget <= MaxFaults
      /\ (life # "up" => budget < MaxFaults)
  BY EnvironmentAssumption DEF LifeInv
<1>2. UNCHANGED budget \/ budget' = budget - 1
  BY BudgetStep
<1>3. CASE UNCHANGED life
  BY <1>1, <1>2, <1>3 DEF Undisturbed, AskToStop
<1>4. CASE AskToStop
  BY <1>1, <1>4 DEF Undisturbed, AskToStop, Fault
<1>5. CASE StartAgain("again") \/ StartAgain("cut")
  BY <1>1, <1>5 DEF Undisturbed, StartAgain
<1>. QED
  BY <1>3, <1>4, <1>5, LifeStep DEF Exit, lifeVars

\* What compensation, payment and the clock leave of the work of Stage 3.
LEMMA WorkKept ==
    ASSUME StageTypeInv, OneMessage, Batches, Delivered,
           UNCHANGED <<api, stream, batch, pel, cursor, step, mode, revertedMsgs>>,
           \A p \in Orders : (status'[p] = "absent") <=> (status[p] = "absent"),
           \A p \in revertedOrders' : p \in revertedOrders \/ status[p] # "absent"
    PROVE  (OneMessage /\ Batches /\ Delivered)'
<1>0. \A m \in R!Ids : stream[m] \in Orders
  BY DEF StageTypeInv, R!Ids
<1>1. OneMessage'
  BY <1>0 DEF OneMessage, R!Ids, StageTypeInv
<1>2. \A m \in R!Ids : Done(m)' <=> Done(m)
  BY <1>0 DEF Done
<1>3. \A w \in Workers : batch[w] \subseteq R!Ids
  BY DEF StageTypeInv, R!Ids
<1>4. Batches'
  BY <1>2, <1>3 DEF Batches, R!Current
<1>5. Delivered'
  BY <1>0, <1>2 DEF Delivered, R!Ids
<1>. QED
  BY <1>1, <1>4, <1>5

\* Stage 3: the request that is accepted queues the only message of its order.
LEMMA BookKeepsWork ==
    ASSUME BaseInv, LifeInv, OneMessage, Batches, Delivered, NEW o \in Orders, R!Api(o),
           UNCHANGED budget, Oversized = {}
    PROVE  (OneMessage /\ Batches /\ Delivered)'
<1>. USE DEF BaseInv
<1>0. UNCHANGED <<status, revertedOrders, revertedMsgs, batch, pel, cursor, mode, step>>
  BY DEF R!Api, R!Deduct, R!RepairMetadata, R!queueVars, R!workerVars, R!pgVars, R!redisVars
<1>1. /\ api[o] \in {"new", "repairing", "retrying"}
      /\ \/ /\ stream' = Append(stream, o) /\ api' = [api EXCEPT ![o] = "accepted"]
         \/ /\ stream' = stream
            /\ \E a \in {"sold_out", "repairing", "retrying", "failed"} : api' = [api EXCEPT ![o] = a]
  BY DEF R!Api, R!Deduct, R!DeductAndQueue, R!RepairMetadata, R!queueVars, R!Answer, R!Fault,
     LifeInv,
         StageTypeInv
<1>t. stream \in Seq(Orders) /\ Len(stream) \in Nat /\ \A m \in R!Ids : stream[m] \in Orders
  BY DEF StageTypeInv, R!Ids
<1>2. CASE stream' = stream
  <2>1. R!Ids' = R!Ids /\ UNCHANGED stream
    BY <1>2 DEF R!Ids
  <2>2. \A p \in Orders : api'[p] \in {"new", "repairing", "retrying"}
                            => api[p] \in {"new", "repairing", "retrying"}
    BY <1>1 DEF StageTypeInv
  <2>3. OneMessage'
    BY <1>0, <2>1, <2>2 DEF OneMessage
  <2>4. \A m \in R!Ids : Done(m)' <=> Done(m)
    BY <1>0, <2>1 DEF Done
  <2>5. \A w \in Workers : batch[w] \subseteq R!Ids
    BY DEF StageTypeInv, R!Ids
  <2>. QED
    BY <1>0, <2>1, <2>3, <2>4, <2>5 DEF Batches, Delivered, R!Current
<1>3. CASE stream' = Append(stream, o) /\ api' = [api EXCEPT ![o] = "accepted"]
  <2>1. /\ R!Ids' = R!Ids \cup {Len(stream) + 1} /\ Len(stream) + 1 \notin R!Ids
        /\ \A m \in R!Ids : stream'[m] = stream[m]
        /\ stream'[Len(stream) + 1] = o
    BY <1>3, <1>t DEF R!Ids
  <2>2. \A m \in R!Ids : stream[m] # o
    BY <1>1 DEF OneMessage
  <2>3. status[o] = "absent" /\ o \notin revertedOrders
    BY <2>2 DEF OneMessage
  <2>4. OneMessage'
    <3>1. \A p \in Orders : api'[p] \in {"new", "repairing", "retrying"}
                              => p # o /\ api[p] \in {"new", "repairing", "retrying"}
      BY <1>3 DEF StageTypeInv
    <3>2. \A p \in Orders : status[p] # "absent" => \E m \in R!Ids : stream'[m] = p
      BY <2>1 DEF OneMessage
    <3>3. \A m, k \in R!Ids' : stream'[m] = stream'[k] => m = k
      BY <2>1, <2>2 DEF OneMessage
    <3>4. \A p \in Orders : api'[p] \in {"new", "repairing", "retrying"}
                              => \A m \in R!Ids' : stream'[m] # p
      BY <2>1, <3>1 DEF OneMessage
    <3>. QED
      BY <1>0, <2>1, <3>2, <3>3, <3>4 DEF OneMessage
  <2>5. \A m \in R!Ids : Done(m)' <=> Done(m)
    BY <1>0, <2>1 DEF Done
  <2>6. \A m \in R!Ids' \ R!Ids : stream'[m] = o /\ ~Done(m)'
    BY <1>0, <2>1, <2>3 DEF Done, Delivered
  <2>7. \A w \in Workers : batch[w] \subseteq R!Ids
    BY DEF StageTypeInv, R!Ids
  <2>8. Batches'
    BY <1>0, <2>5, <2>7 DEF Batches, R!Current
  <2>9. Delivered'
    <3>1. \A m \in R!Ids' \ R!Ids : cursor < m
      BY <1>t, <2>1 DEF StageTypeInv
    <3>2. \A m \in R!Ids :
              /\ m <= cursor => Done(m)' \/ \E w \in Workers : m \in batch[w]
              /\ cursor < m => ~Done(m)'
              /\ m \in revertedMsgs => status[stream'[m]] = "absent"
      BY <2>1, <2>5 DEF Delivered
    <3>3. \A m \in R!Ids' \ R!Ids : ~ (m <= cursor)
      BY <1>t, <2>1 DEF StageTypeInv
    <3>. QED
      BY <1>0, <2>1, <2>3, <2>6, <3>1, <3>2, <3>3 DEF Delivered
  <2>. QED
    BY <2>4, <2>8, <2>9
<1>. QED
  BY <1>1, <1>2, <1>3

\* Stage 3: a worker that begins, finds its list empty, tries again, gives up or
\* has dead-lettered changes nothing but what it does next.
LEMMA NextKeepsWork ==
    ASSUME BaseInv, OneMessage, Batches, Delivered, NEW w \in Workers,
           UNCHANGED <<api, status, revertedOrders, revertedMsgs, stream, cursor, batch, pel>>,
           mode' = [mode EXCEPT ![w] = mode'[w]], mode'[w] \in R!Modes,
           step' = [step EXCEPT ![w] = step'[w]], step'[w] \in R!Steps,
           mode'[w] # "subscribed" => mode[w] # "subscribed",
           batch[w] = {} \/ (step'[w] \in {"dlq", "ack"} <=> step[w] \in {"dlq", "ack"})
    PROVE  (OneMessage /\ Batches /\ Delivered)'
<1>1. OneMessage' /\ Delivered'
  BY DEF OneMessage, Delivered, Done, R!Ids
<1>2. mode' \in [Workers -> R!Modes] /\ step' \in [Workers -> R!Steps]
  BY DEF Batches
<1>3. \A m : Done(m)' <=> Done(m)
  BY DEF Done
<1>4. \A v \in Workers : v # w => mode'[v] = mode[v] /\ step'[v] = step[v]
  BY DEF Batches
<1>5. Batches'
  BY <1>2, <1>3, <1>4 DEF Batches, R!Current
<1>. QED
  BY <1>1, <1>5

\* Stage 3: the current message becomes an order, or is given back.
LEMMA DoneKeepsWork ==
    ASSUME BaseInv, OneMessage, Batches, Delivered, NEW w \in Workers,
           UNCHANGED <<api, revertedOrders, stream, cursor, batch, pel, mode>>,
           batch[w] # {}, step[w] \notin {"dlq", "ack"},
           \/ /\ status' = [status EXCEPT ![stream[R!Current(w)]] = "awaiting_payment"]
              /\ step' = [step EXCEPT ![w] = "ack"]
              /\ UNCHANGED revertedMsgs
           \/ /\ revertedMsgs' = revertedMsgs \cup {R!Current(w)}
              /\ step' = [step EXCEPT ![w] = "dlq"]
              /\ UNCHANGED status
    PROVE  (OneMessage /\ Batches /\ Delivered)'
<1>. USE DEF BaseInv
<1>. DEFINE c == R!Current(w)
<1>1. c \in batch[w] /\ c \in R!Ids /\ stream[c] \in Orders
  BY CurrentIsRead DEF R!Ids, StageTypeInv
<1>2. c <= cursor /\ ~Done(c)
  BY <1>1 DEF Batches
<1>3. \A m \in R!Ids : stream[m] \in Orders
  BY DEF StageTypeInv, R!Ids
<1>4. status[stream[c]] = "absent" /\ c \notin revertedMsgs
  BY <1>2 DEF Done
<1>5. PICK k \in R!Ids : k = c
  BY <1>1
<1>. HIDE DEF c
<1>6. \A m \in R!Ids : Done(m)' <=> (Done(m) \/ m = k)
  <2>1. CASE status' = [status EXCEPT ![stream[c]] = "awaiting_payment"] /\ UNCHANGED revertedMsgs
    BY <1>1, <1>3, <1>5, <2>1 DEF Done, OneMessage, StageTypeInv
  <2>2. CASE revertedMsgs' = revertedMsgs \cup {c} /\ UNCHANGED status
    BY <1>5, <2>2 DEF Done
  <2>. QED
    BY <2>1, <2>2 DEF c
<1>7. OneMessage'
  <2>1. \A p \in Orders : status'[p] # "absent" => status[p] # "absent" \/ p = stream[k]
    BY <1>1, <1>5 DEF StageTypeInv, c
  <2>2. \A p \in Orders : status[p] # "absent" => status'[p] # "absent"
    BY <1>1, <1>5 DEF StageTypeInv, c
  <2>. QED
    BY <2>1, <2>2 DEF OneMessage, R!Ids
<1>8. Delivered'
  <2>1. revertedMsgs' \subseteq R!Ids
    BY <1>1 DEF Delivered, c
  <2>2. ASSUME NEW m \in R!Ids, m \in revertedMsgs' PROVE status'[stream[m]] = "absent"
    <3>1. CASE status' = [status EXCEPT ![stream[c]] = "awaiting_payment"] /\ UNCHANGED revertedMsgs
      <4>1. m # c /\ status[stream[m]] = "absent"
        BY <1>4, <2>2, <3>1 DEF Delivered
      <4>2. stream[m] # stream[c]
        BY <1>1, <4>1 DEF OneMessage
      <4>. QED
        BY <1>1, <1>3, <3>1, <4>1, <4>2 DEF StageTypeInv
    <3>2. CASE revertedMsgs' = revertedMsgs \cup {c} /\ UNCHANGED status
      BY <1>4, <2>2, <3>2 DEF Delivered
    <3>. QED
      BY <3>1, <3>2 DEF c
  <2>3. \A m \in R!Ids : m <= cursor => Done(m)' \/ \E v \in Workers : m \in batch[v]
    BY <1>6 DEF Delivered
  <2>4. \A m \in R!Ids : cursor < m => ~Done(m)'
    <3>1. ~ (cursor < k)
      BY <1>1, <1>2, <1>5 DEF StageTypeInv, R!Ids
    <3>. QED
      BY <1>6, <3>1 DEF Delivered
  <2>. QED
    BY <2>1, <2>2, <2>3, <2>4 DEF Delivered, R!Ids
<1>9. Batches'
  <2>1. mode' \in [Workers -> R!Modes] /\ step' \in [Workers -> R!Steps]
    BY DEF Batches, R!Steps
  <2>2. step'[w] \in {"dlq", "ack"} /\ \A v \in Workers : v # w => step'[v] = step[v]
    BY DEF Batches
  <2>3. \A v \in Workers : batch[v] \subseteq R!Ids /\ R!Current(v)' = R!Current(v)
    BY DEF StageTypeInv, R!Ids, R!Current
  <2>4. \A m \in batch[w] : Done(m)' <=> m = R!Current(w)
    BY <1>5, <1>6, <2>3 DEF Batches, c
  <2>5. \A v \in Workers : v # w => k \notin batch[v]
    BY <1>1, <1>5 DEF Batches
  <2>6. \A v \in Workers : v # w =>
            \A m \in batch[v] : Done(m)' <=> m = R!Current(v) /\ step'[v] \in {"dlq", "ack"}
    BY <1>6, <2>2, <2>3, <2>5 DEF Batches
  <2>7. \A v \in Workers : \A m \in batch[v] :
            Done(m)' <=> m = R!Current(v)' /\ step'[v] \in {"dlq", "ack"}
    BY <2>2, <2>3, <2>4, <2>6
  <2>. QED
    BY <2>1, <2>7 DEF Batches
<1>. QED
  BY <1>7, <1>8, <1>9

\* Stage 3: a worker that takes up the messages after the cursor, or those that
\* remain of its own when the current one is done.
LEMMA TakeUpKeepsWork ==
    ASSUME BaseInv, OneMessage, Batches, Delivered, NEW w \in Workers, NEW S, R!TakeUp(w, S),
           UNCHANGED <<api, status, revertedOrders, revertedMsgs, stream, mode>>,
           mode[w] = "subscribed",
           cursor' \in 0..Len(stream), pel' = [pel EXCEPT ![w] = pel'[w]],
           \/ /\ batch[w] = {} /\ S = (cursor + 1)..cursor' /\ cursor <= cursor'
           \/ /\ batch[w] # {} /\ S = batch[w] \ {R!Current(w)} /\ step[w] = "ack"
              /\ UNCHANGED cursor
    PROVE  (OneMessage /\ Batches /\ Delivered)'
<1>. USE DEF BaseInv
<1>c. cursor \in Nat /\ cursor' \in Nat /\ Len(stream) \in Nat /\ cursor <= cursor' /\ cursor' <= Len(stream)
  BY DEF StageTypeInv
<1>1. OneMessage'
  BY DEF OneMessage, R!Ids
<1>2. \A m : Done(m)' <=> Done(m)
  BY DEF Done
<1>3. \A v \in Workers : batch[v] \subseteq R!Ids /\ \A m \in batch[v] : m \in Nat /\ m <= cursor
  BY DEF StageTypeInv, R!Ids, Batches
<1>4. /\ batch'[w] = S /\ step'[w] = "process"
      /\ \A v \in Workers : v # w => batch'[v] = batch[v] /\ step'[v] = step[v] /\ pel'[v] = pel[v]
      /\ step' \in [Workers -> R!Steps]
  BY DEF R!TakeUp, StageTypeInv, Batches, R!Steps
<1>5. \A m \in S : m \in R!Ids /\ m <= cursor' /\ ~Done(m)
  <2>1. CASE batch[w] = {} /\ S = (cursor + 1)..cursor'
    <3>1. \A m \in S : m \in R!Ids /\ m <= cursor' /\ cursor < m
      BY <1>c, <2>1 DEF R!Ids
    <3>. QED
      BY <3>1 DEF Delivered
  <2>2. CASE S = batch[w] \ {R!Current(w)} /\ UNCHANGED cursor
    BY <1>3, <2>2 DEF Batches
  <2>. QED
    BY <2>1, <2>2
<1>6. \A v \in Workers : v # w => S \cap batch[v] = {}
  <2>1. CASE S = (cursor + 1)..cursor'
    BY <1>c, <1>3, <2>1
  <2>2. CASE S = batch[w] \ {R!Current(w)}
    BY <2>2 DEF Batches
  <2>. QED
    BY <2>1, <2>2
<1>7. Batches'
  <2>1. \A v \in Workers : \A m \in batch'[v] :
            m <= cursor' /\ (Done(m)' <=> m = R!Current(v)' /\ step'[v] \in {"dlq", "ack"})
    <3>1. \A m \in batch'[w] :
              m <= cursor' /\ (Done(m)' <=> m = R!Current(w)' /\ step'[w] \in {"dlq", "ack"})
      BY <1>2, <1>4, <1>5
    <3>2. ASSUME NEW v \in Workers, v # w
          PROVE  \A m \in batch'[v] :
                     m <= cursor' /\ (Done(m)' <=> m = R!Current(v)' /\ step'[v] \in {"dlq", "ack"})
      <4>1. R!Current(v)' = R!Current(v) /\ batch'[v] = batch[v] /\ step'[v] = step[v]
        BY <1>4, <3>2 DEF R!Current
      <4>2. \A m \in batch[v] : m <= cursor'
        BY <1>c, <1>3
      <4>. QED
        BY <1>2, <4>1, <4>2 DEF Batches
    <3>. QED
      BY <3>1, <3>2
  <2>2. \A v \in Workers : mode'[v] # "subscribed" => batch'[v] = {} /\ pel'[v] = {}
    BY <1>4 DEF Batches
  <2>3. \A u, v \in Workers : v # u => batch'[u] \cap batch'[v] = {}
    BY <1>4, <1>6 DEF Batches
  <2>. QED
    BY <1>4, <2>1, <2>2, <2>3 DEF Batches
<1>8. Delivered'
  <2>1. ASSUME NEW m \in R!Ids, m <= cursor' PROVE Done(m)' \/ \E v \in Workers : m \in batch'[v]
    <3>1. CASE batch[w] = {} /\ S = (cursor + 1)..cursor'
      <4>1. m \in S \/ m <= cursor
        BY <1>c, <2>1, <3>1 DEF R!Ids
      <4>. QED
        BY <1>2, <1>4, <3>1, <4>1 DEF Delivered
    <3>2. CASE /\ batch[w] # {} /\ S = batch[w] \ {R!Current(w)} /\ step[w] = "ack"
               /\ UNCHANGED cursor
      <4>1. R!Current(w) \in batch[w]
        BY <3>2, CurrentIsRead
      <4>2. Done(R!Current(w))
        BY <3>2, <4>1 DEF Batches
      <4>3. Done(m) \/ \E v \in Workers : m \in batch[v]
        BY <2>1, <3>2 DEF Delivered
      <4>4. \A v \in Workers : m \in batch[v] => m \in batch'[v] \/ m = R!Current(w)
        BY <1>4, <3>2
      <4>. QED
        BY <1>2, <4>2, <4>3, <4>4
    <3>. QED
      BY <3>1, <3>2
  <2>2. \A m \in R!Ids : cursor' < m => ~Done(m)'
    BY <1>2, <1>c DEF Delivered, R!Ids
  <2>. QED
    BY <2>1, <2>2 DEF Delivered, R!Ids
<1>. QED
  BY <1>1, <1>7, <1>8

\* Stage 3: a worker, where no call fails.
LEMMA WorkerKeepsWork ==
    ASSUME BaseInv, LifeInv, OneMessage, Batches, Delivered, NEW w \in Workers, R!Work(w),
           UNCHANGED budget
    PROVE  (OneMessage /\ Batches /\ Delivered)'
<1>. USE DEF BaseInv
<1>0. \A kind : ~R!Fault(kind)
  BY DEF R!Fault, LifeInv
<1>w. UNCHANGED <<api, revertedOrders, stream>>
  BY WorkEffect
<1>f. /\ mode = [mode EXCEPT ![w] = mode[w]]
      /\ step = [step EXCEPT ![w] = step[w]]
      /\ batch = [batch EXCEPT ![w] = batch[w]]
      /\ pel = [pel EXCEPT ![w] = pel[w]]
  BY DEF Batches, StageTypeInv
<1>1. CASE R!Start(w)
  <2>1. batch[w] = {}
    BY <1>1 DEF R!Start, Batches
  <2>2. /\ UNCHANGED <<status, revertedMsgs, cursor, batch, pel>>
        /\ mode' = [mode EXCEPT ![w] = "recovering"]
        /\ step' = [step EXCEPT ![w] = "process"]
        /\ mode[w] = "down"
    BY <1>1, <1>f, <2>1 DEF R!Start, R!Read, R!TakeUp, R!pgVars, R!redisVars, R!queueVars
  <2>. QED
    BY <1>w, <2>1, <2>2, NextKeepsWork DEF Batches, R!Modes, R!Steps
<1>2. CASE R!ReadPending(w)
  <2>1. batch[w] = {} /\ pel[w] = {} /\ mode[w] = "recovering"
    BY <1>2 DEF R!ReadPending, Batches
  <2>2. /\ UNCHANGED <<status, revertedMsgs, cursor, batch, pel, step>>
        /\ mode' = [mode EXCEPT ![w] = "subscribed"]
    BY <1>2, <2>1 DEF R!ReadPending, R!pgVars, R!redisVars, R!queueVars
  <2>. QED
    BY <1>w, <1>f, <2>1, <2>2, NextKeepsWork DEF Batches, R!Modes
<1>3. CASE R!ReadNew(w)
  <2>. DEFINE new == R!Lowest((cursor + 1)..Len(stream))
  <2>1. /\ new = (cursor + 1)..(cursor + Cardinality(new))
        /\ Cardinality(new) \in Nat
        /\ cursor + Cardinality(new) <= Len(stream)
    BY <1>3, ReadNewIsNext DEF R!ReadNew
  <2>2. /\ R!TakeUp(w, new) /\ cursor' = cursor + Cardinality(new)
        /\ pel' = [pel EXCEPT ![w] = @ \cup new]
        /\ batch[w] = {} /\ mode[w] = "subscribed"
        /\ UNCHANGED <<status, revertedMsgs, mode>>
    BY <1>3 DEF R!ReadNew, R!Read, R!Cardinality, Cardinality, R!pgVars, R!redisVars
  <2>. HIDE DEF new
  <2>3. cursor \in Nat /\ Len(stream) \in Nat
    BY DEF StageTypeInv
  <2>4. cursor' \in 0..Len(stream) /\ cursor <= cursor' /\ new = (cursor + 1)..cursor'
    BY <2>1, <2>2, <2>3
  <2>5. pel' = [pel EXCEPT ![w] = pel'[w]]
    BY <2>2 DEF StageTypeInv
  <2>. QED
    BY <1>w, <2>2, <2>4, <2>5, TakeUpKeepsWork
<1>4. CASE R!Process(w)
  <2>0. /\ UNCHANGED <<revertedMsgs, cursor, batch, pel, mode>>
        /\ batch[w] # {} /\ step[w] = "process"
    BY <1>4 DEF R!Process, R!Busy, R!redisVars, R!queueVars, R!GiveUp, R!GoTo, R!RetryOrGiveUp
  <2>1. \/ /\ status' = [status EXCEPT ![stream[R!Current(w)]] = "awaiting_payment"]
           /\ step' = [step EXCEPT ![w] = "ack"]
        \/ /\ UNCHANGED status
           /\ step' = step \/ step' = [step EXCEPT ![w] = "revert"]
    BY <1>0, <1>4 DEF R!Process, R!InsertReservation, R!pgVars, R!GiveUp, R!GoTo, R!RetryOrGiveUp
  <2>2. CASE UNCHANGED status /\ (step' = step \/ step' = [step EXCEPT ![w] = "revert"])
    BY <1>w, <1>f, <2>0, <2>2, NextKeepsWork DEF Batches, R!Steps
  <2>. QED
    BY <1>w, <2>0, <2>1, <2>2, DoneKeepsWork
<1>5. CASE R!Revert(w)
  <2>0. /\ UNCHANGED <<status, cursor, batch, pel, mode>>
        /\ batch[w] # {} /\ step[w] = "revert"
        /\ revertedMsgs' = revertedMsgs \cup {R!Current(w)}
        /\ step' = [step EXCEPT ![w] = "dlq"]
    BY <1>0, <1>5 DEF R!Revert, R!Busy, R!RevertMsg, R!GoTo, R!pgVars, R!queueVars
  <2>. QED
    BY <1>w, <2>0, DoneKeepsWork
<1>6. CASE R!DeadLetter(w)
  <2>0. /\ UNCHANGED <<status, revertedMsgs, cursor, batch, pel, mode>>
        /\ step[w] = "dlq"
        /\ step' = [step EXCEPT ![w] = "ack"]
    BY <1>0, <1>6 DEF R!DeadLetter, R!Busy, R!GoTo, R!pgVars, R!redisVars
  <2>. QED
    BY <1>w, <1>f, <2>0, NextKeepsWork DEF Batches, R!Steps
<1>7. CASE R!Ack(w)
  <2>0. /\ UNCHANGED <<status, revertedMsgs, cursor, mode>>
        /\ batch[w] # {} /\ step[w] = "ack"
        /\ R!TakeUp(w, batch[w] \ {R!Current(w)})
        /\ pel' = [pel EXCEPT ![w] = @ \ {R!Current(w)}]
    BY <1>0, <1>7 DEF R!Ack, R!Busy, R!NextMessage, R!pgVars, R!redisVars
  <2>1. pel' = [pel EXCEPT ![w] = pel'[w]]
    BY <2>0 DEF StageTypeInv
  <2>2. mode[w] = "subscribed" /\ cursor' \in 0..Len(stream)
    BY <2>0 DEF Batches, StageTypeInv
  <2>. QED
    BY <1>w, <2>0, <2>1, <2>2, TakeUpKeepsWork
<1>. QED
  BY <1>1, <1>2, <1>3, <1>4, <1>5, <1>6, <1>7 DEF R!Work

\* Stage 3: compensation and payment leave the messages alone, and revert orders
\* that have a row.
LEMMA OthersKeepWork ==
    ASSUME BaseInv, OneMessage, Batches, Delivered, stage = 3,
           \/ Quiet /\ ~AskToStop
           \/ \E o \in Orders :
                 /\ PayIntent(o) \/ StartConfirm(o) \/ Confirm(o)
                 /\ UNCHANGED <<stage, workVars>>
           \/ \E a \in Compensators : CompensateIn(a) /\ UNCHANGED stage
           \/ AbortSweep \/ AbortProcess
    PROVE  (OneMessage /\ Batches /\ Delivered)'
<1>. USE DEF BaseInv
<1>1. CASE Quiet /\ ~AskToStop
  <2>1. UNCHANGED <<api, stream, batch, pel, cursor, step, mode, revertedMsgs, status, revertedOrders>>
    BY <1>1, QuietEffect
  <2>. QED
    BY <2>1, WorkKept
<1>2. ASSUME NEW o \in Orders, PayIntent(o) \/ StartConfirm(o) \/ Confirm(o),
             UNCHANGED <<stage, workVars>>
      PROVE  (OneMessage /\ Batches /\ Delivered)'
  <2>1. /\ UNCHANGED <<api, stream, batch, pel, cursor, step, mode, revertedMsgs, revertedOrders>>
        /\ \A p \in Orders : (status'[p] = "absent") <=> (status[p] = "absent")
    BY <1>2 DEF PayIntent, StartConfirm, Confirm, MarkPaid, pgVars, redisVars, apiVars, workVars,
                StageTypeInv
  <2>. QED
    BY <2>1, WorkKept
<1>3. ASSUME NEW a \in Compensators, CompensateIn(a) PROVE (OneMessage /\ Batches /\ Delivered)'
  <2>1. UNCHANGED <<api, stream, batch, pel, cursor, step, mode>>
    BY <1>3 DEF CompensateIn, Stage3Compensate, Compensate, Lock, RevertLocked, CommitRelease,
                apiVars, workVars
  <2>2. comp[a] # "idle" => job[a] \in Orders /\ status[job[a]] = "awaiting_payment"
    BY DEF StageTypeInv, LocksInv
  <2>3. \/ UNCHANGED <<status, revertedOrders>>
        \/ /\ comp[a] # "idle" /\ UNCHANGED status
           /\ revertedOrders' = revertedOrders \cup {job[a]}
        \/ /\ comp[a] # "idle" /\ UNCHANGED revertedOrders
           /\ status' = [status EXCEPT ![job[a]] = "compensated"]
    BY <1>3 DEF CompensateIn, Stage3Compensate, Compensate, Lock, RevertLocked, CommitRelease,
                RevertOrder, ReleaseOrder, pgVars, redisVars
  <2>4. UNCHANGED revertedMsgs
    BY <1>3 DEF CompensateIn, Stage3Compensate, Compensate, Lock, RevertLocked, CommitRelease,
                RevertOrder, redisVars
  <2>5. /\ \A p \in Orders : (status'[p] = "absent") <=> (status[p] = "absent")
        /\ \A p \in revertedOrders' : p \in revertedOrders \/ status[p] # "absent"
    BY <2>2, <2>3 DEF StageTypeInv
  <2>. QED
    BY <2>1, <2>4, <2>5, WorkKept
<1>4. CASE AbortSweep \/ AbortProcess
  BY <1>4, WorkKept DEF AbortSweep, AbortProcess, pgVars, redisVars, apiVars, workVars
<1>. QED
  BY <1>1, <1>2, <1>3, <1>4

\* Stage 3: the work is done once, as long as nothing fails.
LEMMA WorkNext ==
    ASSUME BaseInv, LifeInv, WorkInv, Oversized = {}, [ServerNext]_serverVars
    PROVE  WorkInv'
<1>. SUFFICES ASSUME Undisturbed', stage' = 3 PROVE (OneMessage /\ Batches /\ Delivered)'
  BY DEF WorkInv
<1>0. stage = 3
  BY ServerStep, QuietEffect DEF AbortSweep, AbortProcess
<1>1. /\ Undisturbed /\ UNCHANGED budget /\ ~AskToStop /\ life = "up" /\ life' = "up"
  BY <1>0, UndisturbedStep
<1>2. OneMessage /\ Batches /\ Delivered
  BY <1>0, <1>1 DEF WorkInv
<1>3. ~ (StartAgain("again") \/ StartAgain("cut") \/ Fault("crash"))
  BY <1>1 DEF StartAgain, Fault, LifeInv
<1>4. ASSUME NEW o \in Orders, BookIn(o) PROVE (OneMessage /\ Batches /\ Delivered)'
  BY <1>0, <1>1, <1>2, <1>4, BookKeepsWork DEF BookIn, Stage3Book
<1>5. CASE ConsumeIn
  BY <1>0, <1>1, <1>2, <1>5, WorkerKeepsWork DEF ConsumeIn, Stage3Work
<1>. QED
  BY <1>0, <1>1, <1>2, <1>3, <1>4, <1>5, ServerStep, OthersKeepWork

\* Stage 3: as long as nothing fails, a message has the tickets it took.
LEMMA Stage3Moves ==
    ASSUME BaseInv, LifeInv, WorkInv, Oversized = {}, [ServerNext]_serverVars,
           stage = 3, Undisturbed'
    PROVE  SameTickets
<1>. USE DEF BaseInv
<1>0. stage' = stage
  BY ServerStep, QuietEffect DEF AbortSweep, AbortProcess
<1>1. /\ Undisturbed /\ UNCHANGED budget /\ ~AskToStop /\ life = "up" /\ life' = "up"
  BY <1>0, UndisturbedStep
<1>2. OneMessage /\ Batches /\ Delivered
  BY <1>1 DEF WorkInv
<1>3. ~ (StartAgain("again") \/ StartAgain("cut") \/ Fault("crash"))
  BY <1>1 DEF StartAgain, Fault, LifeInv
<1>t. stream \in Seq(Orders) /\ Len(stream) \in Nat /\ \A m \in R!Ids : stream[m] \in Orders
  BY DEF StageTypeInv, R!Ids
<1>u. Underway = {p \in Orders \ revertedOrders :
                     status[p] # "absent" \/ \E m \in R!Ids \ revertedMsgs : stream[m] = p}
  BY DEF Underway, OnTheWay
<1>v. Underway' = {p \in Orders \ revertedOrders' :
                     status'[p] # "absent" \/ \E m \in R!Ids' \ revertedMsgs' : stream'[m] = p}
  BY <1>0 DEF Underway, OnTheWay
<1>. HIDE DEF Underway
<1>4. ASSUME NEW o \in Orders, BookIn(o) PROVE SameTickets
  <2>0. UNCHANGED <<status, revertedOrders, revertedMsgs>>
    BY <1>4 DEF BookIn, Stage3Book, R!Api, R!Deduct, R!RepairMetadata, R!pgVars, R!redisVars
  <2>1. \/ /\ api[o] \in {"new", "repairing", "retrying"}
           /\ stream' = Append(stream, o) /\ qty' = qty - QuantityOf[o]
        \/ stream' = stream /\ qty' = qty
    BY <1>1, <1>4 DEF BookIn, Stage3Book, R!Api, R!Deduct, R!DeductAndQueue, R!RepairMetadata,
                      R!queueVars, R!redisVars, R!Fault, LifeInv
  <2>2. CASE stream' = stream /\ qty' = qty
    BY <1>u, <1>v, <2>0, <2>2 DEF SameTickets, R!Ids
  <2>3. CASE /\ api[o] \in {"new", "repairing", "retrying"}
             /\ stream' = Append(stream, o) /\ qty' = qty - QuantityOf[o]
    <3>1. /\ R!Ids' = R!Ids \cup {Len(stream) + 1} /\ Len(stream) + 1 \notin R!Ids
          /\ \A m \in R!Ids : stream'[m] = stream[m]
          /\ stream'[Len(stream) + 1] = o
      BY <1>t, <2>3 DEF R!Ids
    <3>2. Len(stream) + 1 \notin revertedMsgs
      BY <1>2, <3>1 DEF Delivered
    <3>3. \A m \in R!Ids : stream[m] # o
      BY <1>2, <2>3 DEF OneMessage
    <3>4. status[o] = "absent" /\ o \notin revertedOrders
      BY <1>2, <3>3 DEF OneMessage
    <3>5. o \notin Underway /\ Underway' = Underway \cup {o}
      BY <1>u, <1>v, <2>0, <3>1, <3>2, <3>3, <3>4
    <3>. QED
      BY <2>3, <3>5 DEF SameTickets
  <2>. QED
    BY <2>1, <2>2, <2>3
<1>5. ASSUME NEW w \in Workers, R!Work(w) PROVE SameTickets
  <2>0. UNCHANGED <<stream, revertedOrders>>
    BY <1>5, WorkEffect
  <2>1. CASE UNCHANGED <<status, qty, revertedMsgs>>
    BY <1>u, <1>v, <2>0, <2>1 DEF SameTickets, R!Ids
  <2>2. CASE /\ R!Busy(w, "process")
             /\ R!InsertReservation(stream[R!Current(w)])
             /\ UNCHANGED <<qty, revertedMsgs>>
    <3>1. R!Current(w) \in batch[w] /\ R!Current(w) \in R!Ids
      BY <2>2, CurrentIsRead DEF R!Busy, R!Ids
    <3>2. R!Current(w) \notin revertedMsgs
      BY <1>2, <2>2, <3>1 DEF Batches, Done, R!Busy
    <3>3. status' = [status EXCEPT ![stream[R!Current(w)]] = "awaiting_payment"]
      BY <2>2 DEF R!InsertReservation
    <3>4. \A p \in Orders : (status'[p] # "absent") <=> (status[p] # "absent" \/ p = stream[R!Current(w)])
      BY <1>t, <3>1, <3>3 DEF StageTypeInv
    <3>5. Underway' = Underway
      BY <1>u, <1>v, <2>0, <2>2, <3>1, <3>2, <3>4 DEF R!Ids
    <3>. QED
      BY <2>2, <3>5 DEF SameTickets
  <2>3. CASE /\ R!Busy(w, "revert")
             /\ R!RevertMsg(R!Current(w), QuantityOf[stream[R!Current(w)]])
             /\ UNCHANGED status
    <3>. DEFINE m == R!Current(w)
                o == stream[m]
    <3>0. batch[w] # {}
      BY <2>3 DEF R!Busy
    <3>1. m \in batch[w] /\ m \in R!Ids /\ o \in Orders
      BY <1>t, <3>0, CurrentIsRead DEF R!Ids, StageTypeInv
    <3>2. m \notin revertedMsgs /\ status[o] = "absent"
      BY <1>2, <2>3, <3>1 DEF Batches, Done, R!Busy
    <3>3. o \notin revertedOrders /\ \A n \in R!Ids : stream[n] = o => n = m
      BY <1>2, <3>1, <3>2 DEF OneMessage
    <3>4. revertedMsgs' = revertedMsgs \cup {m} /\ qty' = qty + QuantityOf[o]
      BY <2>3, <3>2 DEF R!RevertMsg
    <3>. HIDE DEF m
    <3>5. o \in Underway /\ Underway' = Underway \ {o}
      BY <1>u, <1>v, <2>0, <2>3, <3>1, <3>2, <3>3, <3>4 DEF R!Ids
    <3>. QED
      BY <3>4, <3>5 DEF SameTickets
  <2>. QED
    BY <1>5, <2>1, <2>2, <2>3, WorkEffect
<1>6. CASE ConsumeIn
  BY <1>5, <1>6 DEF ConsumeIn, Stage3Work
<1>. QED
  BY <1>1, <1>3, <1>4, <1>6, ServerStep, SharedMoves

\* Stage 5: what the requests, the rows and the topic say of an order stays in
\* agreement where an order with a row, or with a message, changes.
LEMMA TopicKept ==
    ASSUME StageTypeInv, TopicInv, UNCHANGED topic,
           \A p \in Orders : api'[p] = api[p],
           \A p \in Orders :
               api[p] \in {"new", "repairing", "retrying", "publishing"} =>
                   /\ status'[p] = status[p]
                   /\ p \in revertedOrders' => p \in revertedOrders
    PROVE  TopicInv'
BY DEF TopicInv

\* Stage 5: the request publishes its one message.
LEMMA BookKeepsTopic ==
    ASSUME BaseInv, LifeInv, TopicInv, stage = 5, NEW o \in Orders, Api(o), UNCHANGED budget,
           Oversized = {}
    PROVE  TopicInv'
<1>. USE DEF BaseInv
<1>0. UNCHANGED <<status, revertedOrders>> /\ \A kind : ~Fault(kind)
  BY DEF Api, Deduct, DeductThen, RepairMetadata, Publish, RevertPublish, Refund, pgVars, redisVars,
         Fault, LifeInv, TopicInv
<1>1. \/ /\ UNCHANGED topic /\ api[o] \in {"new", "repairing", "retrying"}
         /\ \E a \in {"repairing", "retrying", "publishing", "sold_out", "failed"} :
                api' = [api EXCEPT ![o] = a]
      \/ /\ api[o] = "publishing" /\ topic' = Append(topic, o)
         /\ api' = [api EXCEPT ![o] = "accepted"]
  BY <1>0 DEF Api, Deduct, DeductThen, RepairMetadata, Publish, RevertPublish, Answer, queueVars,
              TopicInv
<1>2. CASE UNCHANGED topic
  <2>1. /\ api'[o] \in {"repairing", "retrying", "publishing", "sold_out", "failed"}
        /\ \A p \in Orders : p # o => api'[p] = api[p]
        /\ api[o] \in {"new", "repairing", "retrying"}
    BY <1>1, <1>2 DEF StageTypeInv
  <2>. QED
    BY <1>0, <1>2, <2>1 DEF TopicInv
<1>3. CASE topic' = Append(topic, o) /\ api' = [api EXCEPT ![o] = "accepted"]
  <2>1. topic \in Seq(Orders) /\ Len(topic) \in Nat
    BY DEF StageTypeInv
  <2>2. /\ 1..Len(topic') = (1..Len(topic)) \cup {Len(topic) + 1}
        /\ \A m \in 1..Len(topic) : topic'[m] = topic[m]
        /\ topic'[Len(topic) + 1] = o
    BY <1>3, <2>1
  <2>3. \A p \in Orders : api'[p] = IF p = o THEN "accepted" ELSE api[p]
    BY <1>3 DEF StageTypeInv
  <2>4. \A p \in Orders : (\E m \in 1..Len(topic') : topic'[m] = p)
                      <=> (p = o \/ \E m \in 1..Len(topic) : topic[m] = p)
    BY <2>2
  <2>. QED
    BY <1>0, <2>3, <2>4 DEF TopicInv
<1>. QED
  BY <1>1, <1>2, <1>3

\* Stage 5: the messages are published once, and none is forgotten, as long as
\* nothing but the stop goes wrong.
LEMMA PublishNext ==
    ASSUME BaseInv, LifeInv, PublishInv, Oversized = {}, [ServerNext]_serverVars
    PROVE  PublishInv'
<1>. USE DEF BaseInv
<1>. SUFFICES ASSUME Undisturbed', stage' = 5 PROVE LeftInv' /\ TopicInv'
  BY DEF PublishInv
<1>0. stage = 5
  BY ServerStep, QuietEffect DEF AbortSweep, AbortProcess
<1>1. Undisturbed /\ (AskToStop \/ (UNCHANGED budget /\ life' # "cut"))
  BY <1>0, UndisturbedStep
<1>2. LeftInv /\ TopicInv
  BY <1>0, <1>1 DEF PublishInv
<1>f. ASSUME NEW kind, Fault(kind), kind # "stop" PROVE AskToStop
  BY <1>1, <1>f DEF Fault, LifeInv
<1>3. CASE Quiet
  <2>1. UNCHANGED <<status, revertedOrders, api, topic, committed, at, counted, left>>
    BY <1>3, QuietEffect
  <2>2. running' = running \/ ~running'
    BY <1>0, <1>3 DEF Quiet, CreateEvent, Elapse, ExpireMetadata, AskToStop, StopOther, lifeVars,
                      serverVars
  <2>. QED
    BY <1>2, <2>1, <2>2, TopicKept DEF LeftInv
<1>4. ASSUME NEW o \in Orders, BookIn(o), Served, UNCHANGED budget PROVE LeftInv' /\ TopicInv'
  <2>1. Api(o) /\ UNCHANGED lifeVars
    BY <1>0, <1>4 DEF BookIn, Served
  <2>2. UNCHANGED <<committed, at, left>>
    BY <2>1 DEF Api, Deduct, DeductThen, RepairMetadata, Publish, RevertPublish, queueVars
  <2>3. UNCHANGED counted
    BY <1>2, <2>1 DEF Api, Deduct, DeductThen, RepairMetadata, Publish, RevertPublish, TopicInv
  <2>. QED
    BY <1>0, <1>2, <1>4, <2>1, <2>2, <2>3, BookKeepsTopic DEF LeftInv, lifeVars
<1>5. ASSUME NEW o \in Orders, PayIntent(o) \/ StartConfirm(o) \/ Confirm(o), Served
      PROVE  LeftInv' /\ TopicInv'
  <2>1. UNCHANGED <<revertedOrders, api, topic, committed, at, counted, left, running>>
    BY <1>5 DEF PayIntent, StartConfirm, Confirm, redisVars, apiVars, queueVars, Served, lifeVars
  <2>2. \A p \in Orders : status[p] = "absent" => status'[p] = status[p]
    BY <1>5 DEF PayIntent, StartConfirm, Confirm, MarkPaid, pgVars, StageTypeInv
  <2>3. TopicInv'
    BY <1>2, <2>1, <2>2 DEF TopicInv
  <2>. QED
    BY <1>2, <2>1, <2>3 DEF LeftInv
<1>6. ASSUME NEW a \in Compensators, CompensateIn(a), Served PROVE LeftInv' /\ TopicInv'
  <2>1. UNCHANGED <<api, topic, committed, at, counted, left, running>>
    BY <1>0, <1>6 DEF CompensateIn, Compensate, Lock, RevertLocked, CommitRelease, apiVars,
       queueVars,
                      Served, lifeVars
  <2>2. comp[a] # "idle" => job[a] \in Orders /\ status[job[a]] = "awaiting_payment"
    BY DEF StageTypeInv, LocksInv
  <2>3. /\ \/ UNCHANGED status
           \/ comp[a] # "idle" /\ status' = [status EXCEPT ![job[a]] = "compensated"]
        /\ \/ UNCHANGED revertedOrders
           \/ comp[a] # "idle" /\ revertedOrders' = revertedOrders \cup {job[a]}
    BY <1>0, <1>6 DEF CompensateIn, Compensate, Lock, RevertLocked, CommitRelease, RevertOrder,
                      ReleaseOrder, pgVars, redisVars
  <2>4. \A p \in Orders : status[p] = "absent" =>
            status'[p] = status[p] /\ (p \in revertedOrders' => p \in revertedOrders)
    BY <2>2, <2>3 DEF StageTypeInv
  <2>5. TopicInv'
    BY <1>2, <2>1, <2>4 DEF TopicInv
  <2>. QED
    BY <1>2, <2>1, <2>5 DEF LeftInv
<1>7. ASSUME ConsumeIn, Served, UNCHANGED budget PROVE LeftInv' /\ TopicInv'
  <2>0. Consume /\ UNCHANGED lifeVars /\ \A kind : ~Fault(kind)
    BY <1>0, <1>7 DEF ConsumeIn, Served, Fault, LifeInv
  <2>1. left = {}
    <3>1. Fetch => running
      BY <1>7 DEF Fetch, Served, Begins, StageTypeInv
    <3>. QED
      BY <1>2, <2>0, <3>1 DEF LeftInv, Consume, Process, RevertLeaked, Commit
  <2>2. UNCHANGED <<api, topic, counted, left>>
    BY <2>0 DEF Consume, Fetch, Process, RevertLeaked, Commit, apiVars, Skip
  <2>3. LeftInv'
    BY <1>2, <2>1, <2>2 DEF LeftInv
  <2>4. at # "fetch" => fetched \in 1..Len(topic) /\ topic[fetched] \in Orders
    BY DEF StageTypeInv
  <2>5. at # "fetch" => api[topic[fetched]] = "accepted"
    BY <1>2, <2>4 DEF TopicInv
  <2>6. \/ UNCHANGED <<status, revertedOrders>>
        \/ /\ at # "fetch" /\ UNCHANGED revertedOrders
           /\ status' = [status EXCEPT ![topic[fetched]] = "awaiting_payment"]
        \/ /\ at # "fetch" /\ UNCHANGED status
           /\ revertedOrders' = revertedOrders \cup {topic[fetched]}
    BY <2>0 DEF Consume, Fetch, Process, RevertLeaked, Commit, InsertReservation, RevertOrder,
                pgVars, redisVars
  <2>7. \A p \in Orders : api[p] # "accepted" =>
            status'[p] = status[p] /\ (p \in revertedOrders' => p \in revertedOrders)
    BY <2>5, <2>6 DEF StageTypeInv
  <2>. QED
    BY <1>2, <2>2, <2>3, <2>7, TopicKept
<1>8. CASE AbortSweep
  BY <1>2, <1>8, TopicKept DEF AbortSweep, pgVars, redisVars, apiVars, queueVars, lifeVars, LeftInv
<1>9. CASE AbortProcess
  <2>1. /\ UNCHANGED <<status, revertedOrders, api, topic, counted, committed, running>>
        /\ left' = left \cup {fetched} /\ at' = "fetch" /\ ~running
        /\ committed < fetched /\ fetched \in Nat
    BY <1>9 DEF AbortProcess, Leave, pgVars, redisVars, apiVars, lifeVars, StageTypeInv
  <2>. QED
    BY <1>2, <2>1, TopicKept DEF LeftInv
<1>10. CASE Exit
  <2>1. /\ UNCHANGED <<status, revertedOrders, topic, counted>>
        /\ left' = {m \in left : m <= committed}
        /\ \A p \in Orders : api'[p] = api[p]
    BY <1>10 DEF Exit, StartAgain, Restart, ResumeOffset, Drained, pgVars, redisVars
  <2>2. left' = {}
    <3>1. \A m \in left : ~ (m <= committed)
      BY <1>2 DEF LeftInv, StageTypeInv
    <3>. QED
      BY <2>1, <3>1
  <2>3. LeftInv'
    BY <1>2, <2>1, <2>2 DEF LeftInv
  <2>. QED
    BY <1>2, <2>1, <2>3, TopicKept
<1>11. ~ (StartAgain("cut") \/ (Fault("crash") /\ UNCHANGED lifeVars))
  BY <1>1, <1>f DEF StartAgain, AskToStop, lifeVars
<1>12. ASSUME AskToStop PROVE Quiet
  BY <1>12 DEF Quiet
<1>. QED
  BY <1>1, <1>3, <1>4, <1>5, <1>6, <1>7, <1>8, <1>9, <1>10, <1>11, <1>12, ServerStep

\* Stage 5: as long as nothing but the stop goes wrong, a booking has the tickets
\* it took until they are given back.
LEMMA Stage5Moves ==
    ASSUME BaseInv, LifeInv, PublishInv, Oversized = {}, [ServerNext]_serverVars,
           stage = 5, Undisturbed'
    PROVE  SameTickets
<1>. USE DEF BaseInv
<1>0. stage' = stage
  BY ServerStep, QuietEffect DEF AbortSweep, AbortProcess
<1>1. Undisturbed /\ (AskToStop \/ (UNCHANGED budget /\ life' # "cut"))
  BY <1>0, UndisturbedStep
<1>2. LeftInv /\ TopicInv
  BY <1>1 DEF PublishInv
<1>f. ASSUME NEW kind, Fault(kind), kind # "stop" PROVE AskToStop
  BY <1>1, <1>f DEF Fault, LifeInv
<1>4. ASSUME NEW o \in Orders, BookIn(o), UNCHANGED budget PROVE SameTickets
  <2>0. Api(o) /\ UNCHANGED workVars /\ \A kind : ~Fault(kind)
    BY <1>4 DEF BookIn, Fault, LifeInv
  <2>1. CASE Deduct(o)
    <3>1. status[o] = "absent" /\ o \notin revertedOrders
      BY <1>2, <2>1 DEF Deduct, DeductThen, TopicInv
    <3>2. budget' # budget - 1
      BY <1>4 DEF LifeInv
    <3>. QED
      BY <1>0, <2>0, <2>1, <3>1, <3>2, DeductMoves DEF Deduct
  <2>2. CASE RepairMetadata(o)
    <3>1. /\ UNCHANGED <<stage, status, qty, revertedMsgs, revertedOrders, stream>>
          /\ api[o] = "repairing"
          /\ \E a \in {"retrying", "failed"} : api' = [api EXCEPT ![o] = a]
      BY <1>0, <2>0, <2>2 DEF RepairMetadata, pgVars, redisVars, workVars, Answer
    <3>. QED
      BY <3>1, UnderwayKept DEF SameTickets, StageTypeInv
  <2>3. CASE Publish(o)
    <3>1. /\ UNCHANGED <<stage, status, qty, revertedMsgs, revertedOrders, stream>>
          /\ api[o] = "publishing" /\ api' = [api EXCEPT ![o] = "accepted"]
      BY <1>0, <2>0, <2>3 DEF Publish, pgVars, redisVars, workVars, Answer
    <3>. QED
      BY <3>1, UnderwayKept DEF SameTickets, StageTypeInv
  <2>4. ~RevertPublish(o)
    BY <1>2 DEF RevertPublish, TopicInv
  <2>. QED
    BY <2>0, <2>1, <2>2, <2>3, <2>4 DEF Api
<1>5. ASSUME ConsumeIn, UNCHANGED budget PROVE SameTickets
  <2>0. Consume /\ UNCHANGED workVars /\ \A kind : ~Fault(kind)
    BY <1>5 DEF ConsumeIn, Fault, LifeInv
  <2>1. UNCHANGED <<api, stream>>
    BY <2>0 DEF Consume, Fetch, Process, RevertLeaked, Commit, apiVars, workVars
  <2>2. at # "fetch" => /\ topic[fetched] \in Orders /\ api[topic[fetched]] = "accepted"
    BY <1>2 DEF StageTypeInv, TopicInv
  <2>3. CASE UNCHANGED <<status, redisVars>>
    BY <1>0, <2>1, <2>3, UnderwayKept DEF SameTickets, redisVars
  <2>4. CASE at # "fetch" /\ InsertReservation(topic[fetched]) /\ UNCHANGED redisVars
    <3>1. status' = [status EXCEPT ![topic[fetched]] = "awaiting_payment"]
      BY <2>4 DEF InsertReservation
    <3>2. \A p \in Orders : p # topic[fetched] => status'[p] = status[p]
      BY <3>1 DEF StageTypeInv
    <3>3. Underway' = Underway
      BY <1>0, <2>1, <2>2, <2>4, <3>1, <3>2 DEF Underway, OnTheWay, redisVars, StageTypeInv
    <3>. QED
      BY <2>4, <3>3 DEF SameTickets, redisVars
  <2>5. CASE /\ at # "fetch" /\ RevertOrder(topic[fetched], QuantityOf[topic[fetched]])
             /\ UNCHANGED status
    <3>. DEFINE o == topic[fetched]
    <3>0. o \in Orders
      BY <2>2, <2>5
    <3>1. Underway' = Underway \ {o}
      BY <1>0, <2>1, <2>5 DEF Underway, OnTheWay, RevertOrder
    <3>2. o \in Underway <=> o \notin revertedOrders
      BY <2>2, <2>5 DEF Underway, OnTheWay
    <3>3. qty' = IF o \in revertedOrders THEN qty ELSE qty + QuantityOf[o]
      BY <2>5 DEF RevertOrder
    <3>. HIDE DEF o
    <3>. QED
      BY <3>1, <3>2, <3>3 DEF SameTickets
  <2>. QED
    BY <2>0, <2>3, <2>4, <2>5 DEF Consume, Fetch, Process, RevertLeaked, Commit, pgVars
<1>6. ~ (StartAgain("cut") \/ (Fault("crash") /\ UNCHANGED lifeVars))
  BY <1>1, <1>f DEF StartAgain, AskToStop, lifeVars
<1>7. ASSUME AskToStop PROVE Quiet
  BY <1>7 DEF Quiet
<1>. QED
  BY <1>1, <1>4, <1>5, <1>6, <1>7, ServerStep, SharedMoves

\* What holds as long as nothing but the stop goes wrong.
StopInv == BaseInv /\ LifeInv /\ PublishInv /\ WorkInv /\ ExactInv

\* At first nothing is underway.
LEMMA StopInit == ServerInit => StopInv
<1>. SUFFICES ASSUME ServerInit PROVE StopInv
  OBVIOUS
<1>. USE DEF ServerInit, StagesInit, EnvInit, PgInit, Stage5Init
<1>1. R!Ids = {} /\ Len(stream) = 0 /\ Len(topic) = 0
  BY DEF R!Ids
<1>2. LifeInv
  BY EnvironmentAssumption DEF LifeInv
<1>3. PublishInv
  BY <1>1 DEF PublishInv, LeftInv, TopicInv
<1>4. WorkInv
  BY <1>1 DEF WorkInv, OneMessage, Batches, Delivered, R!Modes, R!Steps
<1>5. ExactInv
  <2>1. Underway = {}
    BY <1>1 DEF Underway, OnTheWay
  <2>2. Tickets({}) = {}
    BY DEF Tickets
  <2>3. Cardinality(Tickets(Underway)) = 0
    BY <2>1, <2>2, FS_EmptySet
  <2>. QED
    BY <2>3, CatalogAssumption DEF ExactInv
<1>. QED
  BY <1>2, <1>3, <1>4, <1>5, BaseInit DEF StopInv

\* No step of a server whose amounts are numbers breaks it.
LEMMA StopNext ==
    ASSUME Oversized = {}
    PROVE  StopInv /\ [ServerNext]_serverVars => StopInv'
<1>. SUFFICES ASSUME StopInv, [ServerNext]_serverVars PROVE StopInv'
  OBVIOUS
<1>. USE DEF StopInv
<1>1. BaseInv' /\ LifeInv' /\ PublishInv' /\ WorkInv'
  BY BaseNext, LifeNext, PublishNext, WorkNext
<1>2. ExactInv'
  <2>. SUFFICES ASSUME Undisturbed', stage' # 1
                PROVE  (qty + Cardinality(Tickets(Underway)) = TotalTickets)'
    BY DEF ExactInv
  <2>0. stage' = stage
    BY ServerStep, QuietEffect DEF AbortSweep, AbortProcess
  <2>1. Undisturbed /\ (AskToStop \/ (UNCHANGED budget /\ life' # "cut"))
    BY <2>0, UndisturbedStep
  <2>2. CASE stage = 2
    <3>1. CASE AskToStop
      BY <2>2, <3>1, SharedMoves, SameTicketsSum, <2>0, <2>1 DEF Quiet, ExactInv, BaseInv
    <3>2. CASE UNCHANGED budget /\ life' # "cut"
      <4>1. budget' # budget - 1
        BY <3>2 DEF LifeInv
      <4>2. SameTickets
        BY <2>2, <3>2, <4>1, Stage2Moves
      <4>. QED
        BY <2>1, <2>2, <4>2, SameTicketsSum DEF ExactInv, BaseInv
    <3>. QED
      BY <2>1, <3>1, <3>2
  <2>3. CASE stage = 3
    BY <2>1, <2>3, Stage3Moves, SameTicketsSum DEF ExactInv, BaseInv
  <2>4. CASE stage = 5
    BY <2>1, <2>4, Stage5Moves, SameTicketsSum DEF ExactInv, BaseInv
  <2>. QED
    BY <2>0, <2>2, <2>3, <2>4 DEF BaseInv, StageTypeInv, Stages
<1>. QED
  BY <1>1, <1>2

\* Once everything is at rest, an order that is underway is one that has a row.
LEMMA AtRestUnderway ==
    ASSUME StopInv, StagesAtRest, Undisturbed, life \in {"up", "again"}, stage # 1
    PROVE  Underway = Stage2Keeping
<1>. USE DEF StopInv, BaseInv
<1>1. CASE stage = 2
  BY <1>1 DEF StagesAtRest, AtRest, Underway, OnTheWay, Stage2Keeping, InsertInv
<1>2. CASE stage = 3
  <2>1. /\ \A w \in Workers : batch[w] = {}
        /\ cursor = Len(stream)
    BY <1>2 DEF StagesAtRest, R!AtRest
  <2>2. \A m \in R!Ids : Done(m)
    BY <1>2, <2>1 DEF WorkInv, Delivered, R!Ids
  <2>3. Underway = {p \in Orders \ revertedOrders :
                      status[p] # "absent" \/ \E m \in R!Ids \ revertedMsgs : stream[m] = p}
    BY <1>2 DEF Underway, OnTheWay
  <2>. QED
    BY <2>2, <2>3 DEF Done, Stage2Keeping
<1>3. CASE stage = 5
  <2>1. LeftInv /\ TopicInv /\ running
    BY <1>3 DEF PublishInv, LifeInv
  <2>2. at = "fetch" /\ fetched = Len(topic)
    BY DEF StagesAtRest, AtRest
  <2>3. \A m \in 1..Len(topic) : status[topic[m]] # "absent" \/ topic[m] \in revertedOrders
    BY <2>1, <2>2 DEF FetchedInv, Accounted, LeftInv
  <2>4. \A o \in Orders : api[o] \in {"accepted", "sold_out", "failed"}
    BY DEF StagesAtRest, AtRest
  <2>5. \A o \in Orders : api[o] = "accepted" => status[o] # "absent" \/ o \in revertedOrders
    BY <2>1, <2>3 DEF TopicInv
  <2>. QED
    BY <1>3, <2>4, <2>5 DEF Underway, OnTheWay, Stage2Keeping
<1>. QED
  BY <1>1, <1>2, <1>3 DEF StageTypeInv, Stages

\* A stop in order loses no ticket, where every amount fits: Stages 1, 2 and 5
\* take up again what they left, and without a stop Stage 3 does as well.
THEOREM StopsLoseNothing ==
    ASSUME Oversized = {}
    PROVE  ServerSpec => []StopLosesNothing
<1>1. ASSUME StopInv PROVE StopLosesNothing
  <2>. SUFFICES ASSUME StagesAtRest,
                       \/ life = "up" /\ budget = MaxFaults
                       \/ life = "again" /\ budget = MaxFaults - 1 /\ stage # 3
                PROVE  qty = TotalTickets - (IF stage = 1 THEN 0
                                             ELSE Cardinality(Tickets(Stage2Keeping)))
    BY DEF StopLosesNothing
  <2>1. Undisturbed /\ life \in {"up", "again"}
    BY DEF Undisturbed
  <2>2. CASE stage = 1
    BY <1>1, <2>2, CatalogAssumption DEF StopInv, BaseInv, TicketLockInv
  <2>3. CASE stage # 1
    <3>1. Cardinality(Tickets(Stage2Keeping)) \in Nat
      BY TicketsFinite DEF Stage2Keeping
    <3>2. qty + Cardinality(Tickets(Stage2Keeping)) = TotalTickets
      BY <1>1, <2>1, <2>3, AtRestUnderway DEF StopInv, ExactInv
    <3>. QED
      BY <1>1, <2>3, <3>1, <3>2 DEF StopInv, BaseInv, StageTypeInv
  <2>. QED
    BY <2>2, <2>3
<1>. QED
  BY <1>1, StopInit, StopNext, PTL DEF ServerSpec

-----------------------------------------------------------------------------
(* Every stage implements OrderLifecycle *)

\* What Released puts for life and free.
StageLife == [o \in Orders |-> IF stage = 2 THEN Stage2Life(o) ELSE Life[status[o]]]
StageFree == IF stage = 2 THEN TotalTickets - Cardinality(Tickets(Stage2Keeping)) ELSE available

\* What the statuses mean.
LEMMA LifeOfStatus ==
    /\ Life["absent"] = "none" /\ Life["awaiting_payment"] = "held"
    /\ Life["paid"] = "sold" /\ Life["compensated"] = "released"
BY DEF Life

\* What a step may do to the tables where they count: insert a row and take its
\* tickets, mark it paid, or compensate it and return them.
Booked(o) ==
    /\ ~AlreadyBought(o)
    /\ QuantityOf[o] <= available
    /\ available' = available - QuantityOf[o]
    /\ status' = [status EXCEPT ![o] = "awaiting_payment"]

Paid(o) ==
    /\ status[o] = "awaiting_payment"
    /\ status' = [status EXCEPT ![o] = "paid"]
    /\ UNCHANGED available

GivenBack(o) ==
    /\ status[o] = "awaiting_payment"
    /\ status' = [status EXCEPT ![o] = "compensated"]
    /\ available' = available + QuantityOf[o]

\* Stages 1, 3 and 5: no step does anything else to them.
LEMMA TablesStep ==
    ASSUME BaseInv, stage # 2, [ServerNext]_serverVars
    PROVE  \/ UNCHANGED <<status, available>>
           \/ \E o \in Orders : Booked(o) \/ Paid(o) \/ GivenBack(o)
<1>. USE DEF BaseInv
<1>. DEFINE Goal == \/ UNCHANGED <<status, available>>
                    \/ \E o \in Orders : Booked(o) \/ Paid(o) \/ GivenBack(o)
<1>0. ASSUME NEW o \in Orders, ~SoldOut(o), ~AlreadyBought(o),
             available' = available - QuantityOf[o],
             status' = [status EXCEPT ![o] = "awaiting_payment"]
      PROVE  Goal
  <2>1. QuantityOf[o] <= available
    BY <1>0, QuantityIsNat DEF SoldOut, StageTypeInv
  <2>. QED
    BY <1>0, <2>1 DEF Booked
<1>1. ASSUME NEW o \in Orders, BookIn(o) PROVE Goal
  <2>1. CASE stage = 1
    <3>1. LockTicketType(o) \/ CommitBooking(o)
      BY <1>1, <2>1 DEF BookIn, Stage1Book
    <3>2. CASE CommitBooking(o)
      BY <2>1, <3>2 DEF CommitBooking, TakeAndInsert, Booked, TicketLockInv, pgVars
    <3>. QED
      BY <3>1, <3>2 DEF LockTicketType, pgVars
  <2>2. CASE stage = 3
    BY <1>1, <2>2 DEF BookIn, Stage3Book, R!Api, R!Deduct, R!RepairMetadata, R!pgVars
  <2>3. CASE stage = 5
    BY <1>1, <2>3 DEF BookIn, Api, Deduct, DeductThen, RepairMetadata, Publish, RevertPublish,
       pgVars
  <2>. QED
    BY <1>1, <2>1, <2>2, <2>3 DEF BookIn
<1>2. ASSUME NEW o \in Orders, PayIntent(o) \/ StartConfirm(o) \/ Confirm(o) PROVE Goal
  BY <1>2 DEF PayIntent, StartConfirm, Confirm, MarkPaid, Paid, pgVars
<1>3. ASSUME NEW a \in Compensators, CompensateIn(a) PROVE Goal
  <2>1. comp[a] # "idle" => job[a] \in Orders
    BY DEF StageTypeInv
  <2>2. \/ UNCHANGED <<status, available>>
        \/ comp[a] # "idle" /\ ReleaseOrder(job[a])
    BY <1>3 DEF CompensateIn, Stage1Compensate, Stage3Compensate, Compensate, Lock, ReleaseStage1,
                RevertLocked, CommitRelease, pgVars
  <2>. QED
    BY <2>1, <2>2 DEF ReleaseOrder, GivenBack
<1>4. CASE ConsumeIn
  <2>1. CASE stage = 3
    <3>1. PICK w \in Workers : R!Work(w)
      BY <1>4, <2>1 DEF ConsumeIn, Stage3Work
    <3>2. \/ UNCHANGED <<status, available>>
          \/ R!Busy(w, "process") /\ R!InsertReservation(stream[R!Current(w)])
      BY <3>1, WorkEffect
    <3>3. CASE R!Busy(w, "process") /\ R!InsertReservation(stream[R!Current(w)])
      <4>1. stream[R!Current(w)] \in Orders
        BY <3>3, CurrentIsRead DEF R!Busy
      <4>. QED
        BY <1>0, <3>3, <4>1 DEF R!InsertReservation, R!SoldOut, R!AlreadyBought, SoldOut,
           AlreadyBought
    <3>. QED
      BY <3>2, <3>3
  <2>2. CASE stage = 5
    <3>1. at # "fetch" => topic[fetched] \in Orders
      BY DEF StageTypeInv
    <3>2. \/ UNCHANGED <<status, available>>
          \/ at # "fetch" /\ InsertReservation(topic[fetched])
      BY <1>4, <2>2 DEF ConsumeIn, Consume, Fetch, Process, RevertLeaked, Commit, pgVars
    <3>. QED
      BY <1>0, <3>1, <3>2 DEF InsertReservation
  <2>. QED
    BY <1>4, <2>1, <2>2 DEF ConsumeIn
<1>5. CASE Quiet
  BY <1>5, QuietEffect
<1>6. CASE AbortSweep \/ AbortProcess \/ Restart
  BY <1>6 DEF AbortSweep, AbortProcess, Restart, pgVars
<1>. QED
  BY <1>1, <1>2, <1>3, <1>4, <1>5, <1>6, ServerStep

\* Which of them they are in OrderLifecycle.
LEMMA TablesFollow ==
    ASSUME StageTypeInv, stage # 2, stage' = stage,
           \/ UNCHANGED <<status, available>>
           \/ \E o \in Orders : Booked(o) \/ Paid(o) \/ GivenBack(o)
    PROVE  [Released!Next]_<<StageLife, StageFree>>
<1>1. StageLife = [o \in Orders |-> Life[status[o]]] /\ StageFree = available
      /\ StageLife' = [o \in Orders |-> Life[status'[o]]] /\ StageFree' = available'
  BY DEF StageLife, StageFree
<1>a. ASSUME NEW o \in Orders, NEW s \in StageStatuses, status' = [status EXCEPT ![o] = s]
      PROVE  StageLife' = [StageLife EXCEPT ![o] = Life[s]]
  BY <1>1, <1>a DEF StageTypeInv
<1>2. ASSUME NEW o \in Orders, Booked(o) PROVE Released!Hold(o)
  <2>1. \A p \in Orders : CustomerOf[p] = CustomerOf[o] => StageLife[p] = "none"
    BY <1>1, <1>2, LifeOfStatus DEF Booked, AlreadyBought
  <2>2. StageLife' = [StageLife EXCEPT ![o] = "held"]
    BY <1>2, <1>a, LifeOfStatus DEF Booked, StageStatuses
  <2>3. QuantityOf[o] <= StageFree /\ StageFree' = StageFree - QuantityOf[o]
    BY <1>1, <1>2 DEF Booked
  <2>. QED
    BY <2>1, <2>2, <2>3 DEF Released!Hold, StageLife, StageFree
<1>3. ASSUME NEW o \in Orders, Paid(o) PROVE Released!Sell({o})
  <2>1. StageLife' = [p \in Orders |-> IF p \in {o} THEN "sold" ELSE StageLife[p]]
    BY <1>1, <1>3, LifeOfStatus DEF Paid, StageTypeInv
  <2>2. \A p \in {o} : StageLife[p] = "held"
    BY <1>1, <1>3, LifeOfStatus DEF Paid
  <2>3. UNCHANGED StageFree
    BY <1>1, <1>3 DEF Paid
  <2>. QED
    BY <2>1, <2>2, <2>3 DEF Released!Sell, StageLife, StageFree
<1>4. ASSUME NEW o \in Orders, GivenBack(o) PROVE Released!Release(o)
  <2>1. StageLife' = [StageLife EXCEPT ![o] = "released"]
    BY <1>4, <1>a, LifeOfStatus DEF GivenBack, StageStatuses
  <2>2. StageLife[o] = "held" /\ StageFree' = StageFree + QuantityOf[o]
    BY <1>1, <1>4, LifeOfStatus DEF GivenBack
  <2>. QED
    BY <2>1, <2>2 DEF Released!Release, StageLife, StageFree
<1>5. CASE UNCHANGED <<status, available>>
  BY <1>1, <1>5
<1>. QED
  BY <1>2, <1>3, <1>4, <1>5 DEF Released!Next

\* Stage 2: a row that was not there is held.
LEMMA Stage2Holds ==
    ASSUME BaseInv, RedisInv, stage = 2, stage' = 2, NEW o \in Orders, InsertOrder(o),
           status' # status
    PROVE  Released!Hold(o)
<1>. USE DEF BaseInv
<1>0. /\ api[o] = "writing" /\ status[o] = "absent" /\ o \notin revertedOrders
      /\ ~AlreadyBought(o)
      /\ status' = [status EXCEPT ![o] = "awaiting_payment"]
      /\ \E a \in {"accepted", "reverting"} : api' = [api EXCEPT ![o] = a]
      /\ UNCHANGED revertedOrders
  BY DEF InsertOrder, InsertInv, Answer, pgVars, redisVars
<1>1. \A p \in Orders : CustomerOf[p] = CustomerOf[o] => StageLife[p] = "none"
  BY <1>0 DEF AlreadyBought, StageLife, Stage2Life
<1>2. StageLife' = [StageLife EXCEPT ![o] = "held"]
  <2>1. Stage2Life(o)' = "held"
    BY <1>0, LifeOfStatus DEF Stage2Life, StageTypeInv
  <2>2. \A p \in Orders : p # o => Stage2Life(p)' = Stage2Life(p)
    BY <1>0 DEF Stage2Life, StageTypeInv
  <2>. QED
    BY <2>1, <2>2 DEF StageLife
<1>3. o \notin Stage2Keeping /\ Stage2Keeping' = Stage2Keeping \cup {o}
  BY <1>0 DEF Stage2Keeping, StageTypeInv
<1>4. Stage2Keeping \in SUBSET Orders
  BY DEF Stage2Keeping
<1>5. Cardinality(Tickets(Stage2Keeping))' = Cardinality(Tickets(Stage2Keeping)) + QuantityOf[o]
  BY <1>3, <1>4, TicketsOfOneMore
<1>6. Stage2Keeping \cup {o} \subseteq Underway /\ Underway \in SUBSET Orders
  BY <1>0 DEF Stage2Keeping, Underway, OnTheWay
<1>7. Cardinality(Tickets(Stage2Keeping \cup {o})) <= Cardinality(Tickets(Underway))
  BY <1>6, TicketsMonotone
<1>8. Cardinality(Tickets(Stage2Keeping)) + QuantityOf[o] <= Cardinality(Tickets(Underway))
  BY <1>3, <1>4, <1>7, TicketsOfOneMore
<1>9. /\ Cardinality(Tickets(Stage2Keeping)) \in Nat /\ Cardinality(Tickets(Underway)) \in Nat
      /\ QuantityOf[o] \in Nat /\ qty \in Nat /\ TotalTickets \in Nat
      /\ qty + Cardinality(Tickets(Underway)) <= TotalTickets
  BY <1>4, <1>6, TicketsFinite, QuantityIsNat, CatalogAssumption DEF StageTypeInv, RedisInv
<1>10. QuantityOf[o] <= StageFree /\ StageFree' = StageFree - QuantityOf[o]
  BY <1>5, <1>8, <1>9 DEF StageFree
<1>. QED
  BY <1>1, <1>2, <1>10 DEF Released!Hold, StageLife, StageFree

\* Stage 2: an order with a row is released by the revert.
LEMMA Stage2Releases ==
    ASSUME BaseInv, stage = 2, stage' = 2, NEW o \in Orders, o \notin revertedOrders,
           status[o] = "awaiting_payment" \/ (api[o] = "reverting" /\ status[o] # "absent"),
           revertedOrders' = revertedOrders \cup {o}, UNCHANGED status,
           \A p \in Orders : p # o => api'[p] = api[p]
    PROVE  Released!Release(o)
<1>. USE DEF BaseInv
<1>1. StageLife[o] = "held"
  BY LifeOfStatus DEF StageLife, Stage2Life
<1>2. StageLife' = [StageLife EXCEPT ![o] = "released"]
  <2>1. Stage2Life(o)' = "released"
    BY DEF Stage2Life
  <2>2. \A p \in Orders : p # o => Stage2Life(p)' = Stage2Life(p)
    BY DEF Stage2Life
  <2>. QED
    BY <2>1, <2>2 DEF StageLife
<1>3. /\ Stage2Keeping' \in SUBSET Orders /\ o \in Orders \ Stage2Keeping'
      /\ Stage2Keeping = Stage2Keeping' \cup {o}
  BY DEF Stage2Keeping
<1>4. Cardinality(Tickets(Stage2Keeping)) = Cardinality(Tickets(Stage2Keeping')) + QuantityOf[o]
  BY <1>3, TicketsOfOneMore
<1>5. Cardinality(Tickets(Stage2Keeping')) \in Nat /\ QuantityOf[o] \in Nat /\ TotalTickets \in Nat
  BY <1>3, TicketsFinite, QuantityIsNat, CatalogAssumption
<1>6. StageFree' = StageFree + QuantityOf[o]
  BY <1>4, <1>5 DEF StageFree
<1>. QED
  BY <1>1, <1>2, <1>6 DEF Released!Release, StageLife, StageFree

\* Stage 2: a payment, the end of a compensation, and requests that end without a
\* revert sell held orders at most.
LEMMA Stage2Sells ==
    ASSUME BaseInv, stage = 2, stage' = 2, UNCHANGED revertedOrders,
           \A p \in Orders :
               \/ status'[p] = status[p]
               \/ status[p] = "awaiting_payment" /\ status'[p] = "paid"
               \/ status[p] = "awaiting_payment" /\ status'[p] = "compensated" /\ p \in revertedOrders,
           \A p \in Orders : api'[p] = "reverting" => api[p] = "reverting" \/ status'[p] = "absent"
    PROVE  \E S \in SUBSET Orders : Released!Sell(S)
<1>. USE DEF BaseInv
<1>. DEFINE S == {p \in Orders : StageLife[p] = "held" /\ Stage2Life(p)' = "sold"}
<1>1. ASSUME NEW p \in Orders
      PROVE  StageLife'[p] = IF p \in S THEN "sold" ELSE StageLife[p]
  <2>1. status[p] \in StageStatuses /\ (status[p] = "compensated" => p \in revertedOrders)
    BY DEF StageTypeInv, BackInv, CompensatedIsReverted
  <2>2. StageLife[p] = Stage2Life(p) /\ StageLife'[p] = Stage2Life(p)'
    BY DEF StageLife
  <2>3. CASE p \in revertedOrders
    BY <2>1, <2>2, <2>3, LifeOfStatus DEF Stage2Life, StageStatuses
  <2>4. CASE p \notin revertedOrders
    <3>1. CASE status'[p] = "absent" \/ status[p] = "absent"
      BY <2>1, <2>2, <2>4, <3>1 DEF Stage2Life
    <3>2. CASE api'[p] = "reverting" /\ status'[p] # "absent" /\ status[p] # "absent"
      BY <2>2, <2>4, <3>2 DEF Stage2Life
    <3>3. CASE api'[p] # "reverting" /\ status'[p] # "absent" /\ status[p] # "absent"
      <4>1. status'[p] \in {"awaiting_payment", "paid"}
            /\ Stage2Life(p)' = Life[status'[p]]
        BY <2>1, <2>4, <3>3 DEF Stage2Life, StageStatuses
      <4>2. Stage2Life(p) \in {"held", Life[status[p]]} /\ status[p] \in {"awaiting_payment", "paid"}
        BY <2>1, <2>4, <3>3 DEF Stage2Life, StageStatuses
      <4>3. Stage2Life(p) \in {"held", "sold"} /\ (Stage2Life(p) = "sold" => status[p] = "paid")
        BY <4>2, LifeOfStatus
      <4>4. status[p] = "paid" => status'[p] = "paid"
        OBVIOUS
      <4>. QED
        BY <2>2, <4>1, <4>3, <4>4, LifeOfStatus
    <3>. QED
      BY <3>1, <3>2, <3>3
  <2>. QED
    BY <2>3, <2>4
<1>2. StageLife' = [p \in Orders |-> IF p \in S THEN "sold" ELSE StageLife[p]]
  <2>1. StageLife' = [p \in Orders |-> StageLife'[p]]
    BY DEF StageLife
  <2>. HIDE DEF S
  <2>. QED
    BY <1>1, <2>1
<1>3. Stage2Keeping' = Stage2Keeping
  BY DEF Stage2Keeping
<1>4. UNCHANGED StageFree
  BY <1>3 DEF StageFree
<1>5. \A p \in S : StageLife[p] = "held"
  OBVIOUS
<1>6. PICK T \in SUBSET Orders : T = S
  OBVIOUS
<1>. HIDE DEF S
<1>7. Released!Sell(T)
  BY <1>2, <1>4, <1>5, <1>6 DEF Released!Sell, StageLife, StageFree
<1>. QED
  BY <1>7

\* Stage 2: every step is one of OrderLifecycle.
LEMMA Stage2Follows ==
    ASSUME BaseInv, RedisInv, stage = 2, stage' = 2, [ServerNext]_serverVars
    PROVE  Released!Next
<1>. USE DEF BaseInv
<1>1. ASSUME NEW o \in Orders, BookIn(o) PROVE Released!Next
  <2>0. Stage2Book(o)
    BY <1>1 DEF BookIn
  <2>1. CASE InsertOrder(o) /\ status' # status
    BY <2>1, Stage2Holds DEF Released!Next
  <2>2. CASE RevertAfterFailure(o) /\ o \notin revertedOrders /\ status[o] # "absent"
             /\ revertedOrders' = revertedOrders \cup {o}
    BY <2>2, Stage2Releases DEF RevertAfterFailure, Answer, pgVars, Released!Next, StageTypeInv
  <2>3. CASE RevertAfterFailure(o) /\ status[o] = "absent"
             /\ revertedOrders' = revertedOrders \cup {o}
    <3>1. UNCHANGED status /\ \A p \in Orders : p # o => api'[p] = api[p]
      BY <2>3 DEF RevertAfterFailure, Answer, pgVars, StageTypeInv
    <3>2. StageLife' = StageLife
      BY <2>3, <3>1 DEF StageLife, Stage2Life
    <3>3. Stage2Keeping' = Stage2Keeping
      BY <2>3, <3>1 DEF Stage2Keeping
    <3>4. StageFree' = StageFree
      BY <3>3 DEF StageFree
    <3>5. StageLife = [p \in Orders |-> IF p \in {} THEN "sold" ELSE StageLife[p]]
      BY DEF StageLife
    <3>6. Released!Sell({})
      BY <3>2, <3>4, <3>5 DEF Released!Sell, StageLife, StageFree
    <3>. QED
      BY <3>6 DEF Released!Next
  <2>4. CASE UNCHANGED <<status, revertedOrders>>
    <3>1. \A p \in Orders : api'[p] = "reverting" => api[p] = "reverting" \/ status[p] = "absent"
      BY <2>0, <2>4 DEF Stage2Book, DeductSync, DeductThen, RepairMetadata, InsertOrder,
         RevertAfterFailure,
                        Answer, StageTypeInv, InsertInv
    <3>. QED
      BY <2>4, <3>1, Stage2Sells DEF Released!Next
  <2>5. \/ UNCHANGED <<status, revertedOrders>>
        \/ InsertOrder(o) /\ status' # status
        \/ RevertAfterFailure(o) /\ UNCHANGED status /\ revertedOrders' = revertedOrders \cup {o}
    BY <2>0 DEF Stage2Book, DeductSync, DeductThen, RepairMetadata, InsertOrder, RevertAfterFailure,
                RevertOrder, pgVars, redisVars
  <2>. QED
    BY <2>1, <2>2, <2>3, <2>4, <2>5
<1>2. ASSUME NEW o \in Orders, PayIntent(o) \/ StartConfirm(o) \/ Confirm(o) PROVE Released!Next
  <2>1. UNCHANGED <<api, revertedOrders>>
    BY <1>2 DEF PayIntent, StartConfirm, Confirm, redisVars, apiVars
  <2>2. \A p \in Orders : status'[p] = status[p]
                          \/ (status[p] = "awaiting_payment" /\ status'[p] = "paid")
    BY <1>2 DEF PayIntent, StartConfirm, Confirm, MarkPaid, pgVars, StageTypeInv
  <2>. QED
    BY <2>1, <2>2, Stage2Sells DEF Released!Next
<1>3. ASSUME NEW a \in Compensators, CompensateIn(a) PROVE Released!Next
  <2>0. (\E o \in Orders : Lock(a, o)) \/ RevertLocked(a) \/ ReleaseStage2(a)
    BY <1>3 DEF CompensateIn, Stage2Compensate
  <2>1. UNCHANGED api
    BY <2>0 DEF Lock, RevertLocked, ReleaseStage2, apiVars
  <2>2. comp[a] # "idle" => job[a] \in Orders /\ status[job[a]] = "awaiting_payment"
    BY DEF StageTypeInv, LocksInv
  <2>3. CASE RevertLocked(a) /\ revertedOrders' = revertedOrders \cup {job[a]}
             /\ job[a] \notin revertedOrders
    BY <2>1, <2>2, <2>3, Stage2Releases DEF RevertLocked, pgVars, Released!Next
  <2>4. CASE UNCHANGED <<status, revertedOrders>>
    BY <2>1, <2>4, Stage2Sells DEF Released!Next
  <2>5. CASE ReleaseStage2(a) /\ MarkStage2(job[a])
    <3>1. job[a] \in revertedOrders /\ job[a] \in Orders
      BY <2>2, <2>5 DEF ReleaseStage2, BackInv
    <3>2. UNCHANGED revertedOrders
      BY <2>5 DEF ReleaseStage2, redisVars
    <3>3. \A p \in Orders :
             \/ status'[p] = status[p]
             \/ /\ status[p] = "awaiting_payment" /\ status'[p] = "compensated"
                /\ p \in revertedOrders
      BY <2>5, <3>1 DEF MarkStage2, StageTypeInv
    <3>. QED
      BY <2>1, <3>2, <3>3, Stage2Sells DEF Released!Next
  <2>6. \/ UNCHANGED <<status, revertedOrders>>
        \/ RevertLocked(a) /\ UNCHANGED status /\ revertedOrders' = revertedOrders \cup {job[a]}
        \/ ReleaseStage2(a) /\ MarkStage2(job[a])
    BY <2>0 DEF Lock, RevertLocked, ReleaseStage2, RevertOrder, pgVars, redisVars
  <2>7. revertedOrders' = revertedOrders \cup {job[a]} /\ job[a] \in revertedOrders
        => UNCHANGED revertedOrders
    OBVIOUS
  <2>. QED
    BY <2>3, <2>4, <2>5, <2>6, <2>7
<1>4. CASE Quiet
  <2>1. UNCHANGED <<status, revertedOrders, api>>
    BY <1>4, QuietEffect
  <2>. QED
    BY <2>1, Stage2Sells DEF Released!Next
<1>5. CASE AbortSweep \/ AbortProcess
  BY <1>5, Stage2Sells DEF AbortSweep, AbortProcess, pgVars, redisVars, apiVars, Released!Next
<1>6. CASE Restart
  BY <1>6, Stage2Sells DEF Restart, pgVars, redisVars, Released!Next
<1>7. ~ConsumeIn
  BY DEF ConsumeIn
<1>. QED
  BY <1>1, <1>2, <1>3, <1>4, <1>5, <1>6, <1>7, ServerStep

\* In every stage an order takes tickets that are there, once, is then sold or
\* released, and a released one frees them once.
THEOREM StagesFollowLifecycle == ServerSpec => StagesImplementLifecycle
<1>1. ServerInit => Released!Init
  <2>. SUFFICES ASSUME ServerInit PROVE Released!Init
    OBVIOUS
  <2>1. \A o \in Orders : status[o] = "absent"
    BY DEF ServerInit, StagesInit, PgInit
  <2>2. StageLife = [o \in Orders |-> "none"]
    BY <2>1, LifeOfStatus DEF StageLife, Stage2Life
  <2>3. Stage2Keeping = {} /\ Tickets({}) = {}
    BY <2>1 DEF Stage2Keeping, Tickets
  <2>4. Cardinality(Tickets(Stage2Keeping)) = 0
    BY <2>3, FS_EmptySet
  <2>5. StageFree = TotalTickets
    BY <2>4, CatalogAssumption DEF StageFree, ServerInit, StagesInit, PgInit
  <2>. QED
    BY <2>2, <2>5 DEF Released!Init, StageLife, StageFree
<1>2. BaseInv /\ RedisInv /\ [ServerNext]_serverVars
      => [Released!Next]_<<StageLife, StageFree>>
  <2>. SUFFICES ASSUME BaseInv, RedisInv, [ServerNext]_serverVars
                PROVE  [Released!Next]_<<StageLife, StageFree>>
    OBVIOUS
  <2>0. stage' = stage
    BY ServerStep, QuietEffect DEF AbortSweep, AbortProcess
  <2>1. CASE stage = 2
    BY <2>0, <2>1, Stage2Follows
  <2>2. CASE stage # 2
    BY <2>0, <2>2, TablesStep, TablesFollow DEF BaseInv
  <2>. QED
    BY <2>1, <2>2
<1>3. ServerSpec => [][Released!Next]_<<StageLife, StageFree>>
  BY <1>2, BaseAlways, RedisAlways, PTL DEF ServerSpec
<1>. QED
  BY <1>1, <1>3, PTL DEF ServerSpec, StagesImplementLifecycle, Released!Spec, StageLife, StageFree

\* What the tables owe to it: where a ticket type has a row to count in, what it
\* offers and what the orders hold are all the tickets; and in every stage a
\* customer holds one order at most.
StagesConserve == (stage # 2 => TicketsConserved) /\ OneOrderPerCustomer

\* No stage sells a ticket twice or loses one in its tables, whatever fails.
THEOREM StagesConserveTickets == ServerSpec => []StagesConserve
<1>0. Released!CatalogAssumption
  BY CatalogAssumption DEF Released!CatalogAssumption, IsFiniteSet, Released!IsFiniteSet
<1>1. Released!Init => Released!Inv
  BY <1>0, Released!InvInit
<1>2. Released!Inv /\ [Released!Next]_<<StageLife, StageFree>> => Released!Inv'
  BY <1>0, Released!InvNext DEF StageLife, StageFree
<1>3. Released!Spec => []Released!Inv
  BY <1>1, <1>2, PTL DEF Released!Spec, StageLife, StageFree
<1>4. ASSUME BaseInv, Released!Inv PROVE StagesConserve
  <2>1. \A o \in Orders : status[o] \in StageStatuses
    BY <1>4 DEF BaseInv, StageTypeInv
  <2>2. \A o \in Orders : StageLife[o] = "none" <=> status[o] = "absent"
    BY <2>1, LifeOfStatus DEF StageLife, Stage2Life, StageStatuses
  <2>3. OneOrderPerCustomer
    BY <1>4, <2>2 DEF OneOrderPerCustomer, Released!Inv, Released!OneEach, StageLife
  <2>4. ASSUME stage # 2 PROVE TicketsConserved
    <3>1. \A o \in Orders : StageLife[o] \in {"none", "released"} <=> status[o] \in {"absent", "compensated"}
      BY <2>1, <2>4, LifeOfStatus DEF StageLife, StageStatuses
    <3>2. Released!Keeping = Holding
      BY <3>1 DEF Released!Keeping, Holding, StageLife
    <3>. QED
      BY <1>4, <2>4, <3>2 DEF Released!Inv, Released!Conserved, TicketsConserved, Tickets,
                              Released!Tickets, Released!Cardinality, Cardinality
  <2>. QED
    BY <2>3, <2>4 DEF StagesConserve
<1>. QED
  BY <1>3, <1>4, BaseAlways, StagesFollowLifecycle, PTL DEF StagesImplementLifecycle

=============================================================================
