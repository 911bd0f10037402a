------------------------- MODULE ReservationProofs --------------------------
(***************************************************************************)
(* The booking path, for any number of workers, requests and failures.     *)
(* On its own: its variables keep their types, its steps are steps of      *)
(* OrderLifecycle, no delivered booking is lost, and what Redis lacks is   *)
(* what was queued and not given back. Among the other components of       *)
(* Stage 4 (BookingSystem): the whole is a behaviour of OrderLifecycle,    *)
(* and Redis and the queue never hold more than Postgres and agree with it *)
(* when all is done.                                                       *)
(***************************************************************************)
EXTENDS BookingSystem, Idempotency, PostgresProofs, CatalogProofs, SequenceTheorems

-----------------------------------------------------------------------------
(* What a worker reads *)

\* The current message of a worker is one of its batch, and asks for an order.
LEMMA CurrentIsRead ==
    ASSUME TypeOK, NEW w \in Workers, batch[w] # {}
    PROVE  /\ Current(w) \in batch[w]
           /\ Current(w) \in Ids
           /\ stream[Current(w)] \in Orders
<1>1. batch[w] \in SUBSET Ids /\ stream \in Seq(Orders)
  BY DEF TypeOK
<1>2. batch[w] \in SUBSET Nat
  BY <1>1 DEF Ids
<1>3. \E m \in batch[w] : \A k \in batch[w] : m <= k
  BY <1>2, LeastNatural
<1>4. Current(w) \in batch[w]
  BY <1>3 DEF Current
<1>. QED
  BY <1>1, <1>4 DEF Ids

\* XREADGROUP delivers the ids that follow the cursor, without a gap.
LEMMA LowestOfInterval ==
    ASSUME NEW a \in Nat, NEW b \in Nat, a <= b
    PROVE  LET n == Cardinality(Lowest((a + 1)..b)) IN
               /\ Lowest((a + 1)..b) = (a + 1)..(a + n)
               /\ n \in Nat
               /\ a + n <= b
BY FirstOfInterval, ReservationAssumption DEF Lowest

-----------------------------------------------------------------------------
(* Every step is a step of the tables *)

\* Only the worker's unit of work touches the tables.
LEMMA NextIsPgStep == TypeOK /\ [Next]_vars => PgStep
<1>. SUFFICES ASSUME TypeOK, [Next]_vars PROVE PgStep
  OBVIOUS
<1>1. ASSUME NEW w \in Workers, Process(w) PROVE PgStep
  <2>1. batch[w] # {}
    BY <1>1 DEF Process, Busy
  <2>2. stream[Current(w)] \in Orders
    BY <2>1, CurrentIsRead
  <2>. QED
    BY <1>1, <2>2 DEF Process, PgStep
<1>2. ASSUME NEW o \in Orders, Api(o) \/ Lapse(o) PROVE UNCHANGED pgVars
  BY <1>2 DEF Api, Deduct, RepairMetadata, Lapse
<1>3. ASSUME NEW w \in Workers,
             Start(w) \/ ReadPending(w) \/ ReadNew(w) \/ Revert(w) \/ DeadLetter(w)
               \/ Ack(w) \/ Crash(w)
      PROVE  UNCHANGED pgVars
  BY <1>3 DEF Start, ReadPending, ReadNew, Revert, DeadLetter, Ack, Crash
<1>4. CASE EvictMetadata \/ Rest \/ UNCHANGED vars
  BY <1>4 DEF EvictMetadata, Rest, vars, PgStep
<1>. QED
  BY <1>1, <1>2, <1>3, <1>4 DEF Next, Work, PgStep

-----------------------------------------------------------------------------
(* Type correctness *)

\* What a worker may make of its own variables while it works.
Moves(w) ==
    \/ \E S \in SUBSET Ids : TakeUp(w, S)
    \/ \E s \in Steps : GoTo(w, s)
    \/ \E r \in Reasons : GiveUp(w, r)
    \/ RetryOrGiveUp(w)

WorkerTypeOK ==
    /\ batch \in [Workers -> SUBSET Ids]
    /\ step \in [Workers -> Steps]
    /\ tries \in [Workers -> 0..(MaxRetries - 1)]
    /\ why \in [Workers -> Reasons]

\* The moves of a worker keep the types of its variables.
LEMMA MovesTypeOK ==
    ASSUME WorkerTypeOK, NEW w \in Workers, Moves(w), UNCHANGED stream
    PROVE  WorkerTypeOK'
<1>. USE DEF WorkerTypeOK
<1>0. MaxRetries \in Nat /\ MaxRetries > 0
  BY ReservationAssumption
<1>1. ASSUME NEW S \in SUBSET Ids, TakeUp(w, S) PROVE WorkerTypeOK'
  BY <1>0, <1>1 DEF TakeUp, Steps, Ids
<1>2. ASSUME NEW s \in Steps, GoTo(w, s) PROVE WorkerTypeOK'
  BY <1>2 DEF GoTo, Ids
<1>3. ASSUME NEW r \in Reasons, GiveUp(w, r) PROVE WorkerTypeOK'
  BY <1>3 DEF GiveUp, Steps, Ids
<1>4. ASSUME tries[w] + 1 < MaxRetries, tries' = [tries EXCEPT ![w] = @ + 1],
             UNCHANGED <<batch, step, why>>
      PROVE  WorkerTypeOK'
  BY <1>0, <1>4 DEF Ids
<1>5. CASE RetryOrGiveUp(w)
  BY <1>3, <1>4, <1>5 DEF RetryOrGiveUp, Reasons
<1>. QED
  BY <1>1, <1>2, <1>3, <1>5 DEF Moves

\* A failure leaves the budget a number.
LEMMA FaultTypeOK ==
    ASSUME EnvTypeOK, UNCHANGED phase,
           UNCHANGED budget \/ \E kind \in FaultKinds : Fault(kind)
    PROVE  EnvTypeOK'
BY EnvironmentAssumption DEF EnvTypeOK, Fault

\* The variables have their types at the start.
LEMMA InitTypeOK == Init => TypeOK
<1>. SUFFICES ASSUME Init PROVE TypeOK
  OBVIOUS
<1>. USE DEF Init
<1>1. EnvTypeOK
  BY EnvironmentAssumption DEF EnvInit, EnvTypeOK, Phases
<1>2. PgTypeOK
  BY CatalogAssumption DEF PgInit, PgTypeOK, Statuses
<1>3. RedisTypeOK
  BY CatalogAssumption DEF ResInit, RedisTypeOK
<1>4. stream = <<>> /\ stream \in Seq(Orders) /\ Len(stream) = 0
  BY DEF ResInit
<1>. QED
  BY <1>1, <1>2, <1>3, <1>4, ReservationAssumption
     DEF ResInit, TypeOK, ApiStates, Modes, Steps, Reasons, Ids

\* BookTicket keeps the types: the quantity stays a number because the script
\* refuses what it cannot subtract, and every id stays an id.
LEMMA DeductTypeOK ==
    ASSUME TypeOK, NEW o \in Orders, Deduct(o)
    PROVE  TypeOK'
<1>. USE DEF TypeOK
<1>1. EnvTypeOK'
  <2>1. budget' \in 0..MaxFaults
    BY EnvironmentAssumption DEF Deduct, DeductAndQueue, Fault, EnvTypeOK
  <2>2. phase' \in [Orders -> Phases]
    BY DEF Deduct, DeductAndQueue, OpenWindow, EnvTypeOK, Phases
  <2>. QED
    BY <2>1, <2>2 DEF EnvTypeOK
<1>2. PgTypeOK'
  BY DEF Deduct, pgVars, PgTypeOK
<1>3. RedisTypeOK'
  <2>1. qty' \in Nat
    BY QuantityNat DEF Deduct, DeductAndQueue, DeductSoldOut, RedisTypeOK
  <2>. QED
    BY <2>1 DEF Deduct, RedisTypeOK
<1>4. api' \in [Orders -> ApiStates]
  BY DEF Deduct, Answer, ApiStates
<1>5. stream' \in Seq(Orders) /\ (Len(stream') = Len(stream) \/ Len(stream') = Len(stream) + 1)
  <2>1. stream' = stream \/ stream' = Append(stream, o)
    BY DEF Deduct, DeductAndQueue
  <2>2. stream \in Seq(Orders)
    OBVIOUS
  <2>3. Append(stream, o) \in Seq(Orders) /\ Len(Append(stream, o)) = Len(stream) + 1
    BY <2>2, AppendProperties
  <2>. QED
    BY <2>1, <2>2, <2>3
<1>6. Ids \subseteq Ids' /\ cursor \in 0..Len(stream')
  BY <1>5 DEF Ids
<1>7. pel' = pel /\ dlq' = dlq /\ mode' = mode /\ cursor' = cursor /\ meta' = meta
        /\ batch' = batch /\ step' = step /\ tries' = tries /\ why' = why /\ left' = left
  BY DEF Deduct, workerVars
<1>8. pel \in [Workers -> SUBSET Ids'] /\ batch \in [Workers -> SUBSET Ids']
        /\ dlq \subseteq [msg : Ids', reason : Reasons] /\ left \subseteq Ids'
  BY <1>6
<1>. QED
  BY <1>1, <1>2, <1>3, <1>4, <1>5, <1>6, <1>7, <1>8

\* A step of a worker leaves the stream alone and keeps the types.
LEMMA WorkTypeOK ==
    ASSUME TypeOK, NEW w \in Workers, Work(w) \/ Crash(w)
    PROVE  TypeOK'
<1>. USE DEF TypeOK
<1>1. PgTypeOK'
  <2>1. PgStep
    BY NextIsPgStep DEF Next
  <2>. QED
    BY <2>1, PgStepTypeOK
<1>. DEFINE SameQueue == UNCHANGED <<phase, apiVars, stream>>
<1>2. SameQueue
  BY DEF Work, Start, ReadPending, ReadNew, Process, Revert, DeadLetter, Ack, Crash,
         apiVars, queueVars
<1>3. Ids' = Ids /\ api' = api /\ meta' = meta /\ stream' = stream
  BY <1>2 DEF Ids, apiVars
<1>4. EnvTypeOK'
  <2>1. \/ UNCHANGED budget
        \/ \E kind \in FaultKinds : Fault(kind)
    BY DEF Work, Start, ReadPending, ReadNew, Process, Revert, DeadLetter, Ack, Crash,
           FaultKinds
  <2>. QED
    BY <1>2, <2>1, FaultTypeOK
<1>5. ASSUME NEW S \in SUBSET Nat PROVE Lowest(S) \in SUBSET S
  BY DEF Lowest
<1>6. ASSUME batch[w] # {}
      PROVE  Current(w) \in batch[w] /\ Current(w) \in Ids /\ stream[Current(w)] \in Orders
  BY <1>6, CurrentIsRead
<1>w. WorkerTypeOK
  BY DEF WorkerTypeOK
<1>7. WorkerTypeOK'
  <2>1. ASSUME Start(w) PROVE Moves(w)
    BY <2>1 DEF Start, Read, Moves
  <2>2. CASE ReadPending(w)
    <3>0. pel[w] \in SUBSET Ids /\ pel[w] \in SUBSET Nat
      BY DEF Ids
    <3>1. Lowest(pel[w]) \in SUBSET Ids
      BY <1>5, <3>0
    <3>2. Moves(w) \/ UNCHANGED workerVars \/ UNCHANGED <<batch, step, tries, why>>
      BY <2>2, <3>1 DEF ReadPending, Read, Moves
    <3>. QED
      BY <1>3, <1>w, <3>2, MovesTypeOK DEF workerVars, WorkerTypeOK
  <2>3. ASSUME ReadNew(w) PROVE Moves(w)
    <3>1. Lowest((cursor + 1)..Len(stream)) \in SUBSET Ids
      BY <1>5 DEF Ids
    <3>. QED
      BY <2>3, <3>1 DEF ReadNew, Read, Moves
  <2>4. ASSUME Process(w) PROVE Moves(w)
    BY <2>4 DEF Process, Moves, Reasons, Steps
  <2>5. ASSUME NextMessage(w) \/ LeavePending(w) PROVE Moves(w)
    BY <2>5 DEF NextMessage, LeavePending, Moves
  <2>6. ASSUME Revert(w) \/ DeadLetter(w) \/ Ack(w) PROVE Moves(w)
    BY <2>6, <2>5 DEF Revert, DeadLetter, Ack, Moves, Steps
  <2>7. CASE Crash(w)
    BY <1>3, <2>7 DEF Crash, WorkerTypeOK
  <2>. QED
    BY <1>3, <1>w, <2>1, <2>2, <2>3, <2>4, <2>6, <2>7, MovesTypeOK DEF Work
<1>8. RedisTypeOK'
  <2>1. ASSUME Revert(w) PROVE RedisTypeOK'
    <3>1. QuantityOf[stream[Current(w)]] \in Nat /\ Current(w) \in Nat
      BY <1>6, <2>1, QuantityNat DEF Revert, Busy, Ids
    <3>2. RevertMsg(Current(w), QuantityOf[stream[Current(w)]]) \/ UNCHANGED redisVars
      BY <2>1 DEF Revert
    <3>3. /\ qty' \in {qty, qty + QuantityOf[stream[Current(w)]]}
          /\ revertedMsgs' \subseteq revertedMsgs \cup {Current(w)}
          /\ revertedOrders' = revertedOrders
      BY <3>2, Zenon DEF RevertMsg, redisVars
    <3>4. qty \in Nat /\ revertedMsgs \subseteq Nat /\ revertedOrders \subseteq Orders
      BY DEF RedisTypeOK
    <3>. QED
      BY <3>1, <3>3, <3>4 DEF RedisTypeOK
  <2>. QED
    BY <2>1 DEF Work, Start, ReadPending, ReadNew, Process, DeadLetter, Ack, Crash,
                redisVars, RedisTypeOK
<1>9. cursor' \in 0..Len(stream) /\ pel' \in [Workers -> SUBSET Ids]
  <2>1. CASE ReadNew(w)
    <3>. DEFINE new == Lowest((cursor + 1)..Len(stream))
    <3>1. Cardinality(new) \in Nat /\ cursor + Cardinality(new) <= Len(stream)
      BY LowestOfInterval
    <3>2. new \in SUBSET Ids
      BY <1>5 DEF Ids
    <3>3. cursor' = cursor + Cardinality(new) /\ pel' = [pel EXCEPT ![w] = @ \cup new]
      BY <2>1 DEF ReadNew
    <3>. HIDE DEF new
    <3>. QED
      BY <3>1, <3>2, <3>3
  <2>2. CASE Ack(w)
    BY <2>2 DEF Ack
  <2>. QED
    BY <2>1, <2>2 DEF Work, Start, ReadPending, Process, Revert, DeadLetter, Crash, queueVars
<1>10. dlq' \subseteq [msg : Ids, reason : Reasons]
  <2>1. CASE DeadLetter(w)
    <3>1. Current(w) \in Ids /\ why[w] \in Reasons
      BY <1>6, <2>1 DEF DeadLetter, Busy
    <3>. QED
      BY <2>1, <3>1 DEF DeadLetter
  <2>. QED
    BY <2>1 DEF Work, Start, ReadPending, ReadNew, Process, Revert, Ack, Crash, queueVars
<1>11. mode' \in [Workers -> Modes]
  BY DEF Work, Start, ReadPending, ReadNew, Process, Revert, DeadLetter, Ack, Crash, Modes
<1>12. left' \subseteq Ids
  <2>1. CASE Revert(w) \/ DeadLetter(w) \/ Ack(w)
    <3>1. Current(w) \in Ids
      BY <1>6, <2>1 DEF Revert, DeadLetter, Ack, Busy
    <3>. QED
      BY <2>1, <3>1 DEF Revert, DeadLetter, Ack, GoTo, NextMessage, LeavePending
  <2>2. CASE Start(w) \/ ReadPending(w) \/ ReadNew(w)
    BY <2>2 DEF Start, ReadPending, ReadNew, Read
  <2>3. CASE Process(w)
    BY <2>3 DEF Process, RetryOrGiveUp, GiveUp, GoTo
  <2>4. CASE Crash(w)
    BY <2>4 DEF Crash
  <2>. QED
    BY <2>1, <2>2, <2>3, <2>4 DEF Work
<1>. QED
  BY <1>1, <1>3, <1>4, <1>7, <1>8, <1>9, <1>10, <1>11, <1>12 DEF WorkerTypeOK

\* Every step keeps the types.
LEMMA NextTypeOK == TypeOK /\ [Next]_vars => TypeOK'
<1>. SUFFICES ASSUME TypeOK, [Next]_vars PROVE TypeOK'
  OBVIOUS
<1>1. CASE UNCHANGED vars
  BY <1>1 DEF TypeOK, EnvTypeOK, PgTypeOK, RedisTypeOK, Ids, vars, pgVars, redisVars,
              resVars, apiVars, queueVars, workerVars
<1>2. ASSUME NEW o \in Orders, RepairMetadata(o) PROVE TypeOK'
  <2>1. EnvTypeOK'
    BY <1>2, FaultTypeOK DEF TypeOK, RepairMetadata, FaultKinds
  <2>. QED
    BY <1>2, <2>1 DEF RepairMetadata, Answer, ApiStates, TypeOK, PgTypeOK, RedisTypeOK, Ids,
                      pgVars, redisVars, queueVars, workerVars
<1>3. ASSUME NEW o \in Orders, Lapse(o) PROVE TypeOK'
  <2>1. EnvTypeOK'
    BY <1>3 DEF TypeOK, Lapse, PassDeadline, EnvTypeOK, Phases
  <2>. QED
    BY <1>3, <2>1 DEF Lapse, TypeOK, PgTypeOK, RedisTypeOK, Ids, pgVars, redisVars,
                      resVars, apiVars, queueVars, workerVars
<1>4. CASE EvictMetadata
  <2>1. EnvTypeOK'
    BY <1>4, FaultTypeOK DEF TypeOK, EvictMetadata, FaultKinds
  <2>. QED
    BY <1>4, <2>1 DEF EvictMetadata, TypeOK, PgTypeOK, RedisTypeOK, Ids,
                      pgVars, redisVars, queueVars, workerVars
<1>. QED
  BY <1>1, <1>2, <1>3, <1>4, DeductTypeOK, WorkTypeOK DEF Next, Api, Rest

\* The variables of the booking path keep their types: Redis never holds a
\* negative quantity, available_tickets never falls below zero, the cursor never
\* runs ahead of the stream, and no attempt is made beyond the retry budget.
THEOREM ReservationTypeOK == Spec => []TypeOK
<1>. QED
  BY InitTypeOK, NextTypeOK, PTL DEF Spec

-----------------------------------------------------------------------------
(* The booking path implements OrderLifecycle *)

\* Seen from the tables the booking path is a behaviour of OrderLifecycle.
THEOREM ReservationImplements == Spec => ImplementsLifecycle
<1>1. Init => Lifecycle!Init
  BY PgInitIsInit DEF Init
<1>2. TypeOK /\ [Next]_vars
        => [Lifecycle!Next]_<<[o \in Orders |-> Life[status[o]]], available>>
  BY NextIsPgStep, PgStepIsLifecycleStep DEF TypeOK
<1>. QED
  BY <1>1, <1>2, ReservationTypeOK, PTL DEF Spec, ImplementsLifecycle, Lifecycle!Spec

\* Whatever the queue delivers twice and whichever worker repeats it, no ticket
\* is sold twice.
THEOREM ReservationConserves == Spec => []TicketsConserved
<1>1. Lifecycle!Inv /\ TypeOK => TicketsConserved
  BY LifecycleInvariants DEF TypeOK
<1>. QED
  BY <1>1, ReservationTypeOK, ReservationImplements, PgLifecycleInv, PTL DEF ImplementsLifecycle

\* Whatever the queue delivers twice, no customer gets two orders.
THEOREM ReservationOneOrder == Spec => []OneOrderPerCustomer
<1>1. Lifecycle!Inv /\ TypeOK => OneOrderPerCustomer
  BY LifecycleInvariants DEF TypeOK
<1>. QED
  BY <1>1, ReservationTypeOK, ReservationImplements, PgLifecycleInv, PTL DEF ImplementsLifecycle

-----------------------------------------------------------------------------
(* No delivered booking is lost *)

\* What makes it inductive: a worker about to dead-letter a message has given
\* its tickets back, and one about to acknowledge a message has resolved it.
DeliveryInv ==
    /\ DeadLetteredIsReverted
    /\ NoBookingLost
    /\ \A w \in Workers :
        /\ Busy(w, "dlq") => Current(w) \in revertedMsgs
        /\ Busy(w, "ack") => Resolved(Current(w))

\* A message keeps its id and its order, and what became of it: an order keeps
\* a row, a revert stays recorded, the dead-letter stream only grows.
LEMMA ResolvedStays ==
    ASSUME TypeOK, [Next]_vars
    PROVE  /\ revertedMsgs \subseteq revertedMsgs'
           /\ dlq \subseteq dlq'
           /\ \A m \in Ids : Resolved(m) => Resolved(m)'
<1>1. revertedMsgs \subseteq revertedMsgs' /\ dlq \subseteq dlq'
  BY DEF Next, Api, Work, Lapse, Deduct, RepairMetadata, EvictMetadata, Start, ReadPending,
         ReadNew, Process, Revert, RevertMsg, DeadLetter, Ack, Crash, Rest,
         vars, redisVars, resVars, queueVars
<1>2. \A m \in Ids : m \in Ids' /\ stream'[m] = stream[m]
  <2>1. stream' = stream \/ \E o \in Orders : stream' = Append(stream, o)
    BY DEF Next, Api, Work, Lapse, Deduct, DeductAndQueue, RepairMetadata, EvictMetadata, Start,
           ReadPending, ReadNew, Process, Revert, DeadLetter, Ack, Crash, Rest,
           vars, resVars, queueVars
  <2>2. stream \in Seq(Orders)
    BY DEF TypeOK
  <2>3. ASSUME NEW o \in Orders
        PROVE  /\ Len(Append(stream, o)) = Len(stream) + 1
               /\ \A m \in 1..Len(stream) : Append(stream, o)[m] = stream[m]
    BY <2>2, AppendProperties
  <2>. QED
    BY <2>1, <2>2, <2>3 DEF Ids
<1>3. \A o \in Orders : status[o] # "absent" => status'[o] # "absent"
  <2>1. PgStep /\ status \in [Orders -> Statuses]
    BY NextIsPgStep DEF TypeOK, PgTypeOK
  <2>. QED
    BY <2>1 DEF PgStep, InsertReservation, MarkPaid, FailOrder, CompensateOrder, FailedStatuses,
                pgVars
<1>4. \A m \in Ids : stream[m] \in Orders
  BY DEF TypeOK, Ids
<1>. QED
  BY <1>1, <1>2, <1>3, <1>4 DEF Resolved

\* A worker that moves does not disturb the others.
LEMMA OthersStay ==
    ASSUME TypeOK, NEW w \in Workers, Work(w) \/ Crash(w), NEW v \in Workers, v # w
    PROVE  /\ \A s \in Steps : Busy(v, s)' <=> Busy(v, s)
           /\ Current(v)' = Current(v)
           /\ pel'[v] = pel[v]
<1>1. batch'[v] = batch[v] /\ step'[v] = step[v]
  BY DEF Work, Start, ReadPending, ReadNew, Process, Revert, DeadLetter, Ack, Crash,
         TakeUp, Read, NextMessage, LeavePending, GoTo, GiveUp, RetryOrGiveUp, TypeOK
<1>2. pel'[v] = pel[v]
  BY DEF Work, Start, ReadPending, ReadNew, Process, Revert, DeadLetter, Ack, Crash,
         queueVars, TypeOK
<1>. QED
  BY <1>1, <1>2 DEF Busy, Current

\* The deliveries are accounted for at the start.
LEMMA InitDeliveryInv == Init => DeliveryInv
<1>. SUFFICES ASSUME Init PROVE DeliveryInv
  OBVIOUS
<1>1. cursor = 0 /\ dlq = {} /\ \A w \in Workers : batch[w] = {}
  BY DEF Init, ResInit
<1>2. 1..cursor = {}
  BY <1>1
<1>. QED
  BY <1>1, <1>2 DEF DeliveryInv, DeadLetteredIsReverted, NoBookingLost, Busy

\* How a worker comes to be about to dead-letter, or to acknowledge, a message.
LEMMA WorkerPromises ==
    ASSUME TypeOK, DeliveryInv, NEW w \in Workers, Work(w) \/ Crash(w)
    PROVE  /\ Busy(w, "dlq")' => Current(w)' \in revertedMsgs'
           /\ Busy(w, "ack")' => Resolved(Current(w))'
<1>. DEFINE m == Current(w)
            Promise == /\ Busy(w, "dlq")' => Current(w)' \in revertedMsgs'
                       /\ Busy(w, "ack")' => Resolved(Current(w))'
<1>0. /\ batch \in [Workers -> SUBSET Ids] /\ step \in [Workers -> Steps]
      /\ status \in [Orders -> Statuses]
  BY DEF TypeOK, PgTypeOK
<1>a. ASSUME NEW S, TakeUp(w, S) PROVE Promise
  BY <1>0, <1>a DEF TakeUp, Busy
<1>b. ASSUME batch'[w] = batch[w] PROVE Current(w)' = Current(w)
  BY <1>b DEF Current
<1>c. ASSUME step'[w] \notin {"dlq", "ack"} PROVE Promise
  BY <1>c DEF Busy
<1>d. ASSUME batch'[w] = {} PROVE Promise
  BY <1>d DEF Busy
<1>1. CASE Start(w)
  BY <1>1, <1>a DEF Start, Read
<1>2. CASE ReadPending(w)
  BY <1>2, <1>a, <1>d DEF ReadPending, Read
<1>3. CASE ReadNew(w)
  BY <1>3, <1>a DEF ReadNew, Read
<1>4. CASE Process(w)
  <2>1. CASE InsertReservation(stream[m]) /\ GoTo(w, "ack")
    <3>1. stream[m] \in Orders
      BY <1>4, CurrentIsRead DEF Process, Busy
    <3>2. status'[stream[m]] # "absent" /\ stream' = stream
      BY <1>0, <1>4, <2>1, <3>1 DEF InsertReservation, Process, queueVars
    <3>3. batch'[w] = batch[w] /\ step'[w] = "ack"
      BY <1>0, <2>1 DEF GoTo
    <3>4. Resolved(Current(w))'
      BY <1>b, <3>2, <3>3 DEF Resolved
    <3>. QED
      BY <3>3, <3>4 DEF Busy
  <2>2. CASE RetryOrGiveUp(w) \/ \E r \in Reasons : GiveUp(w, r)
    <3>1. step'[w] \notin {"dlq", "ack"}
      BY <1>0, <1>4, <2>2 DEF RetryOrGiveUp, GiveUp, Process, Busy
    <3>. QED
      BY <1>c, <3>1
  <2>. QED
    BY <1>4, <2>1, <2>2 DEF Process, Reasons
<1>5. CASE Revert(w)
  <2>1. CASE LeavePending(w)
    BY <1>a, <2>1 DEF LeavePending
  <2>2. CASE m \in revertedMsgs' /\ GoTo(w, "dlq")
    BY <1>0, <1>b, <2>2 DEF GoTo, Busy
  <2>. QED
    BY <1>5, <2>1, <2>2 DEF Revert, RevertMsg
<1>6. CASE DeadLetter(w)
  <2>1. CASE LeavePending(w)
    BY <1>a, <2>1 DEF LeavePending
  <2>2. CASE dlq' = dlq \cup {[msg |-> m, reason |-> why[w]]} /\ GoTo(w, "ack")
    <3>1. batch'[w] = batch[w] /\ step'[w] = "ack" /\ revertedMsgs' = revertedMsgs
      BY <1>0, <1>6, <2>2 DEF GoTo, DeadLetter, redisVars
    <3>2. m \in revertedMsgs
      BY <1>6 DEF DeliveryInv, DeadLetter
    <3>3. \E d \in dlq' : d.msg = m
      <4>1. [msg |-> m, reason |-> why[w]].msg = m
        OBVIOUS
      <4>. QED
        BY <2>2, <4>1
    <3>4. Resolved(Current(w))'
      BY <1>b, <3>1, <3>2, <3>3 DEF Resolved
    <3>. QED
      BY <3>1, <3>4 DEF Busy
  <2>. QED
    BY <1>6, <2>1, <2>2 DEF DeadLetter
<1>7. CASE Ack(w)
  BY <1>7, <1>a DEF Ack, NextMessage
<1>8. CASE Crash(w)
  BY <1>0, <1>8, <1>d DEF Crash
<1>. QED
  BY <1>1, <1>2, <1>3, <1>4, <1>5, <1>6, <1>7, <1>8 DEF Work

\* A step of a worker keeps every delivery accounted for.
LEMMA WorkDeliveryInv ==
    ASSUME TypeOK, DeliveryInv, NEW w \in Workers, Work(w) \/ Crash(w)
    PROVE  DeliveryInv'
<1>0. [Next]_vars
  BY DEF Next
<1>1. /\ revertedMsgs \subseteq revertedMsgs'
      /\ dlq \subseteq dlq'
      /\ \A m \in Ids : Resolved(m) => Resolved(m)'
  BY <1>0, ResolvedStays
<1>2. DeadLetteredIsReverted'
  <2>1. CASE DeadLetter(w)
    <3>1. Current(w) \in revertedMsgs
      BY <2>1 DEF DeliveryInv, DeadLetter
    <3>2. \A d \in dlq' : d \in dlq \/ d.msg = Current(w)
      BY <2>1 DEF DeadLetter
    <3>. QED
      BY <1>1, <3>1, <3>2 DEF DeliveryInv, DeadLetteredIsReverted
  <2>2. CASE UNCHANGED dlq
    BY <1>1, <2>2 DEF DeliveryInv, DeadLetteredIsReverted
  <2>. QED
    BY <2>1, <2>2 DEF Work, Start, ReadPending, ReadNew, Process, Revert, Ack, Crash, queueVars
<1>3. ASSUME NEW v \in Workers
      PROVE  /\ Busy(v, "dlq")' => Current(v)' \in revertedMsgs'
             /\ Busy(v, "ack")' => Resolved(Current(v))'
  <2>1. CASE v = w
    BY <2>1, WorkerPromises
  <2>2. CASE v # w
    <3>1. /\ Busy(v, "dlq")' <=> Busy(v, "dlq")
          /\ Busy(v, "ack")' <=> Busy(v, "ack")
          /\ Current(v)' = Current(v)
      BY <2>2, OthersStay DEF Steps
    <3>2. Busy(v, "ack") => Current(v) \in Ids
      BY CurrentIsRead DEF Busy
    <3>3. Busy(v, "dlq") => Current(v) \in revertedMsgs
      BY DEF DeliveryInv
    <3>4. \A m \in Ids : Busy(v, "ack") /\ m = Current(v) => Resolved(m)'
      BY <1>1 DEF DeliveryInv
    <3>. QED
      BY <1>1, <3>1, <3>2, <3>3, <3>4 DEF Resolved
  <2>. QED
    BY <2>1, <2>2
<1>4. NoBookingLost'
  <2>. SUFFICES ASSUME NEW m \in 1..cursor'
                PROVE  Resolved(m)' \/ \E v \in Workers : m \in pel'[v]
    BY DEF NoBookingLost
  <2>0. cursor \in Nat /\ cursor <= Len(stream) /\ pel \in [Workers -> SUBSET Ids]
    BY DEF TypeOK
  <2>1. CASE m \in 1..cursor
    <3>1. m \in Ids
      BY <2>0, <2>1 DEF Ids, TypeOK
    <3>2. CASE Resolved(m)
      BY <1>1, <3>1, <3>2
    <3>3. ASSUME NEW v \in Workers, m \in pel[v]
          PROVE  Resolved(m)' \/ m \in pel'[v]
      <4>1. CASE v # w
        BY <3>3, <4>1, OthersStay
      <4>2. CASE Ack(w) /\ m = Current(w)
        <5>1. Resolved(Current(w))
          BY <4>2 DEF DeliveryInv, Ack
        <5>. QED
          BY <1>1, <3>1, <4>2, <5>1
      <4>3. CASE v = w /\ ~(Ack(w) /\ m = Current(w))
        BY <2>0, <3>3, <4>3 DEF Work, Start, ReadPending, ReadNew, Process, Revert, DeadLetter,
                                Ack, Crash, queueVars
      <4>. QED
        BY <4>1, <4>2, <4>3
    <3>. QED
      BY <2>1, <3>2, <3>3 DEF DeliveryInv, NoBookingLost
  <2>2. CASE m \notin 1..cursor
    <3>. DEFINE new == Lowest((cursor + 1)..Len(stream))
    <3>1. ReadNew(w)
      BY <2>2 DEF Work, Start, ReadPending, Process, Revert, DeadLetter, Ack, Crash, queueVars
    <3>2. /\ cursor' = cursor + Cardinality(new)
          /\ pel'[w] = pel[w] \cup new
      BY <2>0, <3>1 DEF ReadNew
    <3>3. Len(stream) \in Nat
      BY DEF TypeOK
    <3>4. new = (cursor + 1)..(cursor + Cardinality(new)) /\ Cardinality(new) \in Nat
      BY <2>0, <3>3, LowestOfInterval
    <3>. HIDE DEF new
    <3>5. m \in (cursor + 1)..(cursor + Cardinality(new))
      BY <2>0, <2>2, <3>2, <3>4
    <3>. QED
      BY <3>2, <3>4, <3>5
  <2>. QED
    BY <2>1, <2>2
<1>. QED
  BY <1>2, <1>3, <1>4 DEF DeliveryInv

\* Every step keeps every delivery accounted for.
LEMMA NextDeliveryInv == TypeOK /\ DeliveryInv /\ [Next]_vars => DeliveryInv'
<1>. SUFFICES ASSUME TypeOK, DeliveryInv, [Next]_vars PROVE DeliveryInv'
  OBVIOUS
<1>1. CASE UNCHANGED <<revertedMsgs, cursor, pel, dlq, workerVars>>
  <2>1. /\ revertedMsgs' = revertedMsgs /\ dlq' = dlq /\ cursor' = cursor /\ pel' = pel
        /\ batch' = batch /\ step' = step
    BY <1>1 DEF workerVars
  <2>2. \A m \in Ids : Resolved(m) => Resolved(m)'
    BY ResolvedStays
  <2>3. \A m \in 1..cursor : m \in Ids
    BY DEF TypeOK, Ids
  <2>4. NoBookingLost'
    BY <2>1, <2>2, <2>3 DEF DeliveryInv, NoBookingLost
  <2>5. ASSUME NEW w \in Workers
        PROVE  /\ Busy(w, "dlq")' => Current(w)' \in revertedMsgs'
               /\ Busy(w, "ack")' => Resolved(Current(w))'
    <3>1. Current(w)' = Current(w) /\ (Busy(w, "dlq")' <=> Busy(w, "dlq"))
            /\ (Busy(w, "ack")' <=> Busy(w, "ack"))
      BY <2>1 DEF Current, Busy
    <3>2. Busy(w, "ack") => Current(w) \in Ids
      BY CurrentIsRead DEF Busy
    <3>3. \A m \in Ids : Busy(w, "ack") /\ m = Current(w) => Resolved(m)'
      BY <2>2 DEF DeliveryInv
    <3>4. Busy(w, "dlq") => Current(w) \in revertedMsgs
      BY DEF DeliveryInv
    <3>. QED
      BY <2>1, <3>1, <3>2, <3>3, <3>4 DEF Resolved
  <2>. QED
    BY <2>1, <2>4, <2>5 DEF DeliveryInv, DeadLetteredIsReverted
<1>2. ASSUME NEW o \in Orders, Api(o) \/ Lapse(o)
      PROVE  UNCHANGED <<revertedMsgs, cursor, pel, dlq, workerVars>>
  BY <1>2 DEF Api, Deduct, RepairMetadata, Lapse, redisVars, resVars, queueVars
<1>3. CASE EvictMetadata \/ Rest \/ UNCHANGED vars
  BY <1>1, <1>3 DEF EvictMetadata, Rest, vars, redisVars, resVars, queueVars
<1>. QED
  BY <1>1, <1>2, <1>3, WorkDeliveryInv DEF Next

\* Every delivered booking is accounted for, through any crashes and failures.
LEMMA SpecDeliveryInv == Spec => []DeliveryInv
<1>. QED
  BY InitDeliveryInv, NextDeliveryInv, ReservationTypeOK, PTL DEF Spec

\* Every delivered message is pending at a worker, or an order, or given back
\* and dead-lettered, for any number of workers and failures.
THEOREM ReservationLosesNothing == Spec => []NoBookingLost
<1>1. DeliveryInv => NoBookingLost
  BY DEF DeliveryInv
<1>. QED
  BY <1>1, SpecDeliveryInv, PTL

\* What is in the dead-letter stream has been given back to Redis.
THEOREM ReservationDeadLetters == Spec => []DeadLetteredIsReverted
<1>1. DeliveryInv => DeadLetteredIsReverted
  BY DEF DeliveryInv
<1>. QED
  BY <1>1, SpecDeliveryInv, PTL
-----------------------------------------------------------------------------
(* The ledger of Redis *)

\* The tickets of some messages of a stream.
QueuedTickets(str, S) == {t \in S \X (1..MaxQuantity) : t[2] <= QuantityOf[str[t[1]]]}

\* They are finitely many.
LEMMA QueuedFinite ==
    ASSUME NEW str \in Seq(Orders), NEW S \in SUBSET (1..Len(str))
    PROVE  IsFiniteSet(QueuedTickets(str, S)) /\ Cardinality(QueuedTickets(str, S)) \in Nat
<1>1. IsFiniteSet(1..Len(str)) /\ IsFiniteSet(1..MaxQuantity)
  BY FS_Interval, CatalogAssumption
<1>2. IsFiniteSet(S)
  BY <1>1, FS_Subset
<1>3. IsFiniteSet(S \X (1..MaxQuantity))
  BY <1>1, <1>2, FS_Product
<1>4. QueuedTickets(str, S) \in SUBSET (S \X (1..MaxQuantity))
  BY DEF QueuedTickets
<1>5. IsFiniteSet(QueuedTickets(str, S))
  BY <1>3, <1>4, FS_Subset
<1>. QED
  BY <1>5, FS_CardinalityType

\* A message has as many as its order.
LEMMA QueuedOfOne ==
    ASSUME NEW str \in Seq(Orders), NEW m \in 1..Len(str)
    PROVE  Cardinality(QueuedTickets(str, {m})) = QuantityOf[str[m]]
<1>. DEFINE q == QuantityOf[str[m]]
            f == [i \in 1..q |-> <<m, i>>]
<1>0. str[m] \in Orders
  OBVIOUS
<1>1. q \in 1..MaxQuantity
  BY <1>0, CatalogAssumption
<1>2. q \in Nat /\ 1..q \subseteq 1..MaxQuantity
  BY <1>1, CatalogAssumption
<1>3. \A t \in QueuedTickets(str, {m}) : t = <<m, t[2]>> /\ t[2] \in 1..q
  BY <1>1, <1>2 DEF QueuedTickets
<1>4. \A i \in 1..q : <<m, i>> \in QueuedTickets(str, {m})
  BY <1>1, <1>2 DEF QueuedTickets
<1>5. f \in Bijection(1..q, QueuedTickets(str, {m}))
  <2>1. f \in [1..q -> QueuedTickets(str, {m})]
    BY <1>4
  <2>2. \A i, j \in 1..q : f[i] = f[j] => i = j
    OBVIOUS
  <2>3. \A t \in QueuedTickets(str, {m}) : \E i \in 1..q : f[i] = t
    BY <1>3
  <2>. QED
    BY <2>1, <2>2, <2>3 DEF Bijection, Injection, Surjection, IsInjective
<1>. QED
  BY <1>2, <1>5, FS_CountingElements DEF ExistsBijection

\* One more message adds its quantity.
LEMMA QueuedOfOneMore ==
    ASSUME NEW str \in Seq(Orders), NEW S \in SUBSET (1..Len(str)), NEW m \in (1..Len(str)) \ S
    PROVE  Cardinality(QueuedTickets(str, S \cup {m}))
             = Cardinality(QueuedTickets(str, S)) + QuantityOf[str[m]]
<1>1. QueuedTickets(str, S \cup {m}) = QueuedTickets(str, S) \cup QueuedTickets(str, {m})
  BY DEF QueuedTickets
<1>2. QueuedTickets(str, S) \cap QueuedTickets(str, {m}) = {}
  BY DEF QueuedTickets
<1>3. /\ IsFiniteSet(QueuedTickets(str, S)) /\ Cardinality(QueuedTickets(str, S)) \in Nat
      /\ IsFiniteSet(QueuedTickets(str, {m}))
  BY QueuedFinite
<1>4. Cardinality(QueuedTickets(str, S) \cap QueuedTickets(str, {m})) = 0
  BY <1>2, FS_EmptySet
<1>5. str[m] \in Orders /\ QuantityOf[str[m]] \in Nat
  BY QuantityNat
<1>6. Cardinality(QueuedTickets(str, S \cup {m}))
        = Cardinality(QueuedTickets(str, S)) + Cardinality(QueuedTickets(str, {m})) - 0
  BY <1>1, <1>3, <1>4, FS_Union
<1>. QED
  BY <1>3, <1>5, <1>6, QueuedOfOne

\* What a stream is extended by changes nothing for the messages it has.
LEMMA QueuedBefore ==
    ASSUME NEW str \in Seq(Orders), NEW o \in Orders, NEW S \in SUBSET (1..Len(str))
    PROVE  QueuedTickets(Append(str, o), S) = QueuedTickets(str, S)
<1>1. \A i \in 1..Len(str) : Append(str, o)[i] = str[i]
  BY AppendProperties
<1>. QED
  BY <1>1 DEF QueuedTickets

\* What a step does to the quantity in Redis: it queues a message and takes its
\* tickets, runs revert.lua for a message of the stream, or does nothing.
QueueStep ==
    \/ \E o \in Orders : /\ QuantityOf[o] <= qty
                         /\ qty' = qty - QuantityOf[o]
                         /\ stream' = Append(stream, o)
                         /\ UNCHANGED <<revertedMsgs, revertedOrders>>
    \/ \E m \in Ids : RevertMsg(m, QuantityOf[stream[m]]) /\ UNCHANGED stream
    \/ UNCHANGED <<redisVars, stream>>

\* Every step is one.
LEMMA NextIsQueueStep == TypeOK /\ [Next]_vars => QueueStep
<1>. SUFFICES ASSUME TypeOK, [Next]_vars PROVE QueueStep
  OBVIOUS
<1>1. ASSUME NEW o \in Orders, Deduct(o) PROVE QueueStep
  <2>1. UNCHANGED <<revertedMsgs, revertedOrders>>
    BY <1>1 DEF Deduct
  <2>2. CASE DeductAndQueue(o)
    <3>1. qty \in Nat /\ QuantityOf[o] \in Nat
      BY QuantityNat DEF TypeOK, RedisTypeOK
    <3>2. QuantityOf[o] <= qty
      BY <2>2, <3>1 DEF DeductAndQueue, DeductSoldOut
    <3>. QED
      BY <2>1, <2>2, <3>2 DEF DeductAndQueue, QueueStep
  <2>3. CASE UNCHANGED <<qty, stream>>
    BY <2>1, <2>3 DEF QueueStep, redisVars
  <2>. QED
    BY <1>1, <2>2, <2>3 DEF Deduct
<1>2. ASSUME NEW w \in Workers, Revert(w) PROVE QueueStep
  <2>1. Current(w) \in Ids
    BY <1>2, CurrentIsRead DEF Revert, Busy
  <2>. QED
    BY <1>2, <2>1 DEF Revert, QueueStep, queueVars
<1>3. ASSUME NEW o \in Orders, RepairMetadata(o) \/ Lapse(o) PROVE QueueStep
  BY <1>3 DEF RepairMetadata, Lapse, resVars, queueVars, QueueStep
<1>4. ASSUME NEW w \in Workers,
             Start(w) \/ ReadPending(w) \/ ReadNew(w) \/ Process(w) \/ DeadLetter(w)
               \/ Ack(w) \/ Crash(w)
      PROVE  QueueStep
  BY <1>4 DEF Start, ReadPending, ReadNew, Process, DeadLetter, Ack, Crash, queueVars, QueueStep
<1>5. CASE EvictMetadata \/ Rest \/ UNCHANGED vars
  BY <1>5 DEF EvictMetadata, Rest, vars, resVars, queueVars, QueueStep
<1>. QED
  BY <1>1, <1>2, <1>3, <1>4, <1>5 DEF Next, Api, Work

\* The ledger, by the stream as it is; only what was queued is ever reverted.
LedgerInv ==
    /\ revertedMsgs \subseteq Ids
    /\ qty + Cardinality(QueuedTickets(stream, Ids)) =
           TotalTickets + Cardinality(QueuedTickets(stream, revertedMsgs))
                        + Cardinality(Tickets(revertedOrders))

\* Such a step keeps it.
LEMMA QueueStepLedgerInv == TypeOK /\ LedgerInv /\ QueueStep => LedgerInv'
<1>. SUFFICES ASSUME TypeOK, LedgerInv, QueueStep PROVE LedgerInv'
  OBVIOUS
<1>. DEFINE N(str, S) == Cardinality(QueuedTickets(str, S))
            K == Cardinality(Tickets(revertedOrders))
<1>0. /\ qty \in Nat /\ TotalTickets \in Nat /\ stream \in Seq(Orders)
      /\ revertedMsgs \in SUBSET Ids /\ Ids = 1..Len(stream) /\ Len(stream) \in Nat
      /\ revertedOrders \in SUBSET Orders
  BY CatalogAssumption DEF TypeOK, RedisTypeOK, LedgerInv, Ids
<1>1. /\ N(stream, Ids) \in Nat /\ N(stream, revertedMsgs) \in Nat /\ K \in Nat
      /\ qty + N(stream, Ids) = TotalTickets + N(stream, revertedMsgs) + K
  BY <1>0, QueuedFinite, TicketsFinite DEF LedgerInv
<1>2. ASSUME NEW o \in Orders, QuantityOf[o] <= qty, qty' = qty - QuantityOf[o],
             stream' = Append(stream, o), UNCHANGED <<revertedMsgs, revertedOrders>>
      PROVE  LedgerInv'
  <2>. DEFINE m == Len(stream) + 1
  <2>1. stream' \in Seq(Orders) /\ Len(stream') = m /\ stream'[m] = o
    BY <1>0, <1>2, AppendProperties
  <2>2. Ids' = Ids \cup {m} /\ m \in (1..Len(stream')) \ Ids /\ Ids \in SUBSET (1..Len(stream'))
    BY <1>0, <2>1 DEF Ids
  <2>3. N(stream', Ids') = N(stream', Ids) + QuantityOf[o]
    BY <2>1, <2>2, QueuedOfOneMore
  <2>4. N(stream', Ids) = N(stream, Ids) /\ N(stream', revertedMsgs) = N(stream, revertedMsgs)
    BY <1>0, <1>2, QueuedBefore
  <2>5. QuantityOf[o] \in Nat
    BY QuantityNat
  <2>6. revertedMsgs' \subseteq Ids'
    BY <1>0, <1>2, <2>2
  <2>7. N(stream', revertedMsgs') = N(stream, revertedMsgs) /\ Cardinality(Tickets(revertedOrders')) = K
    BY <1>2, <2>4
  <2>. HIDE DEF N, K, m
  <2>8. qty' + N(stream', Ids') = TotalTickets + N(stream', revertedMsgs') + K
    BY <1>0, <1>1, <1>2, <2>3, <2>4, <2>5, <2>7
  <2>. QED
    BY <2>6, <2>7, <2>8 DEF LedgerInv, N, K, Tickets
<1>3. ASSUME NEW m \in Ids, RevertMsg(m, QuantityOf[stream[m]]), UNCHANGED stream
      PROVE  LedgerInv'
  <2>1. /\ Ids' = Ids /\ stream' = stream /\ revertedOrders' = revertedOrders
        /\ revertedMsgs' = revertedMsgs \cup {m}
    BY <1>3 DEF RevertMsg, Ids
  <2>2. QuantityOf[stream[m]] \in Nat
    BY <1>0, QuantityNat
  <2>3. qty' + N(stream, Ids) = TotalTickets + N(stream, revertedMsgs') + K
    <3>1. CASE m \in revertedMsgs
      <4>1. qty' = qty /\ revertedMsgs' = revertedMsgs
        BY <1>3, <2>1, <3>1 DEF RevertMsg
      <4>. QED
        BY <1>1, <4>1
    <3>2. CASE m \notin revertedMsgs
      <4>1. qty' = qty + QuantityOf[stream[m]]
        BY <1>3, <3>2 DEF RevertMsg
      <4>2. N(stream, revertedMsgs') = N(stream, revertedMsgs) + QuantityOf[stream[m]]
        BY <1>0, <2>1, <3>2, QueuedOfOneMore
      <4>. DEFINE queued == N(stream, Ids)
                  back == N(stream, revertedMsgs)
                  n == QuantityOf[stream[m]]
      <4>3. /\ queued \in Nat /\ back \in Nat /\ n \in Nat /\ K \in Nat
            /\ qty + queued = TotalTickets + back + K
            /\ qty' = qty + n
            /\ N(stream, revertedMsgs') = back + n
        BY <1>1, <2>2, <4>1, <4>2
      <4>4. SUFFICES qty' + queued = TotalTickets + N(stream, revertedMsgs') + K
        OBVIOUS
      <4>. HIDE DEF N, K, queued, back, n
      <4>. QED
        BY <1>0, <4>3
    <3>. QED
      BY <3>1, <3>2
  <2>4. revertedMsgs' \subseteq Ids'
    BY <1>0, <2>1
  <2>. QED
    BY <2>1, <2>3, <2>4 DEF LedgerInv, Tickets
<1>4. CASE UNCHANGED <<redisVars, stream>>
  BY <1>4 DEF redisVars, LedgerInv, Ids, Tickets
<1>. QED
  BY <1>2, <1>3, <1>4 DEF QueueStep

\* The ledger balances at the start.
LEMMA InitLedgerInv == Init => LedgerInv
<1>. SUFFICES ASSUME Init PROVE LedgerInv
  OBVIOUS
<1>1. Ids = {} /\ revertedMsgs = {} /\ revertedOrders = {} /\ qty = TotalTickets
  BY DEF Init, ResInit, Ids
<1>2. QueuedTickets(stream, {}) = {} /\ Tickets({}) = {}
  BY DEF QueuedTickets, Tickets
<1>3. Cardinality({}) = 0
  BY FS_EmptySet
<1>. QED
  BY <1>1, <1>2, <1>3, CatalogAssumption DEF LedgerInv

\* Every step of the booking path keeps it.
LEMMA NextLedgerInv == TypeOK /\ LedgerInv /\ [Next]_vars => LedgerInv'
BY NextIsQueueStep, QueueStepLedgerInv

\* What Redis lacks is what was queued and not given back, through lost replies,
\* scripts that ran twice and compensations that are repeated: each message's
\* tickets leave with it, and return at most once.
THEOREM ReservationLedger == Spec => []RedisLedger
<1>1. LedgerInv => RedisLedger
  <2>1. \A S : MsgTickets(S) = QueuedTickets(stream, S)
    BY DEF MsgTickets, QueuedTickets
  <2>. QED
    BY <2>1 DEF LedgerInv, RedisLedger
<1>. QED
  BY <1>1, InitLedgerInv, NextLedgerInv, ReservationTypeOK, PTL DEF Spec

-----------------------------------------------------------------------------
(* The booking path among the other components of Stage 4 *)

\* Of the other components: whose order a step is about, and where the outbox
\* and the topic are read.
OthersTypeInv ==
    /\ webhooks \subseteq Pays!Webhooks
    /\ handler \in [Handlers -> Pays!HandlerSteps]
    /\ event \in [Handlers -> Pays!Webhooks \cup {NoEvent}]
    /\ \A h \in Handlers : handler[h] = "idle" <=> event[h] = NoEvent
    /\ began \in [Handlers -> Phases]
    /\ listed \in [Relays -> SUBSET (DOMAIN outbox)]
    /\ topic \in Seq(Orders)
    /\ committed \in 0..Len(topic)
    /\ fetched \in 0..Len(topic)
    /\ comp \in [Undo!Compensators -> Undo!CompSteps]
    /\ job \in [Undo!Compensators -> Orders]

SystemTypeInv == TypeOK /\ OthersTypeInv

\* What each component may do to the tables: its own transactions only.
PayPgStep ==
    \/ \E o \in Orders :
        \/ \E now \in Phases : MarkPaid(o, now)
        \/ \E to \in FailedStatuses : FailOrder(o, to)
    \/ UNCHANGED pgVars

UndoPgStep ==
    \/ \E c \in Undo!Compensators : Undo!Doing(c, "tx") /\ CompensateOrder(job[c])
    \/ UNCHANGED pgVars

\* And to the inventory in Redis.
UndoRedisStep ==
    \/ \E c \in Undo!Compensators :
        Undo!Doing(c, "revert") /\ RevertOrder(job[c], QuantityOf[job[c]])
    \/ UNCHANGED redisVars

\* A failure is taken from the budget.
LEMMA FaultTakesOne ==
    ASSUME EnvTypeOK, NEW kind, Fault(kind)
    PROVE  budget' \in 0..MaxFaults
BY EnvironmentAssumption DEF EnvTypeOK, Fault

\* The steps of the payment path.
PayStep ==
    \/ \E o \in Orders : Pays!Customer(o)
    \/ \E h \in Handlers : Pays!Serve(h) \/ Pays!CrashHandler(h)
    \/ Pays!Sweep \/ Pays!CrashSweeper

\* And of the saga.
UndoStep ==
    \/ \E r \in Relays : Undo!Relay(r)
    \/ Undo!Consume \/ Undo!Watch \/ Undo!SagaFaults

\* Every step is one of one component, or of the clock, or none.
LEMMA StepOfOne ==
    ASSUME [SystemNext]_systemVars
    PROVE  \/ [Next]_vars /\ UNCHANGED <<payVars, sagaVars>>
           \/ PayStep /\ UNCHANGED <<redisVars, resVars, sagaVars>>
           \/ UndoStep /\ UNCHANGED <<resVars, payVars>>
           \/ \E o \in Orders : Clock(o)
<1>1. ASSUME NEW o \in Orders, Booking(Api(o))
      PROVE  [Next]_vars /\ UNCHANGED <<payVars, sagaVars>>
  BY <1>1 DEF Booking, Next
<1>2. ASSUME NEW w \in Workers, Booking(Work(w) \/ Crash(w))
      PROVE  [Next]_vars /\ UNCHANGED <<payVars, sagaVars>>
  BY <1>2 DEF Booking, Next
<1>3. ASSUME Booking(EvictMetadata)
      PROVE  [Next]_vars /\ UNCHANGED <<payVars, sagaVars>>
  BY <1>3 DEF Booking, Next
<1>4. ASSUME UNCHANGED systemVars
      PROVE  [Next]_vars /\ UNCHANGED <<payVars, sagaVars>>
  BY <1>4 DEF systemVars
<1>5. ASSUME SystemRest PROVE UNCHANGED systemVars
  BY <1>5 DEF SystemRest
<1>6. ASSUME \/ \E o \in Orders : Paying(Pays!Customer(o))
             \/ \E h \in Handlers : Paying(Pays!Serve(h) \/ Pays!CrashHandler(h))
             \/ Paying(Pays!Sweep \/ Pays!CrashSweeper)
      PROVE  PayStep /\ UNCHANGED <<redisVars, resVars, sagaVars>>
  BY <1>6 DEF Paying, PayStep
<1>7. ASSUME \/ \E r \in Relays : Undoing(Undo!Relay(r))
             \/ Undoing(Undo!Consume \/ Undo!Watch \/ Undo!SagaFaults)
      PROVE  UndoStep /\ UNCHANGED <<resVars, payVars>>
  BY <1>7 DEF Undoing, UndoStep
<1>. QED
  BY <1>1, <1>2, <1>3, <1>4, <1>5, <1>6, <1>7 DEF SystemNext

\* The transactions of each component are among those of the tables.
LEMMA PartIsPgStep ==
    ASSUME OthersTypeInv, PayPgStep \/ UndoPgStep
    PROVE  PgStep
<1>1. \A c \in Undo!Compensators : job[c] \in Orders
  BY DEF OthersTypeInv
<1>. QED
  BY <1>1 DEF PayPgStep, UndoPgStep, PgStep

-----------------------------------------------------------------------------
(* The payment path *)

\* What a busy handler serves is an event of an order.
LEMMA Served ==
    ASSUME OthersTypeInv, NEW h \in Handlers, handler[h] # "idle"
    PROVE  event[h] \in Pays!Webhooks /\ event[h].order \in Orders
BY DEF OthersTypeInv, Pays!Webhooks

\* It only pays or fails orders.
LEMMA PayStepTables ==
    ASSUME OthersTypeInv, PayStep
    PROVE  PayPgStep
<1>1. ASSUME NEW o \in Orders, Pays!Customer(o) PROVE UNCHANGED pgVars
  BY <1>1 DEF Pays!Customer, Pays!HandleCreatePaymentIntent, Pays!PayRead, Pays!PayGateway,
     Pays!PayPersist,
              Pays!Charge, Pays!Decline, Pays!pgVars, pgVars
<1>2. ASSUME NEW h \in Handlers, Pays!Pay(h) PROVE PayPgStep
  <2>1. event[h].order \in Orders /\ began[h] \in Phases
    BY <1>2, Served DEF Pays!Pay, Pays!Serving, OthersTypeInv
  <2>2. Pays!MarkPaid(event[h].order, began[h]) \/ UNCHANGED pgVars
    BY <1>2 DEF Pays!Pay, Pays!pgVars, pgVars
  <2>3. ASSUME Pays!MarkPaid(event[h].order, began[h]) PROVE MarkPaid(event[h].order, began[h])
    BY <2>3 DEF Pays!MarkPaid, MarkPaid
  <2>. QED
    BY <2>1, <2>2, <2>3 DEF PayPgStep
<1>3. ASSUME NEW o \in Orders, NEW to \in FailedStatuses, Pays!FailOrder(o, to) PROVE PayPgStep
  <2>1. FailOrder(o, to)
    BY <1>3 DEF Pays!FailOrder, FailOrder
  <2>. QED
    BY <2>1 DEF PayPgStep
<1>4. ASSUME NEW h \in Handlers, Pays!HandleLateSuccess(h) \/ Pays!HandleFailure(h) PROVE PayPgStep
  <2>1. event[h].order \in Orders
    BY <1>4, Served DEF Pays!HandleLateSuccess, Pays!HandleFailure, Pays!Serving
  <2>2. PICK to \in FailedStatuses : Pays!Abandon(h, to)
    BY <1>4 DEF Pays!HandleLateSuccess, Pays!HandleFailure, FailedStatuses
  <2>3. Pays!FailOrder(event[h].order, to) \/ UNCHANGED pgVars
    BY <2>2 DEF Pays!Abandon, Pays!pgVars, pgVars
  <2>. QED
    BY <1>3, <2>1, <2>3 DEF PayPgStep
<1>5. ASSUME NEW h \in Handlers,
             (\E e \in webhooks : Pays!Receive(h, e)) \/ Pays!Begin(h) \/ Pays!CrashHandler(h)
      PROVE  UNCHANGED pgVars
  BY <1>5 DEF Pays!Receive, Pays!Begin, Pays!CrashHandler, Pays!pgVars, pgVars
<1>6. ASSUME NEW o \in Orders, Pays!Expire(o) PROVE PayPgStep
  <2>1. Pays!FailOrder(o, "expired") \/ UNCHANGED pgVars
    BY <1>6 DEF Pays!Expire, Pays!pgVars, pgVars
  <2>. QED
    BY <1>3, <2>1 DEF PayPgStep, FailedStatuses
<1>7. CASE Pays!ListExpired \/ (\E o \in Orders : Pays!ReadExpired(o)) \/ Pays!CrashSweeper
  BY <1>7 DEF Pays!ListExpired, Pays!ReadExpired, Pays!CrashSweeper, Pays!pgVars, pgVars, PayPgStep
<1>8. UNCHANGED pgVars => PayPgStep
  BY DEF PayPgStep
<1>. QED
  BY <1>1, <1>2, <1>4, <1>5, <1>6, <1>7, <1>8 DEF PayStep, Pays!Serve, Pays!Sweep

\* And keeps the types.
LEMMA PayStepTypes ==
    ASSUME SystemTypeInv, PayStep, UNCHANGED <<redisVars, resVars, sagaVars>>
    PROVE  SystemTypeInv'
<1>. USE DEF SystemTypeInv
<1>p. PgStep /\ PgTypeOK' /\ DOMAIN outbox \subseteq DOMAIN outbox'
  BY PayStepTables, PartIsPgStep, PgStepTypeOK, OutboxGrows DEF TypeOK
<1>f. ASSUME NEW kind, Pays!Fault(kind) PROVE budget' \in 0..MaxFaults
  <2>1. Fault(kind)
    BY <1>f DEF Pays!Fault, Fault
  <2>. QED
    BY <2>1, FaultTakesOne DEF TypeOK
<1>0. budget \in 0..MaxFaults /\ phase \in [Orders -> Phases]
  BY DEF TypeOK, EnvTypeOK
<1>. DEFINE HookTypes == /\ webhooks \subseteq Pays!Webhooks
                         /\ handler \in [Handlers -> Pays!HandlerSteps]
                         /\ event \in [Handlers -> Pays!Webhooks \cup {NoEvent}]
                         /\ \A h \in Handlers : handler[h] = "idle" <=> event[h] = NoEvent
                         /\ began \in [Handlers -> Phases]
            NewHookTypes == /\ webhooks' \subseteq Pays!Webhooks
                            /\ handler' \in [Handlers -> Pays!HandlerSteps]
                            /\ event' \in [Handlers -> Pays!Webhooks \cup {NoEvent}]
                            /\ \A h \in Handlers : handler'[h] = "idle" <=> event'[h] = NoEvent
                            /\ began' \in [Handlers -> Phases]
<1>h. HookTypes
  BY DEF OthersTypeInv
<1>1. ASSUME NEW o \in Orders, Pays!Customer(o)
      PROVE  budget' \in 0..MaxFaults /\ phase' = phase /\ NewHookTypes
  <2>1. budget' \in 0..MaxFaults
    BY <1>0, <1>f, <1>1 DEF Pays!Customer, Pays!HandleCreatePaymentIntent, Pays!PayRead,
       Pays!PayGateway,
       Pays!PayPersist, Pays!Charge, Pays!Decline
  <2>2. phase' = phase /\ handler' = handler /\ event' = event /\ began' = began
    BY <1>1 DEF Pays!Customer, Pays!HandleCreatePaymentIntent, Pays!PayRead, Pays!PayGateway,
       Pays!PayPersist, Pays!Charge, Pays!Decline, Pays!hookVars
  <2>3. webhooks' \subseteq Pays!Webhooks
    BY <1>1, <1>h DEF Pays!Customer, Pays!HandleCreatePaymentIntent, Pays!PayRead, Pays!PayGateway,
       Pays!PayPersist, Pays!Charge, Pays!Decline, Pays!Webhooks
  <2>. QED
    BY <1>h, <2>1, <2>2, <2>3
<1>2. ASSUME NEW h \in Handlers, Pays!Serve(h) \/ Pays!CrashHandler(h)
      PROVE  budget' \in 0..MaxFaults /\ phase' = phase /\ NewHookTypes
  <2>a. ASSUME NEW e, Pays!Answer200(e)
        PROVE  budget' \in 0..MaxFaults /\ webhooks' \subseteq Pays!Webhooks
    BY <1>0, <1>f, <1>h, <2>a DEF Pays!Answer200
  <2>b. ASSUME Pays!Leave(h)
        PROVE  /\ handler' \in [Handlers -> Pays!HandlerSteps]
               /\ event' \in [Handlers -> Pays!Webhooks \cup {NoEvent}]
               /\ \A g \in Handlers : handler'[g] = "idle" <=> event'[g] = NoEvent
               /\ began' \in [Handlers -> Phases]
    BY <1>h, <2>b DEF Pays!Leave, Pays!HandlerSteps, Phases
  <2>1. ASSUME NEW e \in webhooks, Pays!Receive(h, e)
        PROVE  budget' \in 0..MaxFaults /\ phase' = phase /\ NewHookTypes
    <3>1. e \in Pays!Webhooks /\ e # NoEvent /\ e.order \in Orders
      BY <1>h, SystemAssumption DEF Pays!PaymentAssumption, Pays!Webhooks
    <3>2. Pays!Verdict(e) \in Pays!HandlerSteps \ {"idle"}
      BY Zenon DEF Pays!Verdict, Pays!HandlerSteps
    <3>3. CASE Pays!IsDuplicate(e)
      BY <1>h, <2>1, <2>a, <3>3 DEF Pays!Receive, Pays!hookVars
    <3>4. CASE ~Pays!IsDuplicate(e)
      <4>1. /\ handler' = [handler EXCEPT ![h] = Pays!Verdict(e)]
            /\ event' = [event EXCEPT ![h] = e]
            /\ budget' = budget /\ webhooks' = webhooks /\ began' = began /\ phase' = phase
        BY <2>1, <3>4 DEF Pays!Receive
      <4>. QED
        BY <1>0, <1>h, <3>1, <3>2, <4>1
    <3>. QED
      BY <3>3, <3>4
  <2>2. CASE Pays!Begin(h)
    <3>1. event[h].order \in Orders
      BY <2>2, Served DEF Pays!Begin, Pays!Serving
    <3>2. /\ handler' = [handler EXCEPT ![h] = "pay"] /\ handler[h] = "begin"
          /\ began' = [began EXCEPT ![h] = phase[event[h].order]]
          /\ budget' = budget /\ webhooks' = webhooks /\ event' = event /\ phase' = phase
      BY <2>2 DEF Pays!Begin, Pays!Serving
    <3>. QED
      BY <1>0, <1>h, <3>1, <3>2 DEF Pays!HandlerSteps
  <2>3. CASE Pays!Pay(h)
    <3>1. handler[h] = "pay" /\ phase' = phase
      BY <2>3 DEF Pays!Pay, Pays!Serving
    <3>2. budget' \in 0..MaxFaults /\ webhooks' \subseteq Pays!Webhooks
      BY <1>0, <1>f, <1>h, <2>3, <2>a DEF Pays!Pay
    <3>3. Pays!Leave(h) \/ Pays!HandlerGoes(h, "late")
      BY <2>3 DEF Pays!Pay
    <3>4. ASSUME Pays!HandlerGoes(h, "late")
          PROVE  /\ handler' \in [Handlers -> Pays!HandlerSteps]
                 /\ event' \in [Handlers -> Pays!Webhooks \cup {NoEvent}]
                 /\ \A g \in Handlers : handler'[g] = "idle" <=> event'[g] = NoEvent
                 /\ began' \in [Handlers -> Phases]
      BY <1>h, <3>1, <3>4 DEF Pays!HandlerGoes, Pays!HandlerSteps
    <3>. QED
      BY <2>b, <3>1, <3>2, <3>3, <3>4
  <2>4. CASE Pays!HandleLateSuccess(h) \/ Pays!HandleFailure(h)
    <3>1. PICK to : Pays!Abandon(h, to)
      BY <2>4 DEF Pays!HandleLateSuccess, Pays!HandleFailure
    <3>2. budget' \in 0..MaxFaults /\ webhooks' \subseteq Pays!Webhooks
      BY <1>0, <1>f, <1>h, <2>a, <3>1 DEF Pays!Abandon
    <3>. QED
      BY <2>b, <3>1, <3>2 DEF Pays!Abandon
  <2>5. CASE Pays!CrashHandler(h)
    BY <1>f, <1>h, <2>5, <2>b DEF Pays!CrashHandler
  <2>. QED
    BY <1>2, <2>1, <2>2, <2>3, <2>4, <2>5 DEF Pays!Serve
<1>3. ASSUME Pays!Sweep \/ Pays!CrashSweeper
      PROVE  budget' \in 0..MaxFaults /\ phase' = phase /\ NewHookTypes
  <2>1. budget' \in 0..MaxFaults
    BY <1>0, <1>f, <1>3 DEF Pays!Sweep, Pays!ListExpired, Pays!ReadExpired, Pays!Expire,
       Pays!CrashSweeper
  <2>2. phase' = phase /\ UNCHANGED <<webhooks, handler, event, began>>
    BY <1>3 DEF Pays!Sweep, Pays!ListExpired, Pays!ReadExpired, Pays!Expire, Pays!CrashSweeper,
       Pays!hookVars
  <2>. QED
    BY <1>h, <2>1, <2>2
<1>4. budget' \in 0..MaxFaults /\ phase' = phase /\ NewHookTypes
  BY <1>1, <1>2, <1>3 DEF PayStep
<1>5. TypeOK'
  BY <1>0, <1>4, <1>p DEF TypeOK, EnvTypeOK, RedisTypeOK, redisVars, resVars, apiVars, queueVars,
     workerVars, Ids
<1>6. OthersTypeInv'
  BY <1>4, <1>p DEF OthersTypeInv, sagaVars
<1>. QED
  BY <1>5, <1>6

-----------------------------------------------------------------------------
(* The saga *)

\* It only compensates the orders its compensators have taken up.
LEMMA UndoStepTables ==
    ASSUME UndoStep
    PROVE  UndoPgStep /\ UndoRedisStep
<1>0. UNCHANGED pgVars => UndoPgStep
  BY DEF UndoPgStep
<1>r. UNCHANGED redisVars => UndoRedisStep
  BY DEF UndoRedisStep
<1>1. ASSUME NEW r \in Relays, Undo!Relay(r) \/ Undo!LoseSession(r) \/ Undo!CrashRelay(r)
      PROVE  UNCHANGED pgVars /\ UNCHANGED redisVars
  BY <1>1 DEF Undo!Relay, Undo!TryLock, Undo!ListPending, Undo!Publish, Undo!MarkProcessed,
     Undo!LoseSession,
     Undo!CrashRelay, Undo!pgVars, pgVars, Undo!redisVars, redisVars
<1>2. ASSUME \/ Undo!Fetch \/ Undo!CountFailure \/ Undo!DeadLetter \/ Undo!Commit \/ Undo!CrashConsumer
             \/ Undo!FindStuck \/ Undo!Resolved \/ Undo!CrashWatchdog
             \/ \E o \in Orders : Undo!ResolveStuck(o) \/ Undo!GrowTooOld(o)
      PROVE  UNCHANGED pgVars /\ UNCHANGED redisVars
  BY <1>2 DEF Undo!Fetch, Undo!CountFailure, Undo!DeadLetter, Undo!Commit, Undo!CrashConsumer,
     Undo!FindStuck,
     Undo!Resolved, Undo!CrashWatchdog, Undo!ResolveStuck, Undo!GrowTooOld, Undo!pgVars, pgVars,
        Undo!redisVars, redisVars
<1>3. ASSUME NEW c \in Undo!Compensators, Undo!HandleOrderFailed(c)
      PROVE  UndoPgStep /\ UndoRedisStep
  <2>1. ASSUME Undo!ReadOrder(c) \/ Undo!CheckReverted(c) \/ Undo!MarkRedisReverted(c)
        PROVE  UNCHANGED pgVars /\ UNCHANGED redisVars
    BY <2>1 DEF Undo!ReadOrder, Undo!CheckReverted, Undo!MarkRedisReverted, Undo!pgVars, pgVars,
       Undo!redisVars, redisVars
  <2>2. ASSUME Undo!Compensate(c) PROVE UndoPgStep /\ UNCHANGED redisVars
    <3>1. UNCHANGED redisVars
      BY <2>2 DEF Undo!Compensate, Undo!redisVars, redisVars
    <3>2. Undo!CompensateOrder(job[c]) \/ UNCHANGED pgVars
      BY <2>2 DEF Undo!Compensate, Undo!pgVars, pgVars
    <3>3. Undo!CompensateOrder(job[c]) => CompensateOrder(job[c])
      BY DEF Undo!CompensateOrder, CompensateOrder, Undo!CanCompensate, CanCompensate,
         Undo!FailedStatuses,
             FailedStatuses
    <3>. QED
      BY <2>2, <3>1, <3>2, <3>3 DEF Undo!Compensate, UndoPgStep
  <2>3. ASSUME Undo!RevertRedis(c) PROVE UNCHANGED pgVars /\ UndoRedisStep
    <3>1. UNCHANGED pgVars
      BY <2>3 DEF Undo!RevertRedis, Undo!pgVars, pgVars
    <3>2. Undo!RevertOrder(job[c], QuantityOf[job[c]]) \/ UNCHANGED redisVars
      BY <2>3 DEF Undo!RevertRedis, Undo!redisVars, redisVars
    <3>3. Undo!RevertOrder(job[c], QuantityOf[job[c]]) => RevertOrder(job[c], QuantityOf[job[c]])
      BY DEF Undo!RevertOrder, RevertOrder
    <3>. QED
      BY <2>3, <3>1, <3>2, <3>3 DEF Undo!RevertRedis, UndoRedisStep
  <2>. QED
    BY <1>0, <1>r, <1>3, <2>1, <2>2, <2>3 DEF Undo!HandleOrderFailed
<1>4. "consumer" \in Undo!Compensators /\ "watchdog" \in Undo!Compensators
  BY DEF Undo!Compensators
<1>. QED
  BY <1>0, <1>r, <1>1, <1>2, <1>3, <1>4 DEF UndoStep, Undo!Consume, Undo!Watch, Undo!SagaFaults

\* What a compensator may make of its own variables: it goes on, or takes up an
\* order.
CompMoves ==
    \/ \E c \in Undo!Compensators, s \in Undo!CompSteps : Undo!CompGoes(c, s)
    \/ \E c \in Undo!Compensators, o \in Orders : Undo!StartJob(c, o)
    \/ UNCHANGED <<comp, job>>

\* The saga keeps the types.
LEMMA UndoStepTypes ==
    ASSUME SystemTypeInv, UndoStep, UNCHANGED <<resVars, payVars>>
    PROVE  SystemTypeInv'
<1>. USE DEF SystemTypeInv
<1>p. PgStep /\ PgTypeOK' /\ DOMAIN outbox \subseteq DOMAIN outbox'
  BY UndoStepTables, PartIsPgStep, PgStepTypeOK, OutboxGrows DEF TypeOK
<1>f. ASSUME NEW kind, Undo!Fault(kind) PROVE budget' \in 0..MaxFaults
  <2>1. Fault(kind)
    BY <1>f DEF Undo!Fault, Fault
  <2>. QED
    BY <2>1, FaultTakesOne DEF TypeOK
<1>0. budget \in 0..MaxFaults
  BY DEF TypeOK, EnvTypeOK
<1>t. /\ topic \in Seq(Orders) /\ Len(topic) \in Nat
      /\ committed \in 0..Len(topic) /\ fetched \in 0..Len(topic)
      /\ comp \in [Undo!Compensators -> Undo!CompSteps] /\ job \in [Undo!Compensators -> Orders]
      /\ listed \in [Relays -> SUBSET (DOMAIN outbox)]
  BY DEF OthersTypeInv
<1>. DEFINE NewTypes == /\ budget' \in 0..MaxFaults /\ phase' = phase
                        /\ listed' \in [Relays -> SUBSET (DOMAIN outbox)]
                        /\ topic' \in Seq(Orders)
                        /\ committed' \in 0..Len(topic') /\ fetched' \in 0..Len(topic')
                        /\ CompMoves
<1>1. ASSUME NEW r \in Relays, Undo!Relay(r) \/ Undo!LoseSession(r) \/ Undo!CrashRelay(r)
      PROVE  NewTypes
  <2>1. budget' \in 0..MaxFaults
    BY <1>0, <1>1, <1>f DEF Undo!Relay, Undo!TryLock, Undo!ListPending, Undo!Publish,
       Undo!MarkProcessed,
       Undo!LoseSession, Undo!CrashRelay
  <2>2. phase' = phase /\ comp' = comp /\ job' = job
    BY <1>1 DEF Undo!Relay, Undo!TryLock, Undo!ListPending, Undo!Publish, Undo!MarkProcessed,
       Undo!LoseSession, Undo!CrashRelay, Undo!compVars
  <2>3. \A T, n : Undo!Oldest(T, n) \subseteq T
    BY DEF Undo!Oldest
  <2>4. listed' \in [Relays -> SUBSET (DOMAIN outbox)]
    <3>1. ASSUME Undo!ListPending(r) PROVE listed' \in [Relays -> SUBSET (DOMAIN outbox)]
      <4>1. Undo!Oldest(DOMAIN outbox \ processed, RelayBatch) \in SUBSET (DOMAIN outbox)
        BY <2>3
      <4>. QED
        BY <1>t, <3>1, <4>1 DEF Undo!ListPending
    <3>2. ASSUME Undo!Publish(r) PROVE listed' \in [Relays -> SUBSET (DOMAIN outbox)]
      <4>1. listed[r] \ Undo!Oldest(listed[r], 1) \in SUBSET (DOMAIN outbox)
        BY <1>t
      <4>2. listed' = [listed EXCEPT ![r] = @ \ Undo!Oldest(listed[r], 1)]
        BY <3>2 DEF Undo!Publish
      <4>. QED
        BY <1>t, <4>1, <4>2
    <3>3. ASSUME Undo!TryLock(r) \/ Undo!MarkProcessed(r) \/ Undo!LoseSession(r) PROVE listed' = listed
      BY <3>3 DEF Undo!TryLock, Undo!MarkProcessed, Undo!LoseSession
    <3>4. ASSUME Undo!CrashRelay(r) PROVE listed' \in [Relays -> SUBSET (DOMAIN outbox)]
      BY <1>t, <3>4 DEF Undo!CrashRelay
    <3>. QED
      BY <1>1, <1>t, <3>1, <3>2, <3>3, <3>4 DEF Undo!Relay
  <2>5. /\ topic' \in Seq(Orders) /\ committed' \in 0..Len(topic') /\ fetched' \in 0..Len(topic')
    <3>1. CASE Undo!Publish(r)
      <4>1. PICK i \in Undo!Oldest(listed[r],
         1) : Undo!Produce(outbox[i].order) \/ UNCHANGED Undo!kafkaVars
        BY <3>1 DEF Undo!Publish
      <4>2. i \in DOMAIN outbox
        BY <1>t, <2>3, <4>1
      <4>3. outbox[i].order \in Orders
        BY <4>2, RowsHaveOrders DEF TypeOK
      <4>4. CASE Undo!Produce(outbox[i].order)
        <5>1. topic' = Append(topic, outbox[i].order) /\ committed' = committed /\ fetched' = fetched
          BY <4>4 DEF Undo!Produce
        <5>2. topic' \in Seq(Orders) /\ Len(topic') = Len(topic) + 1
          BY <1>t, <4>3, <5>1, AppendProperties
        <5>. QED
          BY <1>t, <5>1, <5>2
      <4>5. CASE UNCHANGED Undo!kafkaVars
        BY <1>t, <4>5 DEF Undo!kafkaVars
      <4>. QED
        BY <4>1, <4>4, <4>5
    <3>2. CASE UNCHANGED Undo!kafkaVars
      BY <1>t, <3>2 DEF Undo!kafkaVars
    <3>. QED
      BY <1>1, <3>1, <3>2 DEF Undo!Relay, Undo!TryLock, Undo!ListPending, Undo!MarkProcessed,
         Undo!LoseSession,
         Undo!CrashRelay
  <2>. QED
    BY <2>1, <2>2, <2>4, <2>5 DEF CompMoves
<1>c. "consumer" \in Undo!Compensators /\ "watchdog" \in Undo!Compensators
  BY DEF Undo!Compensators
<1>2. ASSUME Undo!Fetch \/ Undo!CountFailure \/ Undo!DeadLetter \/ Undo!Commit \/ Undo!CrashConsumer
      PROVE  NewTypes
  <2>1. budget' \in 0..MaxFaults
    BY <1>0, <1>2, <1>f DEF Undo!Fetch, Undo!CountFailure, Undo!DeadLetter, Undo!Commit,
       Undo!CrashConsumer
  <2>2. phase' = phase /\ listed' = listed /\ topic' = topic
    BY <1>2 DEF Undo!Fetch, Undo!CountFailure, Undo!DeadLetter, Undo!Commit, Undo!CrashConsumer,
       Undo!relayVars
  <2>3. committed' \in 0..Len(topic) /\ fetched' \in 0..Len(topic)
    BY <1>2, <1>t DEF Undo!Fetch, Undo!CountFailure, Undo!DeadLetter, Undo!Commit,
       Undo!CommitFetched,
       Undo!CrashConsumer
  <2>4. CompMoves
    <3>1. CASE Undo!Fetch
      <4>1. topic[fetched + 1] \in Orders
        BY <1>t, <3>1 DEF Undo!Fetch
      <4>. QED
        BY <1>c, <3>1, <4>1 DEF Undo!Fetch, CompMoves
    <3>2. CASE Undo!CountFailure \/ Undo!DeadLetter \/ Undo!Commit \/ Undo!CrashConsumer
      BY <1>c, <3>2 DEF Undo!CountFailure, Undo!DeadLetter, Undo!Commit, Undo!CrashConsumer,
         CompMoves,
         Undo!CompSteps
    <3>. QED
      BY <1>2, <3>1, <3>2
  <2>. QED
    BY <1>t, <2>1, <2>2, <2>3, <2>4
<1>3. ASSUME \/ Undo!FindStuck \/ Undo!Resolved \/ Undo!CrashWatchdog
             \/ \E o \in Orders : Undo!ResolveStuck(o) \/ Undo!GrowTooOld(o)
      PROVE  NewTypes
  <2>1. budget' \in 0..MaxFaults
    BY <1>0, <1>3, <1>f DEF Undo!FindStuck, Undo!Resolved, Undo!CrashWatchdog, Undo!ResolveStuck,
       Undo!GrowTooOld
  <2>2. phase' = phase /\ listed' = listed /\ topic' = topic /\ committed' = committed
          /\ fetched' = fetched
    BY <1>3 DEF Undo!FindStuck, Undo!Resolved, Undo!CrashWatchdog, Undo!ResolveStuck,
       Undo!GrowTooOld,
       Undo!relayVars, Undo!kafkaVars
  <2>3. CompMoves
    BY <1>3, <1>c DEF Undo!FindStuck, Undo!Resolved, Undo!CrashWatchdog, Undo!ResolveStuck,
       Undo!GrowTooOld,
       CompMoves, Undo!CompSteps, Undo!compVars
  <2>. QED
    BY <1>t, <2>1, <2>2, <2>3
<1>4. ASSUME NEW c \in Undo!Compensators, Undo!HandleOrderFailed(c) PROVE NewTypes
  <2>1. budget' \in 0..MaxFaults
    BY <1>0, <1>4, <1>f DEF Undo!HandleOrderFailed, Undo!ReadOrder, Undo!Compensate,
       Undo!CheckReverted,
       Undo!RevertRedis, Undo!MarkRedisReverted
  <2>2. phase' = phase /\ listed' = listed /\ topic' = topic /\ committed' = committed
          /\ fetched' = fetched
    BY <1>4 DEF Undo!HandleOrderFailed, Undo!ReadOrder, Undo!Compensate, Undo!CheckReverted,
       Undo!RevertRedis, Undo!MarkRedisReverted, Undo!relayVars, Undo!kafkaVars
  <2>3. CompMoves
    BY <1>4 DEF Undo!HandleOrderFailed, Undo!ReadOrder, Undo!Compensate, Undo!CheckReverted,
       Undo!RevertRedis, Undo!MarkRedisReverted, CompMoves, Undo!CompSteps
  <2>. QED
    BY <1>t, <2>1, <2>2, <2>3
<1>5. NewTypes
  BY <1>1, <1>2, <1>3, <1>4, <1>c DEF UndoStep, Undo!Consume, Undo!Watch, Undo!SagaFaults
<1>6. comp' \in [Undo!Compensators -> Undo!CompSteps] /\ job' \in [Undo!Compensators -> Orders]
  BY <1>5, <1>t DEF CompMoves, Undo!CompGoes, Undo!StartJob, Undo!CompSteps
<1>7. RedisTypeOK'
  <2>1. ASSUME NEW c \in Undo!Compensators, RevertOrder(job[c], QuantityOf[job[c]])
        PROVE  RedisTypeOK'
    <3>1. job[c] \in Orders /\ QuantityOf[job[c]] \in Nat
      BY <1>t, QuantityNat
    <3>. QED
      BY <2>1, <3>1 DEF RevertOrder, TypeOK, RedisTypeOK
  <2>2. CASE UNCHANGED redisVars
    BY <2>2 DEF TypeOK, RedisTypeOK, redisVars
  <2>. QED
    BY <2>1, <2>2, UndoStepTables DEF UndoRedisStep
<1>8. TypeOK'
  BY <1>5, <1>7, <1>p DEF TypeOK, EnvTypeOK, resVars, apiVars, queueVars, workerVars, Ids
<1>9. OthersTypeInv'
  BY <1>5, <1>6, <1>p DEF OthersTypeInv, payVars
<1>. QED
  BY <1>8, <1>9

-----------------------------------------------------------------------------
(* Together *)

\* The types hold at the start.
LEMMA InitSystemTypes == SystemInit => SystemTypeInv
<1>. SUFFICES ASSUME SystemInit PROVE SystemTypeInv
  OBVIOUS
<1>1. TypeOK
  BY InitTypeOK DEF SystemInit
<1>2. (CHOOSE o \in Orders : TRUE) \in Orders
  BY SystemAssumption DEF Undo!SagaAssumption
<1>3. topic \in Seq(Orders) /\ Len(topic) = 0 /\ outbox = <<>>
  BY DEF SystemInit, Undo!SagaInit, Init, PgInit
<1>4. OthersTypeInv
  BY <1>2, <1>3 DEF SystemInit, Undo!SagaInit, Pays!PayInit, OthersTypeInv, Pays!HandlerSteps,
     Phases,
     Undo!CompSteps
<1>. QED
  BY <1>1, <1>4 DEF SystemTypeInv

\* Every step keeps the types, and runs one of the transactions or none.
LEMMA NextSystemTypes == SystemTypeInv /\ [SystemNext]_systemVars => SystemTypeInv' /\ PgStep
<1>. SUFFICES ASSUME SystemTypeInv, [SystemNext]_systemVars PROVE SystemTypeInv' /\ PgStep
  OBVIOUS
<1>. USE DEF SystemTypeInv
<1>1. ASSUME [Next]_vars, UNCHANGED <<payVars, sagaVars>> PROVE SystemTypeInv' /\ PgStep
  <2>1. PgStep /\ TypeOK'
    BY <1>1, NextIsPgStep, NextTypeOK
  <2>2. DOMAIN outbox \subseteq DOMAIN outbox'
    BY <2>1, OutboxGrows DEF TypeOK
  <2>3. OthersTypeInv'
    BY <1>1, <2>2 DEF OthersTypeInv, payVars, sagaVars
  <2>. QED
    BY <2>1, <2>3
<1>2. ASSUME PayStep, UNCHANGED <<redisVars, resVars, sagaVars>> PROVE SystemTypeInv' /\ PgStep
  BY <1>2, PayStepTypes, PayStepTables, PartIsPgStep
<1>3. ASSUME UndoStep, UNCHANGED <<resVars, payVars>> PROVE SystemTypeInv' /\ PgStep
  BY <1>3, UndoStepTypes, UndoStepTables, PartIsPgStep
<1>4. ASSUME NEW o \in Orders, Clock(o) PROVE SystemTypeInv' /\ PgStep
  <2>1. EnvTypeOK'
    BY <1>4 DEF Clock, PassDeadline, PassGrace, TypeOK, EnvTypeOK, Phases
  <2>2. UNCHANGED <<pgVars, redisVars, resVars, payVars, sagaVars>>
    BY <1>4 DEF Clock
  <2>3. TypeOK'
    BY <2>1, <2>2 DEF TypeOK, PgTypeOK, pgVars, RedisTypeOK, redisVars, resVars, apiVars, queueVars,
       workerVars, Ids
  <2>4. OthersTypeInv'
    BY <2>2 DEF OthersTypeInv, payVars, sagaVars, pgVars
  <2>. QED
    BY <2>2, <2>3, <2>4 DEF PgStep
<1>. QED
  BY <1>1, <1>2, <1>3, <1>4, StepOfOne

\* In every behaviour.
LEMMA SystemTypes == SystemSpec => []SystemTypeInv
<1>. QED
  BY InitSystemTypes, NextSystemTypes, PTL DEF SystemSpec

\* Stage 4 as a whole, whatever fails in it, is a behaviour of OrderLifecycle.
THEOREM SystemImplements == SystemSpec => ImplementsLifecycle
<1>1. SystemInit => Lifecycle!Init
  BY PgInitIsInit DEF SystemInit, Init
<1>2. SystemTypeInv /\ [SystemNext]_systemVars
        => [Lifecycle!Next]_<<[o \in Orders |-> Life[status[o]]], available>>
  BY NextSystemTypes, PgStepIsLifecycleStep DEF SystemTypeInv, TypeOK
<1>. QED
  BY <1>1, <1>2, SystemTypes, PTL DEF SystemSpec, ImplementsLifecycle, Lifecycle!Spec

\* So it sells no ticket twice and gives no customer two orders.
THEOREM SystemConserves == SystemSpec => [](TicketsConserved /\ OneOrderPerCustomer)
<1>1. Lifecycle!Inv /\ SystemTypeInv => TicketsConserved /\ OneOrderPerCustomer
  BY LifecycleInvariants DEF SystemTypeInv, TypeOK
<1>. QED
  BY <1>1, SystemTypes, SystemImplements, PgLifecycleInv, PTL DEF ImplementsLifecycle

-----------------------------------------------------------------------------
(* Redis and the queue never hold more than Postgres *)

\* No failure makes a worker repeat what was committed, or loses a revert.
Tame == Faults \cap {"crash", "ack", "commit", "redis"} = {}

\* What then never happens.
LEMMA TameFaults ==
    ASSUME Tame
    PROVE  /\ ~Fault("crash") /\ ~Fault("ack") /\ ~Fault("commit") /\ ~Fault("redis")
           /\ ~Undo!Fault("crash") /\ ~Undo!Fault("redis") /\ ~Undo!Fault("commit")
BY DEF Tame, Fault, Undo!Fault

\* The messages a worker has still to deal with.
Open(w) == {m \in batch[w] : ~ (m = Current(w) /\ step[w] = "ack")}

\* The messages that became the order they ask for: delivered, not given back,
\* and dealt with by the worker that read them.
Written == {m \in (1..cursor) \ revertedMsgs : \A w \in Workers : m \notin Open(w)}

\* The orders that have a row.
Present == {o \in Orders : status[o] # "absent"}

\* Each message is read once, by one worker, which has nothing pending but what
\* it is working on.
ReadOnceInv ==
    /\ \A w \in Workers : /\ pel[w] = batch[w]
                          /\ mode[w] = "down" => batch[w] = {}
                          /\ batch[w] \subseteq 1..cursor
    /\ \A v, w \in Workers : v # w => batch[v] \cap batch[w] = {}
    /\ revertedMsgs \subseteq 1..cursor

\* Only the current message of a worker may have been given back while the worker
\* has it, and it was if it is on its way to the dead-letter stream.
GivenBackInv ==
    \A w \in Workers :
        /\ \A m \in batch[w] \cap revertedMsgs : m = Current(w) /\ step[w] \in {"dlq", "ack"}
        /\ Busy(w, "dlq") => Current(w) \in revertedMsgs

\* What became an order is an order, and there is one such message for each.
WrittenInv ==
    /\ \A m \in Written : status[stream[m]] # "absent"
    /\ Cardinality(QueuedTickets(stream, Written)) = Cardinality(Tickets(Present))

\* A compensator's order is compensated when it comes to Redis, and no compensated
\* order but one a compensator is about to revert still lacks its tickets there.
UndoInv ==
    /\ \A o \in revertedOrders : status[o] = "compensated"
    /\ \A c \in Undo!Compensators :
        comp[c] \in {"check", "revert", "mark"} => status[job[c]] = "compensated"
    /\ \A o \in Orders : status[o] = "compensated" =>
        \/ o \in revertedOrders
        \/ \E c \in Undo!Compensators : comp[c] = "revert" /\ job[c] = o

QueueInv == ReadOnceInv /\ GivenBackInv /\ WrittenInv

AgreeInv == LedgerInv /\ QueueInv /\ UndoInv

\* What the other components do to the queue: nothing. Orders come and go without
\* their being absent again.
LEMMA QueueInvStays ==
    ASSUME TypeOK, QueueInv, UNCHANGED <<cursor, pel, batch, mode, step, revertedMsgs>>,
           \A m \in Ids : stream'[m] = stream[m],
           \A o \in Orders : status'[o] = "absent" <=> status[o] = "absent"
    PROVE  QueueInv'
<1>1. /\ cursor' = cursor /\ pel' = pel /\ batch' = batch /\ mode' = mode /\ step' = step
      /\ revertedMsgs' = revertedMsgs
  OBVIOUS
<1>2. \A w \in Workers : /\ Current(w)' = Current(w) /\ Open(w)' = Open(w)
                         /\ Busy(w, "dlq")' <=> Busy(w, "dlq")
  BY <1>1 DEF Current, Busy, Open
<1>3. ReadOnceInv' /\ GivenBackInv'
  BY <1>1, <1>2 DEF QueueInv, ReadOnceInv, GivenBackInv
<1>4. Written' = Written /\ Present' = Present
  BY <1>1, <1>2 DEF Written, Present
<1>5. \A m \in Written : m \in Ids /\ stream[m] \in Orders /\ stream'[m] = stream[m]
  BY DEF Written, TypeOK, Ids
<1>6. QueuedTickets(stream', Written) = QueuedTickets(stream, Written)
  BY <1>5 DEF QueuedTickets
<1>7. \A m \in Written : status'[stream'[m]] # "absent"
  BY <1>5 DEF QueueInv, WrittenInv
<1>. QED
  BY <1>3, <1>4, <1>6, <1>7 DEF QueueInv, WrittenInv, Tickets

\* What a worker's step does, as far as the invariant is concerned.
WorkerKeeps(w) ==
    /\ pel'[w] = batch'[w]
    /\ mode'[w] = "down" => batch'[w] = {}
    /\ \A m \in batch'[w] \cap revertedMsgs' : m = Current(w)' /\ step'[w] \in {"dlq", "ack"}
    /\ Busy(w, "dlq")' => Current(w)' \in revertedMsgs'
    /\ cursor' \in Nat /\ cursor <= cursor'
    /\ batch'[w] \subseteq batch[w] \cup ((cursor + 1)..cursor')
    /\ revertedMsgs \subseteq revertedMsgs' /\ revertedMsgs' \subseteq revertedMsgs \cup Open(w)

\* It leaves open what was, and what it reads.
LeavesOpen(w) ==
    /\ Open(w)' \ revertedMsgs' = (Open(w) \ revertedMsgs') \cup ((cursor + 1)..cursor')
    /\ UNCHANGED status

\* Or the current message becomes an order.
Writes(w) ==
    /\ Current(w) \in Open(w) \ revertedMsgs
    /\ Open(w)' = Open(w) \ {Current(w)}
    /\ UNCHANGED <<cursor, revertedMsgs>>
    /\ status[stream[Current(w)]] = "absent"
    /\ status' = [status EXCEPT ![stream[Current(w)]] = "awaiting_payment"]

\* Every step of a worker is of one of the two kinds.
LEMMA WorkIsOne ==
    ASSUME Tame, TypeOK, QueueInv, NEW w \in Workers, Work(w)
    PROVE  WorkerKeeps(w) /\ (LeavesOpen(w) \/ Writes(w))
<1>. DEFINE m == Current(w)
            Known == /\ batch[w] # {} => m \in batch[w]
                     /\ cursor \in Nat
                     /\ pel[w] = batch[w] /\ (mode[w] = "down" => batch[w] = {})
                     /\ batch[w] \subseteq 1..cursor /\ revertedMsgs \subseteq 1..cursor
                     /\ \A k \in batch[w] \cap revertedMsgs : k = m /\ step[w] \in {"dlq", "ack"}
                     /\ Busy(w, "dlq") => m \in revertedMsgs
<1>0. /\ pel \in [Workers -> SUBSET Ids] /\ batch \in [Workers -> SUBSET Ids]
      /\ mode \in [Workers -> Modes] /\ step \in [Workers -> Steps]
      /\ cursor \in 0..Len(stream) /\ Len(stream) \in Nat
  BY DEF TypeOK
<1>k. Known
  BY <1>0, CurrentIsRead DEF QueueInv, ReadOnceInv, GivenBackInv
<1>f. ~Fault("ack") /\ ~Fault("commit") /\ ~Fault("redis")
  BY TameFaults
<1>e. (cursor + 1)..cursor = {}
  BY <1>0
<1>. HIDE DEF m
<1>a. ASSUME batch'[w] = batch[w], step'[w] # "ack"
      PROVE  Open(w)' = batch[w] /\ Current(w)' = m
  BY <1>a DEF Open, Current, m
<1>b. ASSUME batch'[w] = batch[w], step'[w] = "ack"
      PROVE  Open(w)' = batch[w] \ {m} /\ Current(w)' = m
  BY <1>b DEF Open, Current, m
<1>c. step[w] # "ack" => Open(w) = batch[w]
  BY DEF Open, m
<1>1. CASE Start(w) \/ ReadPending(w)
  <2>1. batch[w] = {} /\ pel[w] = {}
    BY <1>1, <1>k DEF Start, ReadPending
  <2>2. /\ batch'[w] = {} /\ pel'[w] = {} /\ UNCHANGED <<cursor, revertedMsgs, status>>
    BY <1>0, <1>1, <2>1 DEF Start, ReadPending, Read, TakeUp, queueVars, redisVars, pgVars
  <2>3. Open(w) = {} /\ Open(w)' = {}
    BY <2>1, <2>2 DEF Open
  <2>. QED
    BY <1>e, <1>k, <2>1, <2>2, <2>3 DEF WorkerKeeps, LeavesOpen, Busy
<1>2. CASE ReadNew(w)
  <2>. DEFINE new == Lowest((cursor + 1)..Len(stream))
              n == Cardinality(new)
  <2>1. new = (cursor + 1)..(cursor + n) /\ n \in Nat
    BY <1>0, LowestOfInterval
  <2>2. /\ batch[w] = {} /\ cursor' = cursor + n
        /\ pel' = [pel EXCEPT ![w] = @ \cup new]
        /\ batch' = [batch EXCEPT ![w] = new] /\ step' = [step EXCEPT ![w] = "process"]
        /\ mode' = mode /\ mode[w] = "subscribed"
        /\ UNCHANGED <<revertedMsgs, status>>
    BY <1>2 DEF ReadNew, Read, TakeUp, redisVars, pgVars
  <2>. HIDE DEF new, n
  <2>3. batch'[w] = new /\ pel'[w] = new /\ step'[w] = "process" /\ mode'[w] = "subscribed"
    BY <1>0, <1>k, <2>2
  <2>4. new = (cursor + 1)..cursor' /\ cursor' \in Nat /\ cursor <= cursor'
    BY <1>0, <2>1, <2>2
  <2>5. new \cap revertedMsgs = {}
    BY <1>k, <2>4
  <2>6. Open(w) = {} /\ Open(w)' = new
    BY <2>2, <2>3 DEF Open
  <2>7. WorkerKeeps(w)
    BY <2>2, <2>3, <2>4, <2>5 DEF WorkerKeeps, Busy
  <2>. QED
    BY <2>2, <2>4, <2>5, <2>6, <2>7 DEF LeavesOpen
<1>3. CASE Process(w)
  <2>1. /\ batch[w] # {} /\ step[w] = "process" /\ m \in batch[w]
        /\ UNCHANGED <<cursor, pel, mode, revertedMsgs>>
    BY <1>3, <1>k DEF Process, Busy, queueVars, redisVars
  <2>2. batch[w] \cap revertedMsgs = {} /\ Open(w) = batch[w]
    BY <1>c, <1>k, <2>1
  <2>3. CASE InsertReservation(stream[m]) /\ GoTo(w, "ack")
    <3>1. batch' = batch /\ step'[w] = "ack"
      BY <1>0, <2>3 DEF GoTo
    <3>2. Open(w)' = batch[w] \ {m} /\ Current(w)' = m
      BY <1>b, <3>1
    <3>3. /\ status[stream[m]] = "absent"
          /\ status' = [status EXCEPT ![stream[m]] = "awaiting_payment"]
      <4>1. stream[m] \in Orders
        BY <2>1, CurrentIsRead DEF m
      <4>. QED
        BY <2>3, <4>1 DEF InsertReservation, AlreadyBought
    <3>4. WorkerKeeps(w)
      BY <1>k, <2>1, <2>2, <3>1, <3>2 DEF WorkerKeeps, Busy
    <3>. QED
      BY <2>1, <2>2, <3>2, <3>3, <3>4 DEF Writes, m
  <2>4. CASE UNCHANGED pgVars /\ (RetryOrGiveUp(w) \/ \E r : GiveUp(w, r))
    <3>1. batch' = batch /\ step'[w] \in {"process", "revert"} /\ status' = status
      BY <1>0, <2>1, <2>4 DEF RetryOrGiveUp, GiveUp, pgVars
    <3>2. Open(w)' = batch[w] /\ Current(w)' = m
      BY <1>a, <3>1
    <3>3. WorkerKeeps(w)
      BY <1>k, <2>1, <2>2, <3>1, <3>2 DEF WorkerKeeps, Busy
    <3>. QED
      BY <1>e, <2>1, <2>2, <3>1, <3>2, <3>3 DEF LeavesOpen
  <2>. QED
    BY <1>3, <1>f, <2>3, <2>4 DEF Process, m
<1>4. CASE Revert(w)
  <2>1. /\ batch[w] # {} /\ step[w] = "revert" /\ m \in batch[w]
        /\ UNCHANGED <<cursor, pel, mode, status>>
    BY <1>4, <1>k DEF Revert, Busy, queueVars, pgVars
  <2>2. batch[w] \cap revertedMsgs = {} /\ Open(w) = batch[w]
    BY <1>c, <1>k, <2>1
  <2>3. revertedMsgs' = revertedMsgs \cup {m} /\ batch' = batch /\ step'[w] = "dlq"
    BY <1>0, <1>4, <1>f DEF Revert, RevertMsg, GoTo, m
  <2>4. Open(w)' = batch[w] /\ Current(w)' = m
    BY <1>a, <2>3
  <2>5. WorkerKeeps(w)
    BY <1>k, <2>1, <2>2, <2>3, <2>4 DEF WorkerKeeps, Busy
  <2>. QED
    BY <1>e, <2>1, <2>2, <2>3, <2>4, <2>5 DEF LeavesOpen
<1>5. CASE DeadLetter(w)
  <2>1. /\ batch[w] # {} /\ step[w] = "dlq" /\ m \in batch[w] /\ m \in revertedMsgs
        /\ UNCHANGED <<cursor, pel, mode, status, revertedMsgs>>
    BY <1>5, <1>k DEF DeadLetter, Busy, redisVars, pgVars
  <2>2. Open(w) = batch[w]
    BY <1>c, <2>1
  <2>3. batch' = batch /\ step'[w] = "ack"
    BY <1>0, <1>5, <1>f DEF DeadLetter, GoTo
  <2>4. Open(w)' = batch[w] \ {m} /\ Current(w)' = m
    BY <1>b, <2>3
  <2>5. WorkerKeeps(w)
    BY <1>k, <2>1, <2>3, <2>4 DEF WorkerKeeps, Busy
  <2>. QED
    BY <1>e, <2>1, <2>2, <2>4, <2>5 DEF LeavesOpen
<1>6. CASE Ack(w)
  <2>1. /\ batch[w] # {} /\ step[w] = "ack" /\ m \in batch[w]
        /\ UNCHANGED <<cursor, mode, status, revertedMsgs>>
    BY <1>6, <1>k DEF Ack, Busy, redisVars, pgVars
  <2>2. /\ pel' = [pel EXCEPT ![w] = @ \ {m}] /\ batch' = [batch EXCEPT ![w] = batch[w] \ {m}]
        /\ step' = [step EXCEPT ![w] = "process"]
    BY <1>6, <1>f DEF Ack, NextMessage, TakeUp, m
  <2>3. pel'[w] = batch[w] \ {m} /\ batch'[w] = batch[w] \ {m} /\ step'[w] = "process"
    BY <1>0, <1>k, <2>2
  <2>4. Open(w) = batch[w] \ {m} /\ Open(w)' = batch[w] \ {m}
    BY <2>1, <2>3 DEF Open, m
  <2>5. (batch[w] \ {m}) \cap revertedMsgs = {}
    BY <1>k
  <2>6. WorkerKeeps(w)
    BY <1>k, <2>1, <2>3, <2>5 DEF WorkerKeeps, Busy
  <2>. QED
    BY <1>e, <2>1, <2>4, <2>6 DEF LeavesOpen
<1>. QED
  BY <1>1, <1>2, <1>3, <1>4, <1>5, <1>6 DEF Work

\* A step of a worker keeps the invariant.
LEMMA WorkQueueInv ==
    ASSUME Tame, TypeOK, QueueInv, NEW w \in Workers, Work(w)
    PROVE  QueueInv'
<1>1. WorkerKeeps(w) /\ (LeavesOpen(w) \/ Writes(w))
  BY WorkIsOne
<1>2. ASSUME NEW v \in Workers, v # w
      PROVE  /\ pel'[v] = pel[v] /\ batch'[v] = batch[v] /\ mode'[v] = mode[v]
             /\ step'[v] = step[v]
  BY <1>2 DEF Work, Start, ReadPending, ReadNew, Process, Revert, DeadLetter, Ack, Crash,
     TakeUp, Read, NextMessage, LeavePending, GoTo, GiveUp, RetryOrGiveUp, TypeOK, queueVars
<1>3. ASSUME NEW v \in Workers, v # w
      PROVE  Current(v)' = Current(v) /\ Open(v)' = Open(v)
  BY <1>2, <1>3 DEF Current, Open
<1>4. stream' = stream
  BY DEF Work, Start, ReadPending, ReadNew, Process, Revert, DeadLetter, Ack, queueVars
<1>5. cursor \in Nat /\ status \in [Orders -> Statuses] /\ stream \in Seq(Orders)
      /\ \A k \in 1..cursor : k \in Ids /\ stream[k] \in Orders
  BY DEF TypeOK, PgTypeOK, Ids
<1>6. \A v \in Workers : Open(v) \subseteq batch[v] /\ Open(v)' \subseteq batch'[v]
  BY DEF Open
<1>7. ReadOnceInv'
  <2>1. \A v \in Workers : batch'[v] \subseteq 1..cursor'
    BY <1>1, <1>2, <1>5 DEF WorkerKeeps, QueueInv, ReadOnceInv
  <2>2. \A v \in Workers : v # w => batch'[v] \cap batch'[w] = {}
    BY <1>1, <1>2, <1>5 DEF WorkerKeeps, QueueInv, ReadOnceInv
  <2>3. \A u, v \in Workers : u # v => batch'[u] \cap batch'[v] = {}
    BY <1>2, <2>2 DEF QueueInv, ReadOnceInv
  <2>4. revertedMsgs' \subseteq 1..cursor'
    BY <1>1, <1>5, <1>6 DEF WorkerKeeps, QueueInv, ReadOnceInv
  <2>5. \A v \in Workers : pel'[v] = batch'[v] /\ (mode'[v] = "down" => batch'[v] = {})
    BY <1>1, <1>2 DEF WorkerKeeps, QueueInv, ReadOnceInv
  <2>. QED
    BY <2>1, <2>3, <2>4, <2>5 DEF ReadOnceInv
<1>8. GivenBackInv'
  <2>. SUFFICES ASSUME NEW v \in Workers
                PROVE  /\ \A m \in batch'[v] \cap revertedMsgs' :
                            m = Current(v)' /\ step'[v] \in {"dlq", "ack"}
                       /\ Busy(v, "dlq")' => Current(v)' \in revertedMsgs'
    BY DEF GivenBackInv
  <2>1. CASE v = w
    BY <1>1, <2>1 DEF WorkerKeeps
  <2>2. CASE v # w
    <3>1. batch[v] \cap revertedMsgs' \subseteq batch[v] \cap revertedMsgs
      BY <1>1, <1>6, <2>2 DEF WorkerKeeps, QueueInv, ReadOnceInv
    <3>. QED
      BY <1>1, <1>2, <1>3, <2>2, <3>1 DEF WorkerKeeps, QueueInv, GivenBackInv, Busy
  <2>. QED
    BY <2>1, <2>2
<1>9. CASE LeavesOpen(w)
  <2>1. ASSUME NEW m \in Written PROVE m \in Written'
    <3>1. m \in 1..cursor' /\ m \notin (cursor + 1)..cursor'
      BY <1>1, <1>5 DEF WorkerKeeps, Written
    <3>2. m \notin revertedMsgs'
      BY <1>1 DEF WorkerKeeps, Written
    <3>3. m \notin Open(w)'
      BY <1>9, <3>1, <3>2 DEF LeavesOpen, Written
    <3>. QED
      BY <1>3, <3>1, <3>2, <3>3 DEF Written
  <2>2. ASSUME NEW m \in Written' PROVE m \in Written
    <3>1. m \in 1..cursor' /\ m \notin revertedMsgs' /\ \A v \in Workers : m \notin Open(v)'
      BY DEF Written
    <3>2. m \notin Open(w) /\ m \notin (cursor + 1)..cursor'
      BY <1>9, <3>1 DEF LeavesOpen
    <3>3. m \in 1..cursor /\ m \notin revertedMsgs
      BY <1>1, <1>5, <3>1, <3>2 DEF WorkerKeeps
    <3>. QED
      BY <1>3, <3>1, <3>2, <3>3 DEF Written
  <2>3. Written' = Written /\ Present' = Present
    BY <1>9, <2>1, <2>2 DEF LeavesOpen, Present
  <2>4. WrittenInv'
    BY <1>4, <1>9, <2>3 DEF LeavesOpen, QueueInv, WrittenInv, Tickets
  <2>. QED
    BY <1>7, <1>8, <2>4 DEF QueueInv
<1>10. CASE Writes(w)
  <2>. DEFINE m == Current(w)
              o == stream[m]
  <2>1. m \in (1..cursor) \ Written /\ o \in Orders \ Present
    BY <1>5, <1>6, <1>10 DEF Writes, Written, Present, QueueInv, ReadOnceInv
  <2>2. Present' = Present \cup {o}
    BY <1>5, <1>10, <2>1 DEF Writes, Present
  <2>3. Written' = Written \cup {m}
    <3>1. \A v \in Workers : v # w => m \notin Open(v)
      BY <1>6, <1>10 DEF Writes, QueueInv, ReadOnceInv
    <3>2. Written' = {k \in (1..cursor) \ revertedMsgs : \A v \in Workers : k \notin Open(v)'}
      BY <1>10 DEF Writes, Written
    <3>3. ASSUME NEW k \in (1..cursor) \ revertedMsgs
          PROVE  (\A v \in Workers : k \notin Open(v)')
                    <=> (\A v \in Workers : k \notin Open(v)) \/ k = m
      BY <1>3, <1>10, <3>1 DEF Writes
    <3>4. m \in (1..cursor) \ revertedMsgs
      BY <1>10, <2>1 DEF Writes
    <3>. QED
      BY <3>2, <3>3, <3>4 DEF Written
  <2>4. Written \in SUBSET (1..Len(stream)) /\ m \in (1..Len(stream)) \ Written
    BY <1>5, <2>1 DEF Written, Ids
  <2>5. /\ Cardinality(QueuedTickets(stream, Written \cup {m}))
              = Cardinality(QueuedTickets(stream, Written)) + QuantityOf[o]
        /\ Cardinality(Tickets(Present \cup {o})) = Cardinality(Tickets(Present)) + QuantityOf[o]
    <3>1. Present \in SUBSET Orders
      BY DEF Present
    <3>. QED
      BY <1>5, <2>1, <2>4, <3>1, QueuedOfOneMore, TicketsOfOneMore
  <2>6. \A k \in Written \cup {m} : status'[stream[k]] # "absent"
    <3>1. \A k \in Written : stream[k] \in Orders
      BY <1>5 DEF Written
    <3>. QED
      BY <1>5, <1>10, <2>1, <3>1 DEF Writes, QueueInv, WrittenInv
  <2>. HIDE DEF m, o
  <2>7. WrittenInv'
    BY <1>4, <2>2, <2>3, <2>5, <2>6 DEF QueueInv, WrittenInv, Tickets
  <2>. QED
    BY <1>7, <1>8, <2>7 DEF QueueInv
<1>. QED
  BY <1>1, <1>9, <1>10

\* The payment path neither makes an order nor compensates one.
LEMMA PayPgStepKeeps ==
    ASSUME PgTypeOK, PayPgStep
    PROVE  \A o \in Orders :
              /\ status'[o] = "absent" <=> status[o] = "absent"
              /\ status'[o] = "compensated" <=> status[o] = "compensated"
BY DEF PgTypeOK, PayPgStep, MarkPaid, FailOrder, FailedStatuses, pgVars

\* The saga makes none, and compensates those that have failed.
LEMMA UndoPgStepKeeps ==
    ASSUME SystemTypeInv, UndoPgStep
    PROVE  \A o \in Orders : status'[o] = "absent" <=> status[o] = "absent"
BY DEF SystemTypeInv, OthersTypeInv, TypeOK, PgTypeOK, UndoPgStep, CompensateOrder, CanCompensate,
       FailedStatuses, pgVars

\* A request adds at most a message to the queue.
LEMMA ApiKeeps ==
    ASSUME TypeOK, NEW o \in Orders, Api(o)
    PROVE  /\ UNCHANGED <<cursor, pel, batch, mode, step, revertedMsgs, revertedOrders, status>>
           /\ \A m \in Ids : stream'[m] = stream[m]
<1>1. UNCHANGED <<cursor, pel, batch, mode, step, revertedMsgs, revertedOrders, status>>
  BY DEF Api, Deduct, RepairMetadata, pgVars, redisVars, queueVars, workerVars
<1>2. stream' = stream \/ stream' = Append(stream, o)
  BY DEF Api, Deduct, DeductAndQueue, RepairMetadata, queueVars
<1>3. stream \in Seq(Orders)
  BY DEF TypeOK
<1>. QED
  BY <1>1, <1>2, <1>3, AppendProperties DEF Ids

\* The queue is kept by every step.
LEMMA NextQueueInv ==
    ASSUME Tame, SystemTypeInv, QueueInv, [SystemNext]_systemVars
    PROVE  QueueInv'
<1>. USE DEF SystemTypeInv
<1>1. ASSUME UNCHANGED <<cursor, pel, batch, mode, step, revertedMsgs, stream>>,
             \A o \in Orders : status'[o] = "absent" <=> status[o] = "absent"
      PROVE  QueueInv'
  BY <1>1, QueueInvStays
<1>2. ASSUME [Next]_vars PROVE QueueInv'
  <2>1. ASSUME NEW o \in Orders, Api(o) PROVE QueueInv'
    BY <2>1, ApiKeeps, QueueInvStays
  <2>2. ASSUME NEW w \in Workers, Work(w) PROVE QueueInv'
    BY <2>2, WorkQueueInv
  <2>3. ASSUME NEW w \in Workers PROVE ~Crash(w)
    BY TameFaults DEF Crash
  <2>4. ASSUME EvictMetadata \/ Rest \/ UNCHANGED vars \/ \E o \in Orders : Lapse(o)
        PROVE  QueueInv'
    BY <1>1, <2>4 DEF EvictMetadata, Rest, Lapse, vars, pgVars, redisVars, resVars, queueVars,
       workerVars
  <2>. QED
    BY <1>2, <2>1, <2>2, <2>3, <2>4 DEF Next
<1>3. ASSUME PayStep, UNCHANGED <<redisVars, resVars, sagaVars>> PROVE QueueInv'
  BY <1>1, <1>3, PayStepTables, PayPgStepKeeps DEF TypeOK, redisVars, resVars, queueVars, workerVars
<1>4. ASSUME UndoStep, UNCHANGED <<resVars, payVars>> PROVE QueueInv'
  <2>1. UNCHANGED revertedMsgs
    BY <1>4, UndoStepTables DEF UndoRedisStep, RevertOrder, redisVars
  <2>. QED
    BY <1>1, <1>4, <2>1, UndoStepTables, UndoPgStepKeeps DEF resVars, queueVars, workerVars
<1>5. ASSUME NEW o \in Orders, Clock(o) PROVE QueueInv'
  BY <1>1, <1>5 DEF Clock, pgVars, redisVars, resVars, queueVars, workerVars
<1>. QED
  BY <1>2, <1>3, <1>4, <1>5, StepOfOne

\* A revert for an order adds its tickets to both sides of the ledger, or changes
\* nothing.
LEMMA RevertOrderLedgerInv ==
    ASSUME TypeOK, LedgerInv, NEW o \in Orders, RevertOrder(o, QuantityOf[o]), UNCHANGED stream
    PROVE  LedgerInv'
<1>. DEFINE queued == Cardinality(QueuedTickets(stream, Ids))
            back == Cardinality(QueuedTickets(stream, revertedMsgs))
            n == QuantityOf[o]
            k == Cardinality(Tickets(revertedOrders))
            k2 == Cardinality(Tickets(revertedOrders'))
<1>0. /\ qty \in Nat /\ TotalTickets \in Nat /\ n \in Nat
      /\ stream \in Seq(Orders) /\ revertedOrders \in SUBSET Orders
      /\ revertedMsgs \in SUBSET (1..Len(stream)) /\ Ids = 1..Len(stream)
  BY CatalogAssumption, QuantityNat DEF TypeOK, RedisTypeOK, LedgerInv, Ids
<1>1. /\ queued \in Nat /\ back \in Nat /\ k \in Nat
      /\ qty + queued = TotalTickets + back + k
  BY <1>0, QueuedFinite, TicketsFinite DEF LedgerInv
<1>2. /\ revertedMsgs' = revertedMsgs /\ stream' = stream /\ Ids' = Ids
      /\ revertedOrders' = revertedOrders \cup {o}
  BY DEF RevertOrder, Ids
<1>3. qty' + queued = TotalTickets + back + k2
  <2>1. CASE o \in revertedOrders
    <3>1. qty' = qty /\ revertedOrders' = revertedOrders
      BY <1>2, <2>1 DEF RevertOrder
    <3>. QED
      BY <1>1, <3>1
  <2>2. CASE o \notin revertedOrders
    <3>1. qty' = qty + n
      BY <2>2 DEF RevertOrder
    <3>2. k2 = k + n
      BY <1>0, <1>2, <2>2, TicketsOfOneMore
    <3>. HIDE DEF queued, back, n, k, k2
    <3>. QED
      BY <1>0, <1>1, <3>1, <3>2
  <2>. QED
    BY <2>1, <2>2
<1>. QED
  BY <1>0, <1>2, <1>3 DEF LedgerInv, Tickets

\* The ledger is kept by every step.
LEMMA NextSystemLedgerInv ==
    ASSUME SystemTypeInv, LedgerInv, [SystemNext]_systemVars
    PROVE  LedgerInv'
<1>. USE DEF SystemTypeInv
<1>1. ASSUME UNCHANGED <<redisVars, stream>> PROVE LedgerInv'
  BY <1>1, QueueStepLedgerInv DEF QueueStep
<1>2. ASSUME [Next]_vars PROVE LedgerInv'
  BY <1>2, NextLedgerInv
<1>3. ASSUME PayStep, UNCHANGED <<redisVars, resVars, sagaVars>> PROVE LedgerInv'
  BY <1>1, <1>3 DEF resVars, queueVars
<1>4. ASSUME UndoStep, UNCHANGED <<resVars, payVars>> PROVE LedgerInv'
  <2>1. UNCHANGED stream
    BY <1>4 DEF resVars, queueVars
  <2>2. \A c \in Undo!Compensators : job[c] \in Orders
    BY DEF OthersTypeInv
  <2>. QED
    BY <1>1, <1>4, <2>1, <2>2, UndoStepTables, RevertOrderLedgerInv DEF UndoRedisStep
<1>5. ASSUME NEW o \in Orders, Clock(o) PROVE LedgerInv'
  BY <1>1, <1>5 DEF Clock, resVars, queueVars
<1>. QED
  BY <1>2, <1>3, <1>4, <1>5, StepOfOne

\* What no compensator is concerned with leaves it as it is.
LEMMA UndoInvStays ==
    ASSUME UndoInv, UNCHANGED <<comp, job, revertedOrders>>,
           \A o \in Orders : status'[o] = "compensated" <=> status[o] = "compensated",
           revertedOrders \subseteq Orders, \A c \in Undo!Compensators : job[c] \in Orders
    PROVE  UndoInv'
BY DEF UndoInv

\* A compensator may go on if it is not about to revert, and comes to Redis only
\* with an order that is compensated.
LEMMA CompMoveUndoInv ==
    ASSUME SystemTypeInv, UndoInv, NEW c \in Undo!Compensators, NEW s, NEW o \in Orders,
           comp' = [comp EXCEPT ![c] = s], job' = [job EXCEPT ![c] = o],
           comp[c] # "revert", s \in {"check", "revert", "mark"} => status[o] = "compensated",
           UNCHANGED <<status, revertedOrders>>
    PROVE  UndoInv'
<1>1. /\ comp \in [Undo!Compensators -> Undo!CompSteps] /\ job \in [Undo!Compensators -> Orders]
  BY DEF SystemTypeInv, OthersTypeInv
<1>2. /\ comp'[c] = s /\ job'[c] = o
      /\ \A d \in Undo!Compensators : d # c => comp'[d] = comp[d] /\ job'[d] = job[d]
  BY <1>1
<1>3. \A d \in Undo!Compensators :
        comp'[d] \in {"check", "revert", "mark"} => status[job'[d]] = "compensated"
  BY <1>2 DEF UndoInv
<1>4. ASSUME NEW p \in Orders, status[p] = "compensated"
      PROVE  \/ p \in revertedOrders
             \/ \E d \in Undo!Compensators : comp'[d] = "revert" /\ job'[d] = p
  BY <1>2, <1>4 DEF UndoInv
<1>. QED
  BY <1>3, <1>4 DEF UndoInv

\* Every step of the compensator keeps it, when no reply of Redis or commit is lost:
\* then what is committed in Postgres is reverted in Redis next.
LEMMA HandleOrderFailedUndoInv ==
    ASSUME Tame, SystemTypeInv, UndoInv, NEW c \in Undo!Compensators, Undo!HandleOrderFailed(c)
    PROVE  UndoInv'
<1>f. ~Undo!Fault("redis") /\ ~Undo!Fault("commit")
  BY TameFaults
<1>0. /\ comp \in [Undo!Compensators -> Undo!CompSteps] /\ job \in [Undo!Compensators -> Orders]
      /\ job[c] \in Orders /\ job = [job EXCEPT ![c] = job[c]]
      /\ status \in [Orders -> Statuses] /\ revertedOrders \subseteq Orders
  BY DEF SystemTypeInv, OthersTypeInv, TypeOK, PgTypeOK, RedisTypeOK
<1>1. CASE Undo!ReadOrder(c)
  <2>1. UNCHANGED <<status, revertedOrders>> /\ comp[c] = "read"
    BY <1>1 DEF Undo!ReadOrder, Undo!pgVars, Undo!redisVars, Undo!Doing
  <2>2. \/ Undo!CompGoes(c, "check") /\ status[job[c]] = "compensated"
        \/ Undo!CompGoes(c, "tx") \/ Undo!CompGoes(c, "failed")
    BY <1>1 DEF Undo!ReadOrder
  <2>3. CASE Undo!CompGoes(c, "check") /\ status[job[c]] = "compensated"
    BY <1>0, <2>1, <2>3, CompMoveUndoInv DEF Undo!CompGoes
  <2>4. ASSUME NEW s \in {"tx", "failed"}, Undo!CompGoes(c, s) PROVE UndoInv'
    BY <1>0, <2>1, <2>4, CompMoveUndoInv DEF Undo!CompGoes
  <2>. QED
    BY <2>2, <2>3, <2>4
<1>2. CASE Undo!Compensate(c)
  <2>1. comp[c] = "tx" /\ UNCHANGED revertedOrders
    BY <1>2 DEF Undo!Compensate, Undo!redisVars, Undo!Doing
  <2>2. CASE Undo!CompensateOrder(job[c]) /\ Undo!CompGoes(c, "revert")
    <3>1. status' = [status EXCEPT ![job[c]] = "compensated"]
      BY <2>2 DEF Undo!CompensateOrder
    <3>2. /\ job' = job /\ comp'[c] = "revert"
          /\ \A d \in Undo!Compensators : d # c => comp'[d] = comp[d]
      BY <1>0, <2>2 DEF Undo!CompGoes
    <3>3. /\ \A p \in Orders : status[p] = "compensated" => status'[p] = "compensated"
          /\ \A p \in Orders : status'[p] = "compensated" => p = job[c] \/ status[p] = "compensated"
          /\ status'[job[c]] = "compensated"
      BY <1>0, <3>1
    <3>4. \A p \in revertedOrders' : status'[p] = "compensated"
      BY <1>0, <2>1, <3>3 DEF UndoInv
    <3>5. \A d \in Undo!Compensators :
            comp'[d] \in {"check", "revert", "mark"} => status'[job'[d]] = "compensated"
      BY <1>0, <3>2, <3>3 DEF UndoInv
    <3>6. ASSUME NEW p \in Orders, status'[p] = "compensated"
          PROVE  \/ p \in revertedOrders'
                 \/ \E d \in Undo!Compensators : comp'[d] = "revert" /\ job'[d] = p
      BY <2>1, <3>2, <3>3, <3>6 DEF UndoInv
    <3>. QED
      BY <3>4, <3>5, <3>6 DEF UndoInv
  <2>3. CASE Undo!CompGoes(c, "failed") /\ UNCHANGED Undo!pgVars
    BY <1>0, <2>1, <2>3, CompMoveUndoInv DEF Undo!CompGoes, Undo!pgVars
  <2>. QED
    BY <1>2, <1>f, <2>2, <2>3 DEF Undo!Compensate, Undo!pgVars
<1>3. CASE Undo!CheckReverted(c)
  <2>1. UNCHANGED <<status, revertedOrders>> /\ comp[c] = "check"
    BY <1>3 DEF Undo!CheckReverted, Undo!pgVars, Undo!redisVars, Undo!Doing
  <2>2. status[job[c]] = "compensated"
    BY <2>1 DEF UndoInv
  <2>3. PICK s : Undo!CompGoes(c, s)
    BY <1>3 DEF Undo!CheckReverted
  <2>. QED
    BY <1>0, <2>1, <2>2, <2>3, CompMoveUndoInv DEF Undo!CompGoes
<1>4. CASE Undo!RevertRedis(c)
  <2>1. /\ comp[c] = "revert" /\ status' = status
        /\ revertedOrders' = revertedOrders \cup {job[c]}
        /\ Undo!CompGoes(c, "mark")
    BY <1>4, <1>f DEF Undo!RevertRedis, Undo!RevertOrder, Undo!pgVars, Undo!Doing
  <2>2. /\ job' = job /\ comp'[c] = "mark"
        /\ \A d \in Undo!Compensators : d # c => comp'[d] = comp[d]
    BY <1>0, <2>1 DEF Undo!CompGoes
  <2>3. status[job[c]] = "compensated"
    BY <2>1 DEF UndoInv
  <2>4. ASSUME NEW p \in Orders, status[p] = "compensated"
        PROVE  \/ p \in revertedOrders'
               \/ \E d \in Undo!Compensators : comp'[d] = "revert" /\ job'[d] = p
    <3>1. CASE p \in revertedOrders
      BY <2>1, <3>1
    <3>2. ASSUME NEW d \in Undo!Compensators, comp[d] = "revert", job[d] = p
          PROVE  \/ p \in revertedOrders'
                 \/ \E e \in Undo!Compensators : comp'[e] = "revert" /\ job'[e] = p
      BY <2>1, <2>2, <3>2
    <3>. QED
      BY <2>4, <3>1, <3>2 DEF UndoInv
  <2>. QED
    BY <2>1, <2>2, <2>3, <2>4 DEF UndoInv
<1>5. CASE Undo!MarkRedisReverted(c)
  <2>1. UNCHANGED <<status, revertedOrders>> /\ comp[c] = "mark"
    BY <1>5 DEF Undo!MarkRedisReverted, Undo!pgVars, Undo!redisVars, Undo!Doing
  <2>2. PICK s \in {"done", "failed"} : Undo!CompGoes(c, s)
    BY <1>5 DEF Undo!MarkRedisReverted
  <2>. QED
    BY <1>0, <2>1, <2>2, CompMoveUndoInv DEF Undo!CompGoes
<1>. QED
  BY <1>1, <1>2, <1>3, <1>4, <1>5 DEF Undo!HandleOrderFailed

\* Every step keeps it.
LEMMA NextUndoInv ==
    ASSUME Tame, SystemTypeInv, UndoInv, [SystemNext]_systemVars
    PROVE  UndoInv'
<1>. USE DEF SystemTypeInv
<1>0. /\ revertedOrders \subseteq Orders /\ \A c \in Undo!Compensators : job[c] \in Orders
      /\ comp \in [Undo!Compensators -> Undo!CompSteps] /\ job \in [Undo!Compensators -> Orders]
      /\ status \in [Orders -> Statuses] /\ stream \in Seq(Orders)
  BY DEF TypeOK, RedisTypeOK, PgTypeOK, OthersTypeInv
<1>1. ASSUME UNCHANGED <<comp, job, revertedOrders, status>> PROVE UndoInv'
  BY <1>0, <1>1, UndoInvStays
<1>2. ASSUME [Next]_vars, UNCHANGED <<payVars, sagaVars>> PROVE UndoInv'
  <2>1. UNCHANGED <<comp, job, revertedOrders>>
    <3>1. UNCHANGED <<comp, job>>
      BY <1>2 DEF sagaVars
    <3>2. UNCHANGED revertedOrders
      BY <1>2, NextIsQueueStep DEF QueueStep, RevertMsg, redisVars
    <3>. QED
      BY <3>1, <3>2
  <2>2. \A o \in Orders : status'[o] = "compensated" <=> status[o] = "compensated"
    <3>1. ASSUME NEW w \in Workers, Process(w)
          PROVE  \A o \in Orders : status'[o] = "compensated" <=> status[o] = "compensated"
      <4>1. stream[Current(w)] \in Orders
        BY <3>1, CurrentIsRead DEF Process, Busy
      <4>. QED
        BY <1>0, <3>1, <4>1 DEF Process, InsertReservation, AlreadyBought, pgVars
    <3>2. \/ \E w \in Workers : Process(w)
          \/ UNCHANGED status
      BY <1>2 DEF Next, Api, Lapse, Work, Deduct, RepairMetadata, EvictMetadata, Start, ReadPending,
         ReadNew, Revert, DeadLetter, Ack, Crash, Rest, vars, pgVars
    <3>. QED
      BY <3>1, <3>2
  <2>. QED
    BY <1>0, <2>1, <2>2, UndoInvStays
<1>3. ASSUME PayStep, UNCHANGED <<redisVars, resVars, sagaVars>> PROVE UndoInv'
  <2>1. UNCHANGED <<comp, job, revertedOrders>>
    BY <1>3 DEF redisVars, sagaVars
  <2>. QED
    BY <1>0, <1>3, <2>1, PayStepTables, PayPgStepKeeps, UndoInvStays DEF TypeOK
<1>4. ASSUME UndoStep PROVE UndoInv'
  <2>c. "consumer" \in Undo!Compensators /\ "watchdog" \in Undo!Compensators
    BY DEF Undo!Compensators
  <2>1. ASSUME \/ \E r \in Relays : Undo!Relay(r) \/ Undo!LoseSession(r) \/ Undo!CrashRelay(r)
               \/ Undo!FindStuck \/ \E o \in Orders : Undo!GrowTooOld(o)
        PROVE  UndoInv'
    BY <1>1, <2>1 DEF Undo!Relay, Undo!TryLock, Undo!ListPending, Undo!Publish, Undo!MarkProcessed,
       Undo!LoseSession, Undo!CrashRelay, Undo!FindStuck, Undo!GrowTooOld, Undo!compVars,
          Undo!pgVars, Undo!redisVars
  <2>2. ASSUME NEW c \in Undo!Compensators, NEW s \in Undo!CompSteps \ {"check", "revert", "mark"},
               Undo!CompGoes(c, s), comp[c] # "revert", UNCHANGED <<status, revertedOrders>>
        PROVE  UndoInv'
    <3>1. job = [job EXCEPT ![c] = job[c]] /\ job[c] \in Orders
      BY <1>0
    <3>. QED
      BY <2>2, <3>1, CompMoveUndoInv DEF Undo!CompGoes
  <2>3. ASSUME NEW c \in Undo!Compensators, NEW o \in Orders, Undo!StartJob(c, o), comp[c] = "idle",
               UNCHANGED <<status, revertedOrders>>
        PROVE  UndoInv'
    BY <2>3, CompMoveUndoInv DEF Undo!StartJob
  <2>4. CASE Undo!Fetch
    <3>1. topic[fetched + 1] \in Orders
      BY <2>4 DEF Undo!Fetch, OthersTypeInv
    <3>. QED
      BY <2>3, <2>4, <2>c, <3>1 DEF Undo!Fetch, Undo!Doing, Undo!pgVars, Undo!redisVars
  <2>5. CASE Undo!CountFailure \/ Undo!DeadLetter \/ Undo!Commit
    BY <2>2, <2>5, <2>c DEF Undo!CountFailure, Undo!DeadLetter, Undo!Commit, Undo!Doing,
       Undo!pgVars, Undo!redisVars,
       Undo!CompSteps
  <2>6. CASE Undo!Resolved
    BY <2>2, <2>6, <2>c DEF Undo!Resolved, Undo!Doing, Undo!pgVars, Undo!redisVars, Undo!CompSteps
  <2>7. ASSUME NEW o \in Orders, Undo!ResolveStuck(o) PROVE UndoInv'
    BY <1>1, <2>3, <2>7, <2>c DEF Undo!ResolveStuck, Undo!Doing, Undo!pgVars, Undo!redisVars,
       Undo!compVars
  <2>8. ~Undo!CrashConsumer /\ ~Undo!CrashWatchdog
    BY TameFaults DEF Undo!CrashConsumer, Undo!CrashWatchdog
  <2>. QED
    BY <1>4, <2>1, <2>4, <2>5, <2>6, <2>7, <2>8, <2>c, HandleOrderFailedUndoInv
       DEF UndoStep, Undo!Consume, Undo!Watch, Undo!SagaFaults
<1>5. ASSUME NEW o \in Orders, Clock(o) PROVE UndoInv'
  BY <1>1, <1>5 DEF Clock, redisVars, sagaVars, pgVars
<1>. QED
  BY <1>2, <1>3, <1>4, <1>5, StepOfOne

\* It holds at the start, when nothing is queued and nothing undone.
LEMMA InitAgreeInv == SystemInit => AgreeInv
<1>. SUFFICES ASSUME SystemInit PROVE AgreeInv
  OBVIOUS
<1>1. LedgerInv
  BY InitLedgerInv DEF SystemInit
<1>2. /\ cursor = 0 /\ revertedMsgs = {} /\ revertedOrders = {}
      /\ \A w \in Workers : pel[w] = {} /\ batch[w] = {}
      /\ \A o \in Orders : status[o] = "absent"
      /\ \A c \in Undo!Compensators : comp[c] = "idle"
  BY DEF SystemInit, Init, PgInit, ResInit, Undo!SagaInit
<1>3. Written = {} /\ Present = {}
  BY <1>2 DEF Written, Present
<1>4. QueuedTickets(stream, {}) = {} /\ Tickets({}) = {}
  BY DEF QueuedTickets, Tickets
<1>5. WrittenInv
  BY <1>3, <1>4 DEF WrittenInv
<1>6. ReadOnceInv /\ GivenBackInv
  BY <1>2 DEF ReadOnceInv, GivenBackInv, Busy
<1>7. UndoInv
  BY <1>2 DEF UndoInv
<1>. QED
  BY <1>1, <1>5, <1>6, <1>7 DEF AgreeInv, QueueInv

\* In every behaviour, when no failure repeats what was committed.
LEMMA SystemAgreeInv ==
    ASSUME Tame
    PROVE  SystemSpec => []AgreeInv
<1>1. SystemTypeInv /\ AgreeInv /\ [SystemNext]_systemVars => AgreeInv'
  BY NextSystemLedgerInv, NextQueueInv, NextUndoInv DEF AgreeInv
<1>. QED
  BY <1>1, InitAgreeInv, SystemTypes, PTL DEF SystemSpec

\* The tickets of two sets of messages add up.
LEMMA QueuedOfUnion ==
    ASSUME NEW str \in Seq(Orders), NEW X \in SUBSET (1..Len(str)),
           NEW Y \in SUBSET (1..Len(str)), X \cap Y = {}
    PROVE  Cardinality(QueuedTickets(str, X \cup Y))
             = Cardinality(QueuedTickets(str, X)) + Cardinality(QueuedTickets(str, Y))
<1>1. QueuedTickets(str, X \cup Y) = QueuedTickets(str, X) \cup QueuedTickets(str, Y)
  BY DEF QueuedTickets
<1>2. QueuedTickets(str, X) \cap QueuedTickets(str, Y) = {}
  BY DEF QueuedTickets
<1>3. Cardinality(QueuedTickets(str, X) \cap QueuedTickets(str, Y)) = 0
  BY <1>2, FS_EmptySet
<1>4. /\ IsFiniteSet(QueuedTickets(str, X)) /\ Cardinality(QueuedTickets(str, X)) \in Nat
      /\ IsFiniteSet(QueuedTickets(str, Y)) /\ Cardinality(QueuedTickets(str, Y)) \in Nat
  BY QueuedFinite
<1>5. Cardinality(QueuedTickets(str, X \cup Y))
        = Cardinality(QueuedTickets(str, X)) + Cardinality(QueuedTickets(str, Y)) - 0
  BY <1>1, <1>3, <1>4, FS_Union
<1>. QED
  BY <1>4, <1>5

\* Fewer messages have no more tickets.
LEMMA QueuedMonotone ==
    ASSUME NEW str \in Seq(Orders), NEW Y \in SUBSET (1..Len(str)), NEW X \in SUBSET Y
    PROVE  Cardinality(QueuedTickets(str, X)) <= Cardinality(QueuedTickets(str, Y))
<1>1. Y = X \cup (Y \ X) /\ X \cap (Y \ X) = {}
  OBVIOUS
<1>2. Cardinality(QueuedTickets(str, Y))
        = Cardinality(QueuedTickets(str, X)) + Cardinality(QueuedTickets(str, Y \ X))
  BY <1>1, QueuedOfUnion
<1>3. /\ Cardinality(QueuedTickets(str, X)) \in Nat
      /\ Cardinality(QueuedTickets(str, Y \ X)) \in Nat
  BY QueuedFinite
<1>. QED
  BY <1>2, <1>3

\* The messages that nobody has dealt with.
Unsettled == (Ids \ revertedMsgs) \ Written

\* The orders that were compensated.
Compensated == {o \in Orders : status[o] = "compensated"}

\* Redis and the unsettled messages have what Postgres offers, but for the tickets
\* of compensated orders that are not yet back in Redis.
LEMMA Balance ==
    ASSUME SystemTypeInv, AgreeInv, TicketsConserved
    PROVE  qty + Cardinality(QueuedTickets(stream, Unsettled)) + Cardinality(Tickets(Compensated))
             = available + Cardinality(Tickets(revertedOrders))
<1>. DEFINE N(S) == Cardinality(QueuedTickets(stream, S))
            T(S) == Cardinality(Tickets(S))
<1>0. /\ qty \in Nat /\ available \in Nat /\ TotalTickets \in Nat
      /\ stream \in Seq(Orders) /\ Ids = 1..Len(stream)
      /\ revertedMsgs \in SUBSET Ids /\ cursor \in 0..Len(stream) /\ Len(stream) \in Nat
      /\ revertedOrders \in SUBSET Orders /\ status \in [Orders -> Statuses]
  BY CatalogAssumption
     DEF SystemTypeInv, TypeOK, PgTypeOK, RedisTypeOK, AgreeInv, LedgerInv, Ids
<1>1. Written \in SUBSET (Ids \ revertedMsgs)
  BY <1>0 DEF Written
<1>2. N(Ids) = N(revertedMsgs) + N(Ids \ revertedMsgs)
  <2>1. Ids = revertedMsgs \cup (Ids \ revertedMsgs)
    BY <1>0
  <2>2. /\ Ids \ revertedMsgs \in SUBSET (1..Len(stream))
        /\ revertedMsgs \in SUBSET (1..Len(stream))
        /\ revertedMsgs \cap (Ids \ revertedMsgs) = {}
    BY <1>0
  <2>3. N(revertedMsgs \cup (Ids \ revertedMsgs)) = N(revertedMsgs) + N(Ids \ revertedMsgs)
    BY <1>0, <2>2, QueuedOfUnion
  <2>. QED
    BY <2>1, <2>3
<1>3. N(Ids \ revertedMsgs) = N(Written) + N(Unsettled)
  <2>1. Ids \ revertedMsgs = Written \cup Unsettled
    BY <1>1 DEF Unsettled
  <2>2. /\ Written \in SUBSET (1..Len(stream)) /\ Unsettled \in SUBSET (1..Len(stream))
        /\ Written \cap Unsettled = {}
    BY <1>0, <1>1 DEF Unsettled
  <2>3. N(Written \cup Unsettled) = N(Written) + N(Unsettled)
    BY <1>0, <2>2, QueuedOfUnion
  <2>. QED
    BY <2>1, <2>3
<1>4. T(Present) = T(Holding) + T(Compensated)
  <2>1. Present = Holding \cup Compensated /\ Holding \cap Compensated = {}
    BY DEF Present, Holding, Compensated
  <2>2. Holding \in SUBSET Orders /\ Compensated \in SUBSET Orders
    BY DEF Holding, Compensated
  <2>. QED
    BY <2>1, <2>2, TicketsOfUnion
<1>5. /\ N(Ids) \in Nat /\ N(revertedMsgs) \in Nat /\ N(Ids \ revertedMsgs) \in Nat
      /\ N(Written) \in Nat /\ N(Unsettled) \in Nat
  <2>1. /\ Ids \in SUBSET (1..Len(stream)) /\ revertedMsgs \in SUBSET (1..Len(stream))
        /\ Ids \ revertedMsgs \in SUBSET (1..Len(stream)) /\ Written \in SUBSET (1..Len(stream))
        /\ Unsettled \in SUBSET (1..Len(stream))
    BY <1>0, <1>1 DEF Unsettled
  <2>. QED
    BY <1>0, <2>1, QueuedFinite
<1>6. /\ T(Present) \in Nat /\ T(Holding) \in Nat /\ T(Compensated) \in Nat
      /\ T(revertedOrders) \in Nat
  <2>1. /\ Present \in SUBSET Orders /\ Holding \in SUBSET Orders
        /\ Compensated \in SUBSET Orders
    BY DEF Present, Holding, Compensated
  <2>. QED
    BY <1>0, <2>1, TicketsFinite
<1>7. /\ qty + N(Ids) = TotalTickets + N(revertedMsgs) + T(revertedOrders)
      /\ N(Written) = T(Present)
      /\ available + T(Holding) = TotalTickets
  BY DEF AgreeInv, LedgerInv, QueueInv, WrittenInv, TicketsConserved
<1>. DEFINE all == N(Ids)
            back == N(revertedMsgs)
            others == N(Ids \ revertedMsgs)
            written == N(Written)
            unsettled == N(Unsettled)
            present == T(Present)
            holding == T(Holding)
            undone == T(Compensated)
            returned == T(revertedOrders)
<1>8. /\ all \in Nat /\ back \in Nat /\ others \in Nat /\ written \in Nat /\ unsettled \in Nat
      /\ present \in Nat /\ holding \in Nat /\ undone \in Nat /\ returned \in Nat
      /\ qty \in Nat /\ available \in Nat /\ TotalTickets \in Nat
  BY <1>0, <1>5, <1>6
<1>9. /\ all = back + others /\ others = written + unsettled /\ present = holding + undone
      /\ qty + all = TotalTickets + back + returned
      /\ written = present
      /\ available + holding = TotalTickets
  BY <1>2, <1>3, <1>4, <1>7
<1>. SUFFICES qty + unsettled + undone = available + returned
  OBVIOUS
<1>. HIDE DEF all, back, others, written, unsettled, present, holding, undone, returned
<1>. QED
  BY <1>8, <1>9

\* While no failure repeats what was committed or loses a revert, Redis and the
\* queue never hold more than event_ticket_types, for any number of customers,
\* workers, handlers and relays, and however many other failures there are.
THEOREM SystemNeverOversells ==
    ASSUME Tame
    PROVE  SystemSpec => []NoOversell
<1>1. ASSUME SystemTypeInv, AgreeInv, TicketsConserved PROVE NoOversell
  <2>0. /\ qty \in Nat /\ available \in Nat /\ stream \in Seq(Orders) /\ Ids = 1..Len(stream)
        /\ revertedOrders \in SUBSET Orders
    BY <1>1 DEF SystemTypeInv, TypeOK, PgTypeOK, RedisTypeOK, Ids
  <2>1. Unsettled \in SUBSET (1..Len(stream))
    BY <2>0 DEF Unsettled
  <2>2. Unwritten \in SUBSET Unsettled
    BY <1>1 DEF AgreeInv, QueueInv, WrittenInv, Unwritten, Unsettled
  <2>3. Cardinality(QueuedTickets(stream, Unwritten)) <= Cardinality(QueuedTickets(stream, Unsettled))
    BY <2>0, <2>1, <2>2, QueuedMonotone
  <2>4. revertedOrders \in SUBSET Compensated /\ Compensated \in SUBSET Orders
    BY <1>1, <2>0 DEF AgreeInv, UndoInv, Compensated
  <2>5. Cardinality(Tickets(revertedOrders)) <= Cardinality(Tickets(Compensated))
    BY <2>4, TicketsMonotone
  <2>6. qty + Cardinality(QueuedTickets(stream, Unsettled)) + Cardinality(Tickets(Compensated))
           = available + Cardinality(Tickets(revertedOrders))
    BY <1>1, Balance
  <2>7. /\ Cardinality(QueuedTickets(stream, Unwritten)) \in Nat
        /\ Cardinality(QueuedTickets(stream, Unsettled)) \in Nat
        /\ Cardinality(Tickets(Compensated)) \in Nat
        /\ Cardinality(Tickets(revertedOrders)) \in Nat
    BY <2>0, <2>1, <2>2, <2>4, QueuedFinite, TicketsFinite
  <2>8. MsgTickets(Unwritten) = QueuedTickets(stream, Unwritten)
    BY DEF MsgTickets, QueuedTickets
  <2>9. qty + Cardinality(QueuedTickets(stream, Unwritten)) <= available
    BY <2>0, <2>3, <2>5, <2>6, <2>7
  <2>. QED
    BY <2>8, <2>9 DEF NoOversell
<1>. QED
  BY <1>1, SystemAgreeInv, SystemTypes, SystemConserves, PTL

\* And when everything has come to rest the two have the same: what is neither sold
\* nor on its way is on offer on both sides.
THEOREM SystemRestsInAgreement ==
    ASSUME Tame
    PROVE  SystemSpec => []RestsInAgreement
<1>1. ASSUME SystemTypeInv, AgreeInv, TicketsConserved, SystemAtRest PROVE qty = available
  <2>1. /\ cursor = Len(stream) /\ \A w \in Workers : batch[w] = {}
        /\ \A c \in Undo!Compensators : comp[c] = "idle"
    BY <1>1 DEF SystemAtRest, Drained, AtRest, Undo!AtRest, Undo!Doing
  <2>2. Unsettled = {}
    BY <2>1 DEF Unsettled, Written, Open, Ids
  <2>3. revertedOrders = Compensated
    <3>1. revertedOrders \subseteq Orders
      BY <1>1 DEF SystemTypeInv, TypeOK, RedisTypeOK
    <3>2. \A o \in Orders : status[o] = "compensated" => o \in revertedOrders
      BY <1>1, <2>1 DEF AgreeInv, UndoInv
    <3>. QED
      BY <1>1, <3>1, <3>2 DEF AgreeInv, UndoInv, Compensated
  <2>4. Cardinality(QueuedTickets(stream, {})) = 0
    <3>1. QueuedTickets(stream, {}) = {}
      BY DEF QueuedTickets
    <3>. QED
      BY <3>1, FS_EmptySet
  <2>5. qty \in Nat /\ available \in Nat /\ Cardinality(Tickets(Compensated)) \in Nat
    BY <1>1, TicketsFinite DEF SystemTypeInv, TypeOK, PgTypeOK, RedisTypeOK, Compensated
  <2>6. qty + 0 + Cardinality(Tickets(Compensated)) = available + Cardinality(Tickets(Compensated))
    BY <1>1, <2>2, <2>3, <2>4, Balance
  <2>. QED
    BY <2>5, <2>6
<1>2. SystemTypeInv /\ AgreeInv /\ TicketsConserved => RestsInAgreement
  BY <1>1 DEF RestsInAgreement
<1>3. SystemSpec => []SystemTypeInv /\ []AgreeInv /\ []TicketsConserved
  BY SystemAgreeInv, SystemTypes, SystemConserves, PTL
<1>. QED
  BY <1>2, <1>3, PTL

-----------------------------------------------------------------------------
(* Behind the idempotency middleware *)

\* What the cache may have: nothing, the answer of a request this model does not
\* see, or that of an accepted booking under its own body.
CacheInv ==
    \A k \in Keys :
        \/ cache[k] = Empty
        \/ cache[k].answers = Earlier
        \/ /\ cache[k].answers \in Orders
           /\ api[cache[k].answers] = "accepted"
           /\ cache[k].body = BodyOf[cache[k].answers]

\* The service does not see a request before its lookup, and without a key there
\* is none.
MiddlewareInv ==
    /\ api \in [Orders -> ApiStates]
    /\ mw \in [Orders -> MwSteps]
    /\ cache \in [Keys -> Entries]
    /\ \A o \in Orders : mw[o] \in {"lookup", "handler"} => KeyOf[o] \in Keys
    /\ \A o \in Orders : mw[o] = "lookup" => api[o] = "new"
    /\ CacheInv

\* Nobody has been answered at the start.
LEMMA InitMiddlewareInv == IdempotencyInit => MiddlewareInv
<1>. SUFFICES ASSUME IdempotencyInit PROVE MiddlewareInv
  OBVIOUS
<1>1. api = [o \in Orders |-> "new"]
  BY DEF IdempotencyInit, Init, ResInit
<1>2. cache \in [Keys -> {Empty, Legacy}] /\ Empty \in Entries /\ Legacy \in Entries
  BY DEF IdempotencyInit, Empty, Legacy, Entries
<1>3. \A k \in Keys : cache[k] = Empty \/ cache[k].answers = Earlier
  BY <1>2 DEF Legacy
<1>4. /\ mw \in [Orders -> MwSteps]
      /\ \A o \in Orders : mw[o] \in {"lookup", "handler"} => KeyOf[o] \in Keys
  BY IdempotencyAssumption DEF IdempotencyInit, MwSteps
<1>. QED
  BY <1>1, <1>2, <1>3, <1>4 DEF MiddlewareInv, CacheInv, ApiStates

\* An entry that is written keeps the cache so, whoever writes over whom, if it
\* answers an earlier request or is a request's own acceptance.
LEMMA StoreKeepsCache ==
    ASSUME MiddlewareInv, NEW o \in Orders, KeyOf[o] \in Keys, NEW p, Store(o, p),
           p = Earlier \/ (p = o /\ api[o] = "accepted"),
           \A q \in Orders : api[q] = "accepted" => api'[q] = "accepted"
    PROVE  cache' \in [Keys -> Entries] /\ CacheInv'
<1>. DEFINE entry == [answers |-> p, body |-> BodyOf[o]]
<1>1. entry \in Entries /\ entry.answers = p /\ entry.body = BodyOf[o]
  BY IdempotencyAssumption DEF Entries
<1>2. cache' = [cache EXCEPT ![KeyOf[o]] = entry] \/ cache' = cache
  BY DEF Store
<1>. HIDE DEF entry
<1>3. cache' \in [Keys -> Entries]
  BY <1>1, <1>2 DEF MiddlewareInv
<1>4. ASSUME NEW k \in Keys
      PROVE  cache'[k] = cache[k] \/ cache'[k] = entry
  BY <1>2, <1>4 DEF MiddlewareInv
<1>5. CacheInv'
  BY <1>1, <1>4 DEF MiddlewareInv, CacheInv
<1>. QED
  BY <1>3, <1>5

\* Every step keeps it.
LEMMA NextMiddlewareInv == MiddlewareInv /\ [IdempotencyNext]_idemVars => MiddlewareInv'
<1>. SUFFICES ASSUME MiddlewareInv, [IdempotencyNext]_idemVars PROVE MiddlewareInv'
  OBVIOUS
<1>0. /\ api \in [Orders -> ApiStates] /\ mw \in [Orders -> MwSteps]
      /\ cache \in [Keys -> Entries]
  BY DEF MiddlewareInv
<1>1. ASSUME UNCHANGED <<api, cache, mw>> PROVE MiddlewareInv'
  BY <1>1 DEF MiddlewareInv, CacheInv
<1>2. ASSUME NEW o \in Orders, Lookup(o) PROVE MiddlewareInv'
  <2>0. mw[o] = "lookup" /\ KeyOf[o] \in Keys /\ api[o] = "new"
    BY <1>2 DEF Lookup, MiddlewareInv
  <2>1. /\ api' \in {api, [api EXCEPT ![o] = "failed"]}
        /\ \E s \in {"handler", "replayed", "conflict", "suspended"} :
              mw' = [mw EXCEPT ![o] = s]
    BY <1>2 DEF Lookup, Replay, Goto, Answer
  <2>2. /\ api' \in [Orders -> ApiStates]
        /\ \A q \in Orders : q # o => api'[q] = api[q]
    BY <1>0, <2>1 DEF ApiStates
  <2>3. /\ mw' \in [Orders -> MwSteps] /\ mw'[o] # "lookup"
        /\ \A q \in Orders : q # o => mw'[q] = mw[q]
    BY <1>0, <2>1 DEF MwSteps
  <2>4. \A q \in Orders : api[q] = "accepted" => api'[q] = "accepted"
    BY <2>0, <2>2
  <2>5. cache' \in [Keys -> Entries] /\ CacheInv'
    <3>1. CASE UNCHANGED cache
      BY <1>0, <2>4, <3>1 DEF MiddlewareInv, CacheInv
    <3>2. CASE /\ cache[KeyOf[o]] # Empty /\ cache[KeyOf[o]].body = Nothing
               /\ Store(o, cache[KeyOf[o]].answers)
      <4>1. \A p \in Orders : BodyOf[p] # Nothing
        BY IdempotencyAssumption
      <4>2. cache[KeyOf[o]].answers = Earlier
        BY <2>0, <3>2, <4>1 DEF MiddlewareInv, CacheInv
      <4>. QED
        BY <2>0, <2>4, <3>2, <4>2, StoreKeepsCache
    <3>. QED
      BY <1>2, <3>1, <3>2 DEF Lookup
  <2>. QED
    BY <2>0, <2>2, <2>3, <2>5 DEF MiddlewareInv
<1>3. ASSUME NEW o \in Orders, Handle(o) PROVE MiddlewareInv'
  <2>1. mw[o] # "lookup" /\ UNCHANGED <<cache, mw>>
    BY <1>3 DEF Handle
  <2>2. /\ api[o] \in {"new", "retrying", "repairing"}
        /\ api' = api \/ \E a \in ApiStates : api' = [api EXCEPT ![o] = a]
    BY <1>3 DEF Handle, Api, Deduct, RepairMetadata, Answer, ApiStates
  <2>3. /\ api' \in [Orders -> ApiStates]
        /\ \A q \in Orders : q # o => api'[q] = api[q]
    BY <1>0, <2>2
  <2>4. \A q \in Orders : api[q] = "accepted" => api'[q] = "accepted"
    BY <2>2, <2>3
  <2>. QED
    BY <1>0, <2>1, <2>3, <2>4 DEF MiddlewareInv, CacheInv
<1>4. ASSUME NEW o \in Orders, Save(o) PROVE MiddlewareInv'
  <2>1. /\ mw[o] = "handler" /\ KeyOf[o] \in Keys /\ api' = api
        /\ mw' = [mw EXCEPT ![o] = "done"] /\ Store(o, o)
    BY <1>4 DEF Save, Goto, MiddlewareInv, resVars, apiVars
  <2>2. api[o] = "accepted"
    BY <1>4 DEF Save, shouldCacheStatus, HttpStatus
  <2>3. cache' \in [Keys -> Entries] /\ CacheInv'
    BY <2>1, <2>2, StoreKeepsCache
  <2>4. /\ mw' \in [Orders -> MwSteps] /\ mw'[o] = "done"
        /\ \A q \in Orders : q # o => mw'[q] = mw[q]
    BY <1>0, <2>1 DEF MwSteps
  <2>. QED
    BY <2>1, <2>3, <2>4 DEF MiddlewareInv
<1>5. ASSUME Behind /\ UNCHANGED <<cache, mw>> PROVE UNCHANGED <<api, cache, mw>>
  BY <1>5 DEF Behind, Lapse, Work, Start, ReadPending, ReadNew, Process, Revert, DeadLetter, Ack,
     Crash, EvictMetadata, Rest, vars, resVars, apiVars
<1>6. CASE UNCHANGED idemVars
  BY <1>1, <1>6 DEF idemVars, vars, resVars, apiVars
<1>. QED
  BY <1>1, <1>2, <1>3, <1>4, <1>5, <1>6 DEF IdempotencyNext, Request

\* Whichever requests with one key overlap, fail or write over each other's entries,
\* a replay answers with an accepted booking of the same customer and body, or with
\* what an entry without a fingerprint has.
THEOREM ReplaysAnswerTheRequest == IdempotencySpec => ReplayIsOfSameRequest
<1>. DEFINE Faithful(o) ==
              LET p == cache[KeyOf[o]].answers IN
              \/ p = Earlier
              \/ /\ api[p] = "accepted"
                 /\ CustomerOf[p] = CustomerOf[o]
                 /\ BodyOf[p] = BodyOf[o]
            Replays(o) == mw[o] = "lookup" /\ mw'[o] = "replayed"
<1>1. ASSUME MiddlewareInv, IdempotencyNext, NEW o \in Orders, Replays(o) PROVE Faithful(o)
  <2>0. mw \in [Orders -> MwSteps] /\ KeyOf[o] \in Keys
    BY <1>1 DEF MiddlewareInv
  <2>1. ASSUME NEW q \in Orders, Lookup(q) PROVE q = o /\ Lookup(o)
    <3>1. \A r \in Orders : r # q => mw'[r] = mw[r]
      BY <2>0, <2>1 DEF Lookup, Replay, Goto
    <3>. QED
      BY <1>1, <2>1, <3>1
  <2>2. ASSUME NEW q \in Orders, Save(q) PROVE FALSE
    BY <1>1, <2>0, <2>2 DEF Save, Goto
  <2>3. Lookup(o)
    BY <1>1, <2>1, <2>2 DEF IdempotencyNext, Request, Handle
  <2>4. mw'[o] = "replayed" /\ \A s : Goto(o, s) => s = "replayed"
    BY <1>1, <2>0 DEF Goto
  <2>5. \/ cache[KeyOf[o]] # Empty /\ cache[KeyOf[o]].body = Nothing
        \/ cache[KeyOf[o]].body = BodyOf[o]
    BY <2>3, <2>4 DEF Lookup
  <2>6. \A p \in Orders : BodyOf[p] # Nothing
    BY IdempotencyAssumption
  <2>7. cache[KeyOf[o]].body = BodyOf[o] => cache[KeyOf[o]] # Empty
    BY <2>6 DEF Empty
  <2>8. \/ cache[KeyOf[o]].answers = Earlier
        \/ /\ cache[KeyOf[o]].answers \in Orders
           /\ api[cache[KeyOf[o]].answers] = "accepted"
           /\ cache[KeyOf[o]].body = BodyOf[cache[KeyOf[o]].answers]
    BY <1>1, <2>0, <2>5, <2>7 DEF MiddlewareInv, CacheInv
  <2>. QED
    BY <2>5, <2>6, <2>8, IdempotencyAssumption
<1>2. ASSUME MiddlewareInv, UNCHANGED idemVars, NEW o \in Orders PROVE ~Replays(o)
  BY <1>2 DEF idemVars
<1>. HIDE DEF Faithful, Replays
<1>3. MiddlewareInv /\ [IdempotencyNext]_idemVars
        => [\A o \in Orders : Replays(o) => Faithful(o)]_idemVars
  BY <1>1, <1>2
<1>. USE DEF Faithful, Replays
<1>. QED
  BY <1>3, InitMiddlewareInv, NextMiddlewareInv, PTL DEF IdempotencySpec, ReplayIsOfSameRequest
=============================================================================
