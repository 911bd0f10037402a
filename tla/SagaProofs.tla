----------------------------- MODULE SagaProofs ------------------------------
(***************************************************************************)
(* Proofs about the saga with the reconciler beside it, for any number of  *)
(* orders, relays, reconcilers and failures.                               *)
(***************************************************************************)
EXTENDS Reconciler, PostgresProofs, CatalogProofs, SequenceTheorems

-----------------------------------------------------------------------------
(* The tables *)

\* A failure is taken from the budget.
LEMMA FaultTakesOne ==
    ASSUME EnvTypeOK, NEW kind, Fault(kind)
    PROVE  budget' \in 0..MaxFaults
BY EnvironmentAssumption DEF EnvTypeOK, Fault

\* Every step runs one of the transactions, or none.
LEMMA ReconStepIsPgStep == ReconTypeOK /\ [ReconNext]_allVars => PgStep
<1>. SUFFICES ASSUME ReconTypeOK, [ReconNext]_allVars PROVE PgStep
  OBVIOUS
<1>. USE DEF PgStep
<1>1. ASSUME NEW o \in Orders, Reserve(o) PROVE PgStep
  BY <1>1 DEF Reserve
<1>2. ASSUME NEW o \in Orders, FailPayment(o) PROVE PgStep
  BY <1>2 DEF FailPayment
<1>3. ASSUME NEW c \in Compensators, HandleOrderFailed(c) PROVE PgStep
  <2>1. CASE Compensate(c)
    <3>1. job[c] \in Orders
      BY DEF ReconTypeOK, TypeOK, CompTypeOK
    <3>. QED
      BY <2>1, <3>1 DEF Compensate
  <2>2. CASE ReadOrder(c) \/ CheckReverted(c) \/ RevertRedis(c) \/ MarkRedisReverted(c)
    BY <2>2 DEF ReadOrder, CheckReverted, RevertRedis, MarkRedisReverted
  <2>. QED
    BY <1>3, <2>1, <2>2 DEF HandleOrderFailed
<1>4. CASE Consume \/ Watch
  BY <1>3, <1>4 DEF Consume, Watch, Fetch, CountFailure, DeadLetter, Commit, FindStuck, Resolved,
     ResolveStuck, Compensators
<1>5. ASSUME NEW r \in Relays, Relay(r) PROVE PgStep
  BY <1>5 DEF Relay, TryLock, ListPending, Publish, MarkProcessed
<1>6. CASE SagaFaults \/ Rest
  BY <1>6 DEF SagaFaults, LoseSession, CrashRelay, CrashConsumer, CrashWatchdog, GrowTooOld,
     Rest, vars
<1>7. ASSUME NEW r \in Reconcilers, Settle(r) PROVE PgStep
  <2>1. subject[r] \in Orders
    BY DEF ReconTypeOK
  <2>2. ASSUME NEW o \in Orders, NEW v, Move(o, v) PROVE PgStep
    BY <2>2 DEF Move, Phases, FailedStatuses
  <2>. QED
    BY <1>7, <2>1, <2>2 DEF Settle
<1>8. ASSUME NEW r \in Reconcilers, Recon(r) \/ CrashRecon(r) PROVE PgStep
  BY <1>7, <1>8 DEF Recon, FindStuckCharging, Resolve, GetStatus, CrashRecon, vars
<1>9. ASSUME NEW o \in Orders, LeaveCharging(o) \/ SettleCharge(o) \/ GrowOld(o) PROVE PgStep
  BY <1>1, <1>9 DEF LeaveCharging, SettleCharge, GrowOld, vars
<1>10. CASE SagaStep
  BY <1>1, <1>2, <1>4, <1>5, <1>6, <1>10 DEF SagaStep
<1>11. CASE UNCHANGED allVars
  BY <1>11 DEF allVars, vars
<1>. QED
  BY <1>8, <1>9, <1>10, <1>11 DEF ReconNext

-----------------------------------------------------------------------------
(* The types *)

\* The consumer only works on a message it has fetched.
ConsumerInv == comp["consumer"] # "idle" => fetched >= 1

SagaTypeInv == ReconTypeOK /\ ConsumerInv

\* The parts that a step leaves alone, whatever it does to the rest.
LEMMA RelayTypeStays ==
    ASSUME RelayTypeOK, PgTypeOK, PgStep, UNCHANGED relayVars
    PROVE  RelayTypeOK'
BY OutboxGrows DEF RelayTypeOK, relayVars

LEMMA KafkaTypeStays ==
    ASSUME KafkaTypeOK, UNCHANGED kafkaVars
    PROVE  KafkaTypeOK'
BY DEF KafkaTypeOK, kafkaVars, Offsets

LEMMA CompTypeStays ==
    ASSUME CompTypeOK, UNCHANGED compVars
    PROVE  CompTypeOK'
BY DEF CompTypeOK, compVars

\* A compensator goes from one step to the next.
LEMMA CompGoesType ==
    ASSUME CompTypeOK, NEW c \in Compensators, NEW s \in CompSteps, CompGoes(c, s), marked' \subseteq Orders
    PROVE  CompTypeOK' /\ \A d \in Compensators : comp'[d] = IF d = c THEN s ELSE comp[d]
BY DEF CompTypeOK, CompGoes

\* One publication more.
LEMMA ProduceType ==
    ASSUME KafkaTypeOK, NEW o \in Orders, Produce(o)
    PROVE  /\ KafkaTypeOK' /\ fetched' = fetched
           /\ Len(topic') = Len(topic) + 1
           /\ \A k \in 1..Len(topic) : topic'[k] = topic[k]
           /\ topic'[Len(topic) + 1] = o
<1>1. /\ Len(topic') = Len(topic) + 1 /\ topic' \in Seq(Orders) /\ Len(topic) \in Nat
      /\ \A k \in 1..Len(topic) : topic'[k] = topic[k]
      /\ topic'[Len(topic) + 1] = o
  BY AppendProperties DEF KafkaTypeOK, Produce
<1>2. retries \in Seq(Nat) /\ Len(retries) = Len(topic)
  BY <1>1 DEF KafkaTypeOK, Offsets
<1>3. Append(retries, 0) \in Seq(Nat) /\ Len(Append(retries, 0)) = Len(topic) + 1
  BY <1>2
<1>4. retries' \in [1..Len(topic') -> Nat]
  <2>1. \A s \in Seq(Nat) : s \in [1..Len(s) -> Nat]
    OBVIOUS
  <2>. QED
    BY <1>1, <1>3, <2>1 DEF Produce
<1>5. KafkaTypeOK'
  BY <1>1, <1>4 DEF KafkaTypeOK, Produce, Offsets
<1>. QED
  BY <1>1, <1>5 DEF Produce

\* The first row of a set of rows.
LEMMA OldestIsPart == \A S, n : Oldest(S, n) \subseteq S
BY DEF Oldest

DogTypeOK == stuck \subseteq Orders /\ tooOld \subseteq Orders

\* What the saga keeps apart from the tables.
PartTypes ==
    /\ EnvTypeOK /\ RedisTypeOK /\ RelayTypeOK /\ KafkaTypeOK /\ DogTypeOK /\ CompTypeOK
    /\ ConsumerInv

\* A step of the booking and payment path keeps it.
LEMMA PathTypes ==
    ASSUME SagaTypeInv, PgStep, NEW o \in Orders, Reserve(o) \/ FailPayment(o)
    PROVE  PartTypes'
<1>1. EnvTypeOK' /\ RedisTypeOK'
  <2>1. QuantityOf[o] \in Nat
    BY QuantityNat
  <2>2. EnvTypeOK /\ RedisTypeOK
    BY DEF SagaTypeInv, ReconTypeOK, TypeOK
  <2>3. CASE Reserve(o)
    <3>1. EnvTypeOK'
      BY <2>2, <2>3 DEF Reserve, OpenWindow, EnvTypeOK, Phases
    <3>. QED
      BY <2>1, <2>2, <2>3, <3>1 DEF Reserve, RedisTypeOK
  <2>4. CASE FailPayment(o)
    BY <2>2, <2>4 DEF FailPayment, EnvTypeOK, RedisTypeOK, redisVars
  <2>. QED
    BY <2>3, <2>4
<1>2. UNCHANGED <<relayVars, kafkaVars, dogVars, compVars>>
  BY DEF Reserve, FailPayment, sagaVars
<1>. QED
  BY <1>1, <1>2, RelayTypeStays, KafkaTypeStays, CompTypeStays
     DEF PartTypes, SagaTypeInv, ReconTypeOK, TypeOK, DogTypeOK, ConsumerInv, dogVars, compVars,
         kafkaVars

\* A step of a relay, or one it suffers, keeps it.
LEMMA RelayTypes ==
    ASSUME SagaTypeInv, PgStep, NEW r \in Relays, Relay(r) \/ LoseSession(r) \/ CrashRelay(r)
    PROVE  PartTypes'
<1>. USE DEF SagaTypeInv, ReconTypeOK, TypeOK
<1>1. EnvTypeOK' /\ RedisTypeOK'
  <2>1. budget' \in 0..MaxFaults
    BY FaultTakesOne DEF Relay, TryLock, ListPending, Publish, MarkProcessed, LoseSession,
       CrashRelay,
                         EnvTypeOK
  <2>2. UNCHANGED <<phase, redisVars>>
    BY DEF Relay, TryLock, ListPending, Publish, MarkProcessed, LoseSession, CrashRelay
  <2>. QED
    BY <2>1, <2>2 DEF EnvTypeOK, RedisTypeOK, redisVars
<1>2. UNCHANGED <<dogVars, compVars>>
  BY DEF Relay, TryLock, ListPending, Publish, MarkProcessed, LoseSession, CrashRelay
<1>3. KafkaTypeOK' /\ fetched' = fetched
  <2>1. CASE Publish(r)
    <3>1. PICK i \in Oldest(listed[r], 1) : Produce(outbox[i].order) \/ UNCHANGED kafkaVars
      BY <2>1 DEF Publish
    <3>2. i \in DOMAIN outbox
      BY <3>1, OldestIsPart DEF RelayTypeOK
    <3>3. outbox[i].order \in Orders
      BY <3>2, RowsHaveOrders
    <3>4. ASSUME Produce(outbox[i].order) PROVE KafkaTypeOK' /\ fetched' = fetched
      BY <3>3, <3>4, ProduceType
    <3>. QED
      BY <3>1, <3>4, KafkaTypeStays DEF kafkaVars
  <2>2. CASE UNCHANGED kafkaVars
    BY <2>2, KafkaTypeStays DEF kafkaVars
  <2>. QED
    BY <2>1, <2>2 DEF Relay, TryLock, ListPending, MarkProcessed, LoseSession, CrashRelay
<1>4. RelayTypeOK'
  <2>. USE DEF RelayTypeOK
  <2>1. CASE TryLock(r)
    BY <2>1, OutboxGrows DEF TryLock, pgVars
  <2>2. CASE ListPending(r)
    <3>1. Oldest(DOMAIN outbox \ processed, RelayBatch) \in SUBSET (DOMAIN outbox)
      BY OldestIsPart
    <3>. QED
      BY <2>2, <3>1 DEF ListPending, pgVars
  <2>3. CASE Publish(r)
    <3>1. /\ Oldest(listed[r], 1) \in SUBSET (DOMAIN outbox)
          /\ listed[r] \ Oldest(listed[r], 1) \in SUBSET (DOMAIN outbox)
      BY OldestIsPart
    <3>2. /\ UNCHANGED <<outbox, lock, leads, processed>>
          /\ listed' = [listed EXCEPT ![r] = @ \ Oldest(listed[r], 1)]
          /\ sent' = sent \/ sent' = [sent EXCEPT ![r] = Oldest(listed[r], 1)]
      BY <2>3 DEF Publish, pgVars
    <3>. QED
      BY <3>1, <3>2
  <2>4. CASE MarkProcessed(r)
    BY <2>4 DEF MarkProcessed, pgVars
  <2>5. CASE LoseSession(r)
    BY <2>5 DEF LoseSession, pgVars
  <2>6. CASE CrashRelay(r)
    BY <2>6 DEF CrashRelay, pgVars
  <2>. QED
    BY <2>1, <2>2, <2>3, <2>4, <2>5, <2>6 DEF Relay
<1>. QED
  BY <1>1, <1>2, <1>3, <1>4, CompTypeStays DEF PartTypes, DogTypeOK, dogVars, ConsumerInv, compVars

\* A step of the compensator keeps it.
LEMMA CompensatorTypes ==
    ASSUME SagaTypeInv, PgStep, NEW c \in Compensators, HandleOrderFailed(c)
    PROVE  PartTypes'
<1>. USE DEF SagaTypeInv, ReconTypeOK, TypeOK
<1>1. budget' \in 0..MaxFaults
  BY FaultTakesOne DEF EnvTypeOK, HandleOrderFailed, ReadOrder, Compensate, CheckReverted,
     RevertRedis, MarkRedisReverted
<1>2. UNCHANGED <<phase, relayVars, kafkaVars, dogVars>>
  BY DEF HandleOrderFailed, ReadOrder, Compensate, CheckReverted, RevertRedis, MarkRedisReverted
<1>3. job[c] \in Orders /\ QuantityOf[job[c]] \in Nat
  BY QuantityNat DEF CompTypeOK
<1>4. RedisTypeOK'
  <2>1. CASE RevertOrder(job[c], QuantityOf[job[c]])
    BY <1>3, <2>1 DEF RevertOrder, RedisTypeOK
  <2>2. CASE UNCHANGED redisVars
    BY <2>2 DEF RedisTypeOK, redisVars
  <2>. QED
    BY <2>1, <2>2 DEF HandleOrderFailed, ReadOrder, Compensate, CheckReverted, RevertRedis,
       MarkRedisReverted
<1>5. /\ comp[c] # "idle"
      /\ \E s \in CompSteps : CompGoes(c, s)
      /\ marked' \in {marked, marked \cup {job[c]}}
  BY DEF HandleOrderFailed, ReadOrder, Compensate, CheckReverted, RevertRedis, MarkRedisReverted,
     Doing, CompSteps
<1>6. CompTypeOK' /\ \A d \in Compensators : d # c => comp'[d] = comp[d]
  <2>1. marked' \subseteq Orders
    BY <1>3, <1>5 DEF CompTypeOK
  <2>. QED
    BY <1>5, <2>1, CompGoesType
<1>7. ConsumerInv'
  BY <1>2, <1>5, <1>6 DEF ConsumerInv, kafkaVars, Compensators
<1>. QED
  BY <1>1, <1>2, <1>4, <1>6, <1>7, RelayTypeStays, KafkaTypeStays
     DEF PartTypes, DogTypeOK, dogVars, EnvTypeOK

\* A step of the consumer's own keeps it.
LEMMA ConsumerTypes ==
    ASSUME SagaTypeInv, PgStep, Fetch \/ CountFailure \/ DeadLetter \/ Commit \/ CrashConsumer
    PROVE  PartTypes'
<1>. USE DEF SagaTypeInv, ReconTypeOK, TypeOK
<1>1. budget' \in 0..MaxFaults
  BY FaultTakesOne DEF EnvTypeOK, Fetch, CountFailure, DeadLetter, Commit, CrashConsumer
<1>2. UNCHANGED <<phase, redisVars, relayVars, dogVars, topic, marked>>
  BY DEF Fetch, CountFailure, DeadLetter, Commit, CrashConsumer, StartJob
<1>3. /\ topic \in Seq(Orders) /\ Len(topic) \in Nat /\ committed \in 0..Len(topic)
      /\ fetched \in committed..Len(topic) /\ sagaDlq \subseteq 1..Len(topic)
      /\ retries \in [1..Len(topic) -> Nat] /\ marked \subseteq Orders
  BY DEF KafkaTypeOK, CompTypeOK, Offsets
<1>4. ASSUME Fetch PROVE CompTypeOK' /\ KafkaTypeOK' /\ ConsumerInv'
  <2>1. topic[fetched + 1] \in Orders
    BY <1>3, <1>4 DEF Fetch
  <2>2. CompTypeOK'
    BY <1>4, <2>1 DEF Fetch, StartJob, CompTypeOK, CompSteps, Compensators
  <2>3. KafkaTypeOK' /\ ConsumerInv'
    BY <1>3, <1>4 DEF Fetch, KafkaTypeOK, ConsumerInv, Offsets
  <2>. QED
    BY <2>2, <2>3
<1>5. ASSUME CountFailure \/ DeadLetter \/ Commit \/ CrashConsumer
      PROVE  CompTypeOK' /\ KafkaTypeOK' /\ ConsumerInv'
  <2>1. CompTypeOK' /\ (CrashConsumer => comp'["consumer"] = "idle")
    <3>1. "consumer" \in Compensators /\ \E s \in CompSteps : CompGoes("consumer", s) /\ (CrashConsumer => s = "idle")
      BY <1>5 DEF CountFailure, DeadLetter, Commit, CrashConsumer, CompSteps, Compensators, Doing
    <3>. QED
      BY <1>2, <1>3, <3>1, CompGoesType
  <2>2. CASE CrashConsumer
    BY <1>3, <2>1, <2>2 DEF CrashConsumer, KafkaTypeOK, ConsumerInv, Offsets
  <2>3. CASE CountFailure \/ DeadLetter \/ Commit
    <3>1. fetched >= 1 /\ fetched' = fetched /\ fetched \in 1..Len(topic)
      BY <1>3, <2>3 DEF CountFailure, DeadLetter, Commit, Doing, ConsumerInv
    <3>2. retries' \in [1..Len(topic) -> Nat]
      BY <1>3, <2>3, <3>1 DEF CountFailure, DeadLetter, Commit
    <3>3. sagaDlq' \subseteq 1..Len(topic) /\ committed' \in {committed, fetched}
      BY <1>3, <2>3, <3>1 DEF CountFailure, DeadLetter, writeDLQ, Commit, CommitFetched
    <3>4. KafkaTypeOK'
      BY <1>2, <1>3, <3>1, <3>2, <3>3 DEF KafkaTypeOK, Offsets
    <3>. QED
      BY <2>1, <3>1, <3>4 DEF ConsumerInv
  <2>. QED
    BY <1>5, <2>1, <2>2, <2>3
<1>6. CompTypeOK' /\ KafkaTypeOK' /\ ConsumerInv'
  BY <1>4, <1>5
<1>. QED
  BY <1>1, <1>2, <1>6, RelayTypeStays
     DEF PartTypes, DogTypeOK, dogVars, EnvTypeOK, RedisTypeOK, redisVars

\* A step of the watchdog's own keeps it.
LEMMA WatchdogTypes ==
    ASSUME SagaTypeInv, PgStep, NEW o \in Orders,
           FindStuck \/ Resolved \/ ResolveStuck(o) \/ CrashWatchdog \/ GrowTooOld(o)
    PROVE  PartTypes'
<1>. USE DEF SagaTypeInv, ReconTypeOK, TypeOK
<1>1. budget' \in 0..MaxFaults
  BY FaultTakesOne DEF EnvTypeOK, FindStuck, Resolved, ResolveStuck, CrashWatchdog, GrowTooOld
<1>2. UNCHANGED <<phase, redisVars, relayVars, kafkaVars, marked>>
  BY DEF FindStuck, Resolved, ResolveStuck, CrashWatchdog, GrowTooOld, StartJob, compVars
<1>3. stuck' \subseteq Orders /\ tooOld' \subseteq Orders
  BY DEF FindStuck, Resolved, ResolveStuck, CrashWatchdog, GrowTooOld, dogVars, Failed
<1>4. CompTypeOK' /\ comp'["consumer"] = comp["consumer"]
  <2>1. CASE UNCHANGED compVars
    BY <2>1, CompTypeStays DEF compVars
  <2>2. CASE StartJob("watchdog", o)
    BY <2>2 DEF StartJob, CompTypeOK, CompSteps, Compensators
  <2>3. CASE CompGoes("watchdog", "idle")
    BY <1>2, <2>3 DEF CompGoes, CompTypeOK, CompSteps, Compensators
  <2>. QED
    BY <2>1, <2>2, <2>3 DEF FindStuck, Resolved, ResolveStuck, CrashWatchdog, GrowTooOld
<1>. QED
  BY <1>1, <1>2, <1>3, <1>4, RelayTypeStays, KafkaTypeStays
     DEF PartTypes, DogTypeOK, EnvTypeOK, RedisTypeOK, redisVars, ConsumerInv, kafkaVars

\* A step of the saga keeps it.
LEMMA SagaStepTypes ==
    ASSUME SagaTypeInv, PgStep, SagaStep
    PROVE  PartTypes'
<1>1. CASE \E o \in Orders : Reserve(o) \/ FailPayment(o)
  BY <1>1, PathTypes
<1>2. CASE \E r \in Relays : Relay(r) \/ LoseSession(r) \/ CrashRelay(r)
  BY <1>2, RelayTypes
<1>3. CASE Consume \/ CrashConsumer
  BY <1>3, ConsumerTypes, CompensatorTypes DEF Consume, Compensators
<1>4. CASE Watch \/ CrashWatchdog \/ \E o \in Orders : GrowTooOld(o)
  <2>1. PICK o \in Orders : TRUE
    BY SagaAssumption
  <2>. QED
    BY <1>4, <2>1, WatchdogTypes, CompensatorTypes DEF Watch, Compensators
<1>5. CASE Rest
  BY <1>5, RelayTypeStays, KafkaTypeStays, CompTypeStays
     DEF Rest, vars, sagaVars, PartTypes, SagaTypeInv, ReconTypeOK, TypeOK, EnvTypeOK, RedisTypeOK,
         redisVars, DogTypeOK, dogVars, ConsumerInv, compVars, kafkaVars
<1>. QED
  BY <1>1, <1>2, <1>3, <1>4, <1>5 DEF SagaStep, SagaFaults

\* The reconciler leaves the saga's variables alone.
LEMMA SagaAside ==
    ASSUME SagaTypeInv, PgStep, EnvTypeOK', UNCHANGED <<redisVars, sagaVars>>
    PROVE  PartTypes'
BY RelayTypeStays, KafkaTypeStays, CompTypeStays
   DEF sagaVars, PartTypes, SagaTypeInv, ReconTypeOK, TypeOK, EnvTypeOK, RedisTypeOK, redisVars,
       DogTypeOK, dogVars, ConsumerInv, compVars, kafkaVars

\* The reconciler's own variables.
ReconTypes ==
    /\ charging \subseteq Orders
    /\ recorded \subseteq charging
    /\ charge \in [Orders -> Charges]
    /\ found \in [Reconcilers -> SUBSET Rows]
    /\ subject \in [Reconcilers -> Orders]
    /\ verdict \in [Reconcilers -> Verdicts]

\* What it does for an order keeps the types.
LEMMA MoveTypes ==
    ASSUME SagaTypeInv, NEW o \in Orders, NEW v, Move(o, v)
    PROVE  /\ charging' \subseteq Orders /\ recorded' \subseteq charging'
           /\ charge' \in [Orders -> Charges]
           /\ phase' \in [Orders -> Phases]
BY DEF SagaTypeInv, ReconTypeOK, TypeOK, EnvTypeOK, Move, Charges, Phases

LEMMA SettleTypes ==
    ASSUME SagaTypeInv, PgStep, NEW r \in Reconcilers, Settle(r)
    PROVE  PartTypes' /\ ReconTypes'
<1>. USE DEF SagaTypeInv, ReconTypeOK, TypeOK
<1>1. subject[r] \in Orders
  OBVIOUS
<1>2. budget' \in 0..MaxFaults
  BY FaultTakesOne DEF Settle, EnvTypeOK
<1>3. \/ \E v : Move(subject[r], v)
      \/ UNCHANGED <<phase, chargeVars>>
  BY DEF Settle
<1>4. /\ charging' \subseteq Orders /\ recorded' \subseteq charging'
      /\ charge' \in [Orders -> Charges]
      /\ phase' \in [Orders -> Phases]
  BY <1>1, <1>3, MoveTypes DEF chargeVars, EnvTypeOK
<1>5. PartTypes'
  BY <1>2, <1>4, SagaAside DEF Settle, EnvTypeOK
<1>6. ReconTypes'
  BY <1>4 DEF Settle, ReconTypes, Verdicts
<1>. QED
  BY <1>5, <1>6

\* The types hold at the start.
LEMMA InitTypes == ReconInit => SagaTypeInv
<1>. SUFFICES ASSUME ReconInit PROVE SagaTypeInv
  OBVIOUS
<1>. USE DEF ReconInit, Init
<1>1. (CHOOSE o \in Orders : TRUE) \in Orders
  BY SagaAssumption
<1>2. EnvTypeOK /\ PgTypeOK /\ RedisTypeOK
  BY CatalogAssumption, EnvironmentAssumption
     DEF EnvInit, EnvTypeOK, Phases, PgInit, PgTypeOK, Statuses, RedisTypeOK
<1>3. RelayTypeOK /\ DogTypeOK /\ CompTypeOK /\ ConsumerInv
  BY <1>1 DEF SagaInit, RelayTypeOK, DogTypeOK, CompTypeOK, ConsumerInv, Compensators, CompSteps
<1>4. KafkaTypeOK
  BY DEF SagaInit, KafkaTypeOK, Offsets
<1>5. charging \subseteq Orders /\ recorded \subseteq charging /\ charge \in [Orders -> Charges]
      /\ found \in [Reconcilers -> SUBSET Rows] /\ subject \in [Reconcilers -> Orders]
      /\ verdict \in [Reconcilers -> Verdicts]
  BY <1>1 DEF Charges, Verdicts
<1>. QED
  BY <1>2, <1>3, <1>4, <1>5 DEF SagaTypeInv, ReconTypeOK, TypeOK, DogTypeOK

\* Every step keeps them.
LEMMA NextTypes == SagaTypeInv /\ [ReconNext]_allVars => SagaTypeInv'
<1>. SUFFICES ASSUME SagaTypeInv, [ReconNext]_allVars PROVE SagaTypeInv'
  OBVIOUS
<1>1. PgStep
  BY ReconStepIsPgStep DEF SagaTypeInv
<1>2. PgTypeOK'
  BY <1>1, PgStepTypeOK DEF SagaTypeInv, ReconTypeOK, TypeOK
<1>. SUFFICES PartTypes' /\ ReconTypes'
  BY <1>2 DEF PartTypes, ReconTypes, SagaTypeInv, ReconTypeOK, TypeOK, DogTypeOK
<1>3. ReconTypes /\ EnvTypeOK
  BY DEF SagaTypeInv, ReconTypeOK, TypeOK, ReconTypes
<1>4. CASE SagaStep
  BY <1>1, <1>3, <1>4, SagaStepTypes DEF SagaStep, chargeVars, reconVars, ReconTypes
<1>5. CASE UNCHANGED allVars
  BY <1>1, <1>3, <1>5, SagaAside DEF allVars, vars, chargeVars, reconVars, ReconTypes, EnvTypeOK
<1>6. ASSUME NEW o \in Orders, LeaveCharging(o) \/ SettleCharge(o) \/ GrowOld(o)
      PROVE  PartTypes' /\ ReconTypes'
  <2>1. CASE LeaveCharging(o)
    <3>1. charge' \in [Orders -> Charges]
      BY <1>3, <2>1 DEF LeaveCharging, ReconTypes
    <3>. QED
      BY <1>1, <1>3, <2>1, <3>1, PathTypes DEF LeaveCharging, reconVars, ReconTypes
  <2>2. CASE SettleCharge(o)
    <3>1. charge' \in [Orders -> Charges]
      BY <1>3, <2>2 DEF SettleCharge, ReconTypes, Charges
    <3>. QED
      BY <1>1, <1>3, <2>2, <3>1, SagaAside DEF SettleCharge, vars, reconVars, ReconTypes, EnvTypeOK
  <2>3. CASE GrowOld(o)
    <3>1. EnvTypeOK'
      BY <1>3, <2>3 DEF GrowOld, PassDeadline, PassGrace, EnvTypeOK, Phases
    <3>. QED
      BY <1>1, <1>3, <2>3, <3>1, SagaAside DEF GrowOld, chargeVars, reconVars, ReconTypes
  <2>. QED
    BY <1>6, <2>1, <2>2, <2>3
<1>7. ASSUME NEW r \in Reconcilers, Recon(r) \/ CrashRecon(r)
      PROVE  PartTypes' /\ ReconTypes'
  <2>1. CASE FindStuckCharging(r)
    <3>1. PICK S \in SUBSET Stuck :
            found' = [found EXCEPT ![r] = {[order |-> o, aged |-> Aged(o)] : o \in S}]
      BY <2>1 DEF FindStuckCharging
    <3>2. {[order |-> o, aged |-> Aged(o)] : o \in S} \in SUBSET Rows
      <4>1. S \subseteq Orders
        BY <1>3, <3>1 DEF Stuck, ReconTypes
      <4>2. \A o : Aged(o) \in BOOLEAN
        BY DEF Aged
      <4>3. \A o \in S : [order |-> o, aged |-> Aged(o)] \in Rows
        BY <4>1, <4>2, Zenon DEF Rows
      <4>. QED
        BY <4>3, Zenon
    <3>3. found' \in [Reconcilers -> SUBSET Rows]
      BY <1>3, <3>1, <3>2 DEF ReconTypes
    <3>. QED
      BY <1>1, <1>3, <2>1, <3>3, SagaAside
         DEF FindStuckCharging, vars, chargeVars, ReconTypes, EnvTypeOK
  <2>2. ASSUME NEW row \in found[r], Resolve(r, row) PROVE PartTypes' /\ ReconTypes'
    <3>1. PICK v \in Verdicts : Decide(r, row, v)
      <4>1. \A o \in Orders : MapStatus(charge[o]) \in Verdicts
        BY <1>3 DEF ReconTypes, MapStatus, Charges, Verdicts
      <4>2. row.order \in Orders
        BY <1>3 DEF ReconTypes, Rows
      <4>. QED
        BY <2>2, <4>1, <4>2 DEF Resolve, GetStatus, Verdicts
    <3>2. row \in Rows /\ row.order \in Orders
      BY <1>3 DEF ReconTypes, Rows
    <3>3. found' \in [Reconcilers -> SUBSET Rows] /\ subject' \in [Reconcilers -> Orders]
          /\ verdict' \in [Reconcilers -> Verdicts]
      BY <1>3, <3>1, <3>2 DEF Decide, ReconTypes
    <3>4. budget' \in 0..MaxFaults
      BY <1>3, <2>2, FaultTakesOne DEF Resolve, GetStatus, EnvTypeOK
    <3>. QED
      BY <1>1, <1>3, <2>2, <3>3, <3>4, SagaAside DEF Resolve, GetStatus, chargeVars, ReconTypes,
                                                     EnvTypeOK
  <2>3. CASE Settle(r)
    BY <1>1, <2>3, SettleTypes
  <2>4. CASE CrashRecon(r)
    <3>1. budget' \in 0..MaxFaults
      BY <1>3, <2>4, FaultTakesOne DEF CrashRecon, EnvTypeOK
    <3>2. found' \in [Reconcilers -> SUBSET Rows] /\ verdict' \in [Reconcilers -> Verdicts]
      BY <1>3, <2>4 DEF CrashRecon, ReconTypes, Verdicts
    <3>. QED
      BY <1>1, <1>3, <2>4, <3>1, <3>2, SagaAside DEF CrashRecon, chargeVars, ReconTypes, EnvTypeOK
  <2>. QED
    BY <1>7, <2>1, <2>2, <2>3, <2>4 DEF Recon
<1>. QED
  BY <1>4, <1>5, <1>6, <1>7 DEF ReconNext

LEMMA SpecTypes == ReconSpec => []SagaTypeInv
BY InitTypes, NextTypes, PTL DEF ReconSpec

\* The variables of the saga and of the reconciler keep their types: what a relay
\* holds stays in the outbox, the consumer's positions inside the topic, and a
\* recorded intent with an order that is still in 'charging'.
THEOREM SagaTypeOK == ReconSpec => []ReconTypeOK
<1>1. SagaTypeInv => ReconTypeOK
  BY DEF SagaTypeInv
<1>. QED
  BY <1>1, SpecTypes, PTL

-----------------------------------------------------------------------------
(* What follows from the tables *)

\* Seen from the tables, failing orders, compensating them and reconciling the
\* earlier release's ones is a behaviour of OrderLifecycle.
THEOREM SagaImplements == ReconSpec => ImplementsLifecycle
<1>1. ReconInit => Lifecycle!Init
  BY PgInitIsInit DEF ReconInit, Init
<1>2. SagaTypeInv /\ [ReconNext]_allVars
        => [Lifecycle!Next]_<<[o \in Orders |-> Life[status[o]]], available>>
  BY ReconStepIsPgStep, PgStepIsLifecycleStep DEF SagaTypeInv, ReconTypeOK, TypeOK
<1>. QED
  BY <1>1, <1>2, SpecTypes, PTL DEF ReconSpec, ImplementsLifecycle, Lifecycle!Spec

\* Hence the tables neither lose a ticket nor sell one twice.
THEOREM SagaConserves == ReconSpec => []TicketsConserved
<1>1. SagaTypeInv /\ Lifecycle!Inv => TicketsConserved
  BY LifecycleInvariants DEF SagaTypeInv, ReconTypeOK, TypeOK
<1>. QED
  BY <1>1, SpecTypes, SagaImplements, PgLifecycleInv, PTL DEF ImplementsLifecycle

-----------------------------------------------------------------------------
(* Reverts and their marks *)

\* The steps of the compensator that follow its transaction.
After == {"check", "revert", "mark"}

\* Redis is only given back the tickets of orders that are compensated, and the
\* mark follows the revert.
MarkedInv ==
    /\ \A c \in Compensators :
        /\ comp[c] \in After => status[job[c]] = "compensated"
        /\ comp[c] = "mark" => job[c] \in revertedOrders
    /\ \A o \in revertedOrders : status[o] = "compensated"
    /\ marked \subseteq revertedOrders

\* A step that reverts and marks nothing keeps it, if no compensator comes past
\* its transaction.
LEMMA MarkedQuiet ==
    ASSUME SagaTypeInv, MarkedInv, PgStep, UNCHANGED <<revertedOrders, marked>>,
           \A c \in Compensators : \/ comp'[c] = comp[c] /\ job'[c] = job[c]
                                   \/ comp'[c] \notin After
    PROVE  MarkedInv'
<1>1. \A o \in Orders : status[o] = "compensated" => status'[o] = "compensated"
  BY CompensatedStays DEF SagaTypeInv, ReconTypeOK, TypeOK
<1>2. revertedOrders \subseteq Orders /\ job \in [Compensators -> Orders]
  BY DEF SagaTypeInv, ReconTypeOK, TypeOK, RedisTypeOK, CompTypeOK
<1>. QED
  BY <1>1, <1>2 DEF MarkedInv, After

\* A step of the compensator keeps it.
LEMMA CompensatorMarked ==
    ASSUME SagaTypeInv, MarkedInv, PgStep, NEW c \in Compensators, HandleOrderFailed(c)
    PROVE  MarkedInv'
<1>1. /\ comp \in [Compensators -> CompSteps] /\ job \in [Compensators -> Orders]
      /\ job[c] \in Orders /\ revertedOrders \subseteq Orders /\ status \in [Orders -> Statuses]
      /\ marked \subseteq Orders
  BY DEF SagaTypeInv, ReconTypeOK, TypeOK, PgTypeOK, RedisTypeOK, CompTypeOK
<1>2. \A o \in Orders : status[o] = "compensated" => status'[o] = "compensated"
  BY CompensatedStays DEF SagaTypeInv, ReconTypeOK, TypeOK
<1>3. ASSUME NEW s, CompGoes(c, s)
      PROVE  job' = job /\ \A d \in Compensators : comp'[d] = IF d = c THEN s ELSE comp[d]
  BY <1>1, <1>3 DEF CompGoes
<1>4. ASSUME NEW s, CompGoes(c, s), s \notin After, UNCHANGED <<revertedOrders, marked>>
      PROVE  MarkedInv'
  BY <1>3, <1>4, MarkedQuiet
<1>5. CASE ReadOrder(c)
  <2>1. CASE status[job[c]] = "compensated" /\ CompGoes(c, "check")
    BY <1>1, <1>2, <1>3, <1>5, <2>1 DEF ReadOrder, MarkedInv, After, redisVars
  <2>2. CASE CompGoes(c, "tx") \/ CompGoes(c, "failed")
    BY <1>4, <1>5, <2>2 DEF ReadOrder, After, redisVars
  <2>. QED
    BY <1>5, <2>1, <2>2 DEF ReadOrder
<1>6. CASE Compensate(c)
  <2>1. CASE CompensateOrder(job[c]) /\ CompGoes(c, "revert")
    <3>1. status'[job[c]] = "compensated"
      BY <1>1, <2>1 DEF CompensateOrder
    <3>. QED
      BY <1>1, <1>2, <1>3, <1>6, <2>1, <3>1 DEF Compensate, MarkedInv, After, redisVars
  <2>2. CASE CompGoes(c, "failed")
    BY <1>4, <1>6, <2>2 DEF Compensate, After, redisVars
  <2>. QED
    BY <1>6, <2>1, <2>2 DEF Compensate
<1>7. CASE CheckReverted(c)
  <2>1. status[job[c]] = "compensated"
    BY <1>7 DEF CheckReverted, Doing, MarkedInv, After
  <2>2. CASE CompGoes(c, "revert")
    BY <1>1, <1>2, <1>3, <1>7, <2>1, <2>2 DEF CheckReverted, MarkedInv, After, redisVars
  <2>3. CASE CompGoes(c, "done")
    BY <1>4, <1>7, <2>3 DEF CheckReverted, After, redisVars
  <2>. QED
    BY <1>7, <2>2, <2>3 DEF CheckReverted
<1>8. CASE RevertRedis(c)
  <2>1. status[job[c]] = "compensated"
    BY <1>8 DEF RevertRedis, Doing, MarkedInv, After
  <2>2. CASE RevertOrder(job[c], QuantityOf[job[c]]) /\ (CompGoes(c, "mark") \/ CompGoes(c, "failed"))
    <3>1. revertedOrders' = revertedOrders \cup {job[c]}
      BY <2>2 DEF RevertOrder
    <3>. QED
      BY <1>1, <1>2, <1>3, <1>8, <2>1, <2>2, <3>1 DEF RevertRedis, MarkedInv, After
  <2>3. CASE CompGoes(c, "failed") /\ UNCHANGED redisVars
    BY <1>4, <1>8, <2>3 DEF RevertRedis, After, redisVars
  <2>. QED
    BY <1>8, <2>2, <2>3 DEF RevertRedis
<1>9. CASE MarkRedisReverted(c)
  <2>1. job[c] \in revertedOrders
    BY <1>9 DEF MarkRedisReverted, Doing, MarkedInv
  <2>2. /\ marked' \in {marked, marked \cup {job[c]}} /\ UNCHANGED redisVars
        /\ CompGoes(c, "done") \/ CompGoes(c, "failed")
    BY <1>9 DEF MarkRedisReverted
  <2>. QED
    BY <1>1, <1>2, <1>3, <2>1, <2>2 DEF MarkedInv, After, redisVars
<1>. QED
  BY <1>5, <1>6, <1>7, <1>8, <1>9 DEF HandleOrderFailed

\* Every step keeps it.
LEMMA NextMarked == SagaTypeInv /\ MarkedInv /\ [ReconNext]_allVars => MarkedInv'
<1>. SUFFICES ASSUME SagaTypeInv, MarkedInv, [ReconNext]_allVars PROVE MarkedInv'
  OBVIOUS
<1>1. PgStep /\ comp \in [Compensators -> CompSteps]
  BY ReconStepIsPgStep DEF SagaTypeInv, ReconTypeOK, TypeOK, CompTypeOK
<1>2. ASSUME UNCHANGED <<revertedOrders, compVars>> PROVE MarkedInv'
  BY <1>1, <1>2, MarkedQuiet DEF compVars
<1>3. ASSUME UNCHANGED <<redisVars, sagaVars>> PROVE MarkedInv'
  BY <1>2, <1>3 DEF redisVars, sagaVars
<1>4. ASSUME NEW o \in Orders, Reserve(o) \/ FailPayment(o) PROVE MarkedInv'
  BY <1>2, <1>4 DEF Reserve, FailPayment, redisVars, sagaVars
<1>5. ASSUME NEW r \in Relays, Relay(r) \/ LoseSession(r) \/ CrashRelay(r) PROVE MarkedInv'
  BY <1>2, <1>5 DEF Relay, TryLock, ListPending, Publish, MarkProcessed, LoseSession, CrashRelay,
     redisVars
<1>6. ASSUME NEW c \in Compensators, HandleOrderFailed(c) PROVE MarkedInv'
  BY <1>1, <1>6, CompensatorMarked
<1>7. CASE Fetch \/ CountFailure \/ DeadLetter \/ Commit \/ CrashConsumer
  <2>1. UNCHANGED <<revertedOrders, marked>>
    BY <1>7 DEF Fetch, StartJob, CountFailure, DeadLetter, Commit, CrashConsumer, redisVars
  <2>2. comp'["consumer"] \notin After /\ comp'["watchdog"] = comp["watchdog"]
        /\ job'["watchdog"] = job["watchdog"]
    BY <1>1, <1>7 DEF Fetch, StartJob, CountFailure, DeadLetter, Commit, CrashConsumer, CompGoes,
       Compensators, After, SagaTypeInv, ReconTypeOK, TypeOK, CompTypeOK
  <2>. QED
    BY <1>1, <2>1, <2>2, MarkedQuiet DEF Compensators
<1>8. ASSUME NEW o \in Orders,
             FindStuck \/ Resolved \/ ResolveStuck(o) \/ CrashWatchdog \/ GrowTooOld(o)
      PROVE  MarkedInv'
  <2>1. UNCHANGED <<revertedOrders, marked>>
    BY <1>8 DEF FindStuck, Resolved, ResolveStuck, CrashWatchdog, GrowTooOld, StartJob, redisVars,
       compVars
  <2>2. /\ \/ comp'["watchdog"] \notin After
           \/ comp'["watchdog"] = comp["watchdog"] /\ job'["watchdog"] = job["watchdog"]
        /\ comp'["consumer"] = comp["consumer"] /\ job'["consumer"] = job["consumer"]
    BY <1>1, <1>8 DEF FindStuck, Resolved, ResolveStuck, CrashWatchdog, GrowTooOld, StartJob,
       CompGoes,
       compVars, Compensators, After, SagaTypeInv, ReconTypeOK, TypeOK, CompTypeOK
  <2>. QED
    BY <1>1, <2>1, <2>2, MarkedQuiet DEF Compensators
<1>9. CASE SagaStep
  <2>1. PICK o \in Orders : TRUE
    BY SagaAssumption
  <2>. QED
    BY <1>3, <1>4, <1>5, <1>6, <1>7, <1>8, <1>9, <2>1
       DEF SagaStep, Consume, Watch, SagaFaults, Rest, vars, Compensators
<1>10. ASSUME NEW o \in Orders, LeaveCharging(o) \/ SettleCharge(o) \/ GrowOld(o) PROVE MarkedInv'
  BY <1>3, <1>4, <1>10 DEF LeaveCharging, SettleCharge, GrowOld, vars
<1>11. ASSUME NEW r \in Reconcilers, Recon(r) \/ CrashRecon(r) PROVE MarkedInv'
  BY <1>3, <1>11 DEF Recon, FindStuckCharging, Resolve, GetStatus, Settle, CrashRecon, vars
<1>12. CASE UNCHANGED allVars
  BY <1>3, <1>12 DEF allVars, vars
<1>. QED
  BY <1>9, <1>10, <1>11, <1>12 DEF ReconNext

LEMMA SpecMarked == ReconSpec => []MarkedInv
<1>1. ReconInit => MarkedInv
  BY DEF ReconInit, Init, SagaInit, MarkedInv, After
<1>. QED
  BY <1>1, NextMarked, SpecTypes, PTL DEF ReconSpec

\* However the consumer and the watchdog interleave, and wherever they crash, an
\* order marked as reverted has been compensated and then reverted: a redelivery
\* that trusts the mark skips nothing.
THEOREM SagaMarkedIsReverted == ReconSpec => []MarkedIsReverted
<1>1. MarkedInv => MarkedIsReverted
  BY DEF MarkedInv, MarkedIsReverted
<1>. QED
  BY <1>1, SpecMarked, PTL

-----------------------------------------------------------------------------
(* The two inventories *)

\* The orders that took tickets from Redis.
Present == {o \in Orders : status[o] # "absent"}

\* A transaction other than a reservation.
QuietPgStep ==
    \/ \E o \in Orders :
        \/ \E now \in Phases : MarkPaid(o, now)
        \/ \E to \in FailedStatuses : FailOrder(o, to)
        \/ CompensateOrder(o)
    \/ UNCHANGED pgVars

\* It takes no order from absence.
LEMMA QuietStepPresent == PgTypeOK /\ QuietPgStep => Present' = Present
BY DEF QuietPgStep, PgTypeOK, Present, MarkPaid, FailOrder, FailedStatuses, CompensateOrder,
       CanCompensate, pgVars

\* What a step of the saga does to the two inventories at once.
InventoryStep ==
    \/ \E o \in Orders : /\ InsertReservation(o)
                         /\ QuantityOf[o] <= qty
                         /\ qty' = qty - QuantityOf[o]
                         /\ UNCHANGED revertedOrders
    \/ \E o \in Orders : RevertOrder(o, QuantityOf[o]) /\ UNCHANGED pgVars
    \/ QuietPgStep /\ UNCHANGED redisVars

\* Every step is one.
LEMMA NextInventory == SagaTypeInv /\ [ReconNext]_allVars => InventoryStep
<1>. SUFFICES ASSUME SagaTypeInv, [ReconNext]_allVars PROVE InventoryStep
  OBVIOUS
<1>1. ASSUME UNCHANGED <<pgVars, redisVars>> PROVE InventoryStep
  BY <1>1 DEF InventoryStep, QuietPgStep
<1>2. ASSUME NEW o \in Orders, Reserve(o) PROVE InventoryStep
  BY <1>2 DEF Reserve, InventoryStep
<1>3. ASSUME NEW o \in Orders, FailPayment(o) PROVE InventoryStep
  BY <1>3 DEF FailPayment, InventoryStep, QuietPgStep
<1>4. ASSUME NEW c \in Compensators, HandleOrderFailed(c) PROVE InventoryStep
  <2>1. job[c] \in Orders
    BY DEF SagaTypeInv, ReconTypeOK, TypeOK, CompTypeOK
  <2>2. CASE Compensate(c)
    BY <2>1, <2>2 DEF Compensate, InventoryStep, QuietPgStep
  <2>3. CASE RevertRedis(c)
    BY <1>1, <2>1, <2>3 DEF RevertRedis, InventoryStep
  <2>4. CASE ReadOrder(c) \/ CheckReverted(c) \/ MarkRedisReverted(c)
    BY <1>1, <2>4 DEF ReadOrder, CheckReverted, MarkRedisReverted
  <2>. QED
    BY <1>4, <2>2, <2>3, <2>4 DEF HandleOrderFailed
<1>5. CASE SagaStep
  <2>1. ASSUME NEW r \in Relays, Relay(r) \/ LoseSession(r) \/ CrashRelay(r) PROVE InventoryStep
    BY <1>1, <2>1 DEF Relay, TryLock, ListPending, Publish, MarkProcessed, LoseSession, CrashRelay
  <2>2. CASE Consume \/ Watch
    BY <1>1, <1>4, <2>2 DEF Consume, Watch, Fetch, CountFailure, DeadLetter, Commit, FindStuck,
       Resolved, ResolveStuck, Compensators
  <2>3. CASE SagaFaults \/ Rest
    BY <1>1, <2>1, <2>3 DEF SagaFaults, CrashConsumer, CrashWatchdog, GrowTooOld, Rest, vars
  <2>. QED
    BY <1>2, <1>3, <1>5, <2>1, <2>2, <2>3 DEF SagaStep
<1>6. ASSUME NEW o \in Orders, LeaveCharging(o) \/ SettleCharge(o) \/ GrowOld(o) PROVE InventoryStep
  BY <1>1, <1>2, <1>6 DEF LeaveCharging, SettleCharge, GrowOld, vars
<1>7. ASSUME NEW r \in Reconcilers, Recon(r) \/ CrashRecon(r) PROVE InventoryStep
  <2>1. subject[r] \in Orders
    BY DEF SagaTypeInv, ReconTypeOK
  <2>2. CASE Settle(r)
    <3>1. UNCHANGED redisVars
      BY <2>2 DEF Settle
    <3>2. (\E v : Move(subject[r], v)) \/ UNCHANGED pgVars
      BY <2>2 DEF Settle
    <3>. QED
      BY <1>1, <2>1, <3>1, <3>2 DEF Move, InventoryStep, QuietPgStep, Phases, FailedStatuses
  <2>3. CASE FindStuckCharging(r) \/ CrashRecon(r) \/ \E row \in found[r] : Resolve(r, row)
    BY <1>1, <2>3 DEF FindStuckCharging, Resolve, GetStatus, CrashRecon, vars
  <2>. QED
    BY <1>7, <2>2, <2>3 DEF Recon
<1>8. CASE UNCHANGED allVars
  BY <1>1, <1>8 DEF allVars, vars
<1>. QED
  BY <1>5, <1>6, <1>7, <1>8 DEF ReconNext

\* A step keeps the ledger: reservations and reverts both move as many tickets in
\* Redis as the set they are recorded in gains.
LEMMA NextLedger == SagaTypeInv /\ SagaLedger /\ [ReconNext]_allVars => SagaLedger'
<1>. SUFFICES ASSUME SagaTypeInv, SagaLedger, InventoryStep PROVE SagaLedger'
  BY NextInventory
<1>. DEFINE N(S) == Cardinality(Tickets(S))
<1>0. /\ status \in [Orders -> Statuses] /\ qty \in Nat /\ revertedOrders \in SUBSET Orders
      /\ Present \in SUBSET Orders /\ PgTypeOK
  BY DEF SagaTypeInv, ReconTypeOK, TypeOK, PgTypeOK, RedisTypeOK, Present
<1>1. /\ N(Present) \in Nat /\ N(revertedOrders) \in Nat /\ TotalTickets \in Nat
      /\ qty + N(Present) = TotalTickets + N(revertedOrders)
  BY <1>0, TicketsFinite, CatalogAssumption DEF SagaLedger, Present
<1>. SUFFICES qty' + N(Present') = TotalTickets + N(revertedOrders')
  BY DEF SagaLedger, Present, Tickets
<1>2. ASSUME NEW o \in Orders, InsertReservation(o), QuantityOf[o] <= qty, qty' = qty - QuantityOf[o],
             UNCHANGED revertedOrders
      PROVE  qty' + N(Present') = TotalTickets + N(revertedOrders')
  <2>1. o \notin Present
    BY <1>2 DEF InsertReservation, AlreadyBought, Present
  <2>2. Present' = Present \cup {o}
    BY <1>0, <1>2 DEF InsertReservation, Present
  <2>3. N(Present') = N(Present) + QuantityOf[o]
    BY <1>0, <2>1, <2>2, TicketsOfOneMore
  <2>4. QuantityOf[o] \in Nat
    BY QuantityNat
  <2>. HIDE DEF N
  <2>. QED
    BY <1>0, <1>1, <1>2, <2>3, <2>4
<1>3. ASSUME NEW o \in Orders, RevertOrder(o, QuantityOf[o]), UNCHANGED pgVars
      PROVE  qty' + N(Present') = TotalTickets + N(revertedOrders')
  <2>1. Present' = Present
    BY <1>3 DEF Present, pgVars
  <2>2. revertedOrders' = revertedOrders \cup {o}
    BY <1>3 DEF RevertOrder
  <2>3. CASE o \in revertedOrders
    <3>1. qty' = qty /\ revertedOrders' = revertedOrders
      BY <1>3, <2>2, <2>3 DEF RevertOrder
    <3>. QED
      BY <1>1, <2>1, <3>1
  <2>4. CASE o \notin revertedOrders
    <3>1. qty' = qty + QuantityOf[o]
      BY <1>3, <2>4 DEF RevertOrder
    <3>2. N(revertedOrders') = N(revertedOrders) + QuantityOf[o]
      BY <1>0, <2>2, <2>4, TicketsOfOneMore
    <3>3. QuantityOf[o] \in Nat
      BY QuantityNat
    <3>. HIDE DEF N
    <3>. QED
      BY <1>0, <1>1, <2>1, <3>1, <3>2, <3>3
  <2>. QED
    BY <2>3, <2>4
<1>4. ASSUME QuietPgStep, UNCHANGED redisVars
      PROVE  qty' + N(Present') = TotalTickets + N(revertedOrders')
  <2>1. Present' = Present /\ qty' = qty /\ revertedOrders' = revertedOrders
    BY <1>0, <1>4, QuietStepPresent DEF redisVars
  <2>. QED
    BY <1>1, <2>1
<1>. QED
  BY <1>2, <1>3, <1>4 DEF InventoryStep

\* What is missing from Redis is what compensated orders are still owed.
THEOREM SagaLedgerHolds == ReconSpec => []SagaLedger
<1>1. ReconInit => SagaLedger
  <2>. SUFFICES ASSUME ReconInit PROVE SagaLedger
    OBVIOUS
  <2>1. {o \in Orders : status[o] # "absent"} = {} /\ revertedOrders = {} /\ qty = TotalTickets
    BY DEF ReconInit, Init, PgInit
  <2>. QED
    BY <2>1 DEF SagaLedger
<1>. QED
  BY <1>1, NextLedger, SpecTypes, PTL DEF ReconSpec

\* Redis never offers tickets that Postgres does not: the ledger, the
\* conservation of tickets and the order of the compensator's steps together.
THEOREM SagaNoPhantomTickets == ReconSpec => []NoPhantomTickets
<1>1. SagaTypeInv /\ MarkedInv /\ SagaLedger /\ TicketsConserved => NoPhantomTickets
  <2>. SUFFICES ASSUME SagaTypeInv, MarkedInv, SagaLedger, TicketsConserved PROVE qty <= available
    BY DEF NoPhantomTickets
  <2>. DEFINE N(S) == Cardinality(Tickets(S))
              released == {o \in Orders : status[o] = "compensated"}
  <2>1. /\ qty \in Nat /\ available \in Nat /\ TotalTickets \in Nat
        /\ revertedOrders \in SUBSET Orders /\ released \in SUBSET Orders
        /\ Present \in SUBSET Orders /\ Holding \in SUBSET Orders
    BY CatalogAssumption DEF SagaTypeInv, ReconTypeOK, TypeOK, PgTypeOK, RedisTypeOK, Present,
       Holding
  <2>2. Present = Holding \cup released /\ Holding \cap released = {}
    BY DEF Present, Holding
  <2>3. revertedOrders \in SUBSET released
    BY <2>1 DEF MarkedInv
  <2>4. N(Present) = N(Holding) + N(released)
    BY <2>1, <2>2, TicketsOfUnion
  <2>5. N(revertedOrders) <= N(released)
    BY <2>1, <2>3, TicketsMonotone
  <2>6. N(Present) \in Nat /\ N(Holding) \in Nat /\ N(released) \in Nat /\ N(revertedOrders) \in Nat
    BY <2>1, TicketsFinite
  <2>7. qty + N(Present) = TotalTickets + N(revertedOrders)
    BY DEF SagaLedger, Present
  <2>8. available + N(Holding) = TotalTickets
    BY DEF TicketsConserved
  <2>. HIDE DEF N, released
  <2>. QED
    BY <2>1, <2>4, <2>5, <2>6, <2>7, <2>8
<1>. QED
  BY <1>1, SpecTypes, SpecMarked, SagaLedgerHolds, SagaConserves, PTL

-----------------------------------------------------------------------------
(* The outbox and the topic *)

\* The row of the outbox is in the topic.
InTopic(i) == \E k \in DOMAIN topic : topic[k] = outbox[i].order

\* What is marked, or about to be, has been published.
RelayInv ==
    /\ \A i \in processed : InTopic(i)
    /\ \A r \in Relays : \A i \in sent[r] : InTopic(i)

\* At most one row is the first one.
LEMMA OneOldest ==
    ASSUME PgTypeOK, NEW S \in SUBSET (DOMAIN outbox), NEW i \in Oldest(S, 1), NEW j \in Oldest(S, 1)
    PROVE  i = j
<1>1. DOMAIN outbox = 1..Len(outbox) /\ Len(outbox) \in Nat
  BY DEF PgTypeOK
<1>2. IsFiniteSet(S)
  <2>1. IsFiniteSet(1..Len(outbox))
    BY <1>1, FS_Interval
  <2>. QED
    BY <1>1, <2>1, FS_Subset
<1>3. ASSUME NEW k \in Oldest(S, 1), NEW l \in S, l < k PROVE FALSE
  <2>. DEFINE Before == {m \in S : m < k}
  <2>1. IsFiniteSet(Before) /\ l \in Before
    BY <1>2, <1>3, FS_Subset
  <2>2. Cardinality(Before) < 1
    BY DEF Oldest
  <2>3. Cardinality(Before) \in Nat /\ (Cardinality(Before) = 0 <=> Before = {})
    BY <2>1, FS_CardinalityType, FS_EmptySet
  <2>. HIDE DEF Before
  <2>. QED
    BY <2>1, <2>2, <2>3
<1>4. i \in S /\ j \in S /\ i \in Nat /\ j \in Nat
  BY <1>1, OldestIsPart
<1>. QED
  BY <1>3, <1>4

\* What is in the topic stays there, and rows do not change.
LEMMA InTopicStays ==
    ASSUME SagaTypeInv, PgStep, NEW i \in DOMAIN outbox, InTopic(i),
           UNCHANGED topic \/ \E o \in Orders : Produce(o)
    PROVE  InTopic(i)'
<1>1. outbox'[i] = outbox[i]
  BY OutboxGrows DEF SagaTypeInv, ReconTypeOK, TypeOK
<1>2. CASE UNCHANGED topic
  BY <1>1, <1>2 DEF InTopic
<1>3. ASSUME NEW o \in Orders, Produce(o) PROVE InTopic(i)'
  <2>1. PICK k \in DOMAIN topic : topic[k] = outbox[i].order
    BY DEF InTopic
  <2>2. KafkaTypeOK /\ topic \in Seq(Orders)
    BY DEF SagaTypeInv, ReconTypeOK, TypeOK, KafkaTypeOK
  <2>3. Len(topic') = Len(topic) + 1 /\ \A l \in 1..Len(topic) : topic'[l] = topic[l]
        /\ topic' \in Seq(Orders)
    BY <1>3, <2>2, ProduceType DEF KafkaTypeOK
  <2>4. k \in DOMAIN topic' /\ topic'[k] = topic[k]
    BY <2>1, <2>2, <2>3
  <2>. QED
    BY <1>1, <2>1, <2>4 DEF InTopic
<1>. QED
  BY <1>2, <1>3

\* Every step keeps it: a row is only marked after its publication.
LEMMA NextRelay == SagaTypeInv /\ RelayInv /\ [ReconNext]_allVars => RelayInv'
<1>. SUFFICES ASSUME SagaTypeInv, RelayInv, [ReconNext]_allVars PROVE RelayInv'
  OBVIOUS
<1>1. PgStep
  BY ReconStepIsPgStep DEF SagaTypeInv
<1>2. /\ processed \subseteq DOMAIN outbox /\ sent \in [Relays -> SUBSET (DOMAIN outbox)]
      /\ listed \in [Relays -> SUBSET (DOMAIN outbox)] /\ PgTypeOK /\ KafkaTypeOK
  BY DEF SagaTypeInv, ReconTypeOK, TypeOK, RelayTypeOK
<1>3. ASSUME UNCHANGED <<topic, sent, processed>> PROVE RelayInv'
  BY <1>1, <1>2, <1>3, InTopicStays DEF RelayInv
<1>4. ASSUME UNCHANGED <<sagaVars>> PROVE RelayInv'
  BY <1>3, <1>4 DEF sagaVars, relayVars, kafkaVars
<1>5. ASSUME NEW r \in Relays, Publish(r) PROVE RelayInv'
  <2>1. PICK i \in Oldest(listed[r], 1) :
           \/ Produce(outbox[i].order) /\ sent' \in {sent, [sent EXCEPT ![r] = Oldest(listed[r], 1)]}
           \/ UNCHANGED <<sent, kafkaVars>>
    BY <1>5 DEF Publish
  <2>2. i \in DOMAIN outbox /\ outbox[i].order \in Orders /\ UNCHANGED <<outbox, processed>>
    BY <1>2, <1>5, OldestIsPart, RowsHaveOrders DEF Publish, pgVars
  <2>3. CASE UNCHANGED <<sent, kafkaVars>>
    BY <1>3, <2>2, <2>3 DEF kafkaVars
  <2>4. CASE Produce(outbox[i].order) /\ sent' \in {sent, [sent EXCEPT ![r] = Oldest(listed[r], 1)]}
    <3>1. InTopic(i)'
      <4>1. /\ Len(topic') = Len(topic) + 1 /\ topic'[Len(topic) + 1] = outbox[i].order
            /\ topic' \in Seq(Orders) /\ Len(topic) \in Nat
        BY <1>2, <2>2, <2>4, ProduceType DEF KafkaTypeOK
      <4>2. Len(topic) + 1 \in DOMAIN topic'
        BY <4>1
      <4>. QED
        BY <2>2, <4>1, <4>2 DEF InTopic
    <3>2. \A j \in Oldest(listed[r], 1) : InTopic(j)'
      BY <1>2, <2>1, <3>1, OneOldest
    <3>3. \A j \in DOMAIN outbox : InTopic(j) => InTopic(j)'
      BY <1>1, <2>2, <2>4, InTopicStays
    <3>. QED
      BY <1>2, <2>2, <2>4, <3>2, <3>3 DEF RelayInv
  <2>. QED
    BY <2>1, <2>3, <2>4
<1>6. ASSUME NEW r \in Relays, MarkProcessed(r) PROVE RelayInv'
  <2>1. /\ UNCHANGED topic /\ sent' = [sent EXCEPT ![r] = {}]
        /\ processed' \in {processed, processed \cup sent[r]}
    BY <1>6 DEF MarkProcessed, kafkaVars
  <2>2. \A j \in DOMAIN outbox : InTopic(j) => InTopic(j)'
    BY <1>1, <2>1, InTopicStays
  <2>. QED
    BY <1>2, <2>1, <2>2 DEF RelayInv
<1>7. ASSUME NEW r \in Relays, CrashRelay(r) PROVE RelayInv'
  <2>1. UNCHANGED <<topic, processed>> /\ sent' = [sent EXCEPT ![r] = {}]
    BY <1>7 DEF CrashRelay, kafkaVars
  <2>2. \A j \in DOMAIN outbox : InTopic(j) => InTopic(j)'
    BY <1>1, <2>1, InTopicStays
  <2>. QED
    BY <1>2, <2>1, <2>2 DEF RelayInv
<1>8. CASE SagaStep
  <2>1. ASSUME NEW r \in Relays, TryLock(r) \/ ListPending(r) \/ LoseSession(r) PROVE RelayInv'
    BY <1>3, <2>1 DEF TryLock, ListPending, LoseSession, kafkaVars
  <2>2. ASSUME NEW o \in Orders, Reserve(o) \/ FailPayment(o) PROVE RelayInv'
    BY <1>4, <2>2 DEF Reserve, FailPayment
  <2>3. ASSUME NEW c \in Compensators, HandleOrderFailed(c) PROVE RelayInv'
    BY <1>3, <2>3 DEF HandleOrderFailed, ReadOrder, Compensate, CheckReverted, RevertRedis,
       MarkRedisReverted, relayVars, kafkaVars
  <2>4. CASE Consume \/ Watch
    BY <1>3, <2>3, <2>4 DEF Consume, Watch, Fetch, CountFailure, DeadLetter, Commit, FindStuck,
       Resolved, ResolveStuck, Compensators, relayVars, kafkaVars
  <2>5. CASE SagaFaults \/ Rest
    BY <1>3, <1>7, <2>1, <2>5 DEF SagaFaults, CrashConsumer, CrashWatchdog, GrowTooOld, Rest, vars,
       sagaVars, relayVars, kafkaVars
  <2>. QED
    BY <1>5, <1>6, <1>8, <2>1, <2>2, <2>4, <2>5 DEF SagaStep, Relay
<1>9. ASSUME NEW o \in Orders, LeaveCharging(o) \/ SettleCharge(o) \/ GrowOld(o) PROVE RelayInv'
  BY <1>4, <1>9 DEF LeaveCharging, Reserve, SettleCharge, GrowOld, vars
<1>10. ASSUME NEW r \in Reconcilers, Recon(r) \/ CrashRecon(r) PROVE RelayInv'
  BY <1>4, <1>10 DEF Recon, FindStuckCharging, Resolve, GetStatus, Settle, CrashRecon, vars
<1>11. CASE UNCHANGED allVars
  BY <1>4, <1>11 DEF allVars, vars
<1>. QED
  BY <1>8, <1>9, <1>10, <1>11 DEF ReconNext

\* Whichever relay crashes, loses its lock unawares or publishes twice, a row is
\* only taken off the outbox once its order is in Kafka.
THEOREM SagaProcessedIsPublished == ReconSpec => []ProcessedIsPublished
<1>1. ReconInit => RelayInv
  BY DEF ReconInit, Init, SagaInit, RelayInv
<1>2. RelayInv => ProcessedIsPublished
  BY DEF RelayInv, InTopic, ProcessedIsPublished
<1>. QED
  BY <1>1, <1>2, NextRelay, SpecTypes, PTL DEF ReconSpec

-----------------------------------------------------------------------------
(* The reconciler's verdicts *)

\* The verdict is what the charge and the age of the order call for.
Justified(v, o) ==
    /\ v = "confirm" => charge[o] = "charged"
    /\ v = "fail" => charge[o] \in {"none", "declined"} \/ Aged(o)

\* A verdict stays justified for as long as its order is in 'charging', and an
\* order that has left 'charging' does not come back.
VerdictInv ==
    /\ \A o \in charging : status[o] # "absent"
    /\ \A r \in Reconcilers :
        /\ verdict[r] # "idle" => /\ status[subject[r]] # "absent"
                                  /\ subject[r] \in charging => Justified(verdict[r], subject[r])
        /\ \A row \in found[r] : /\ status[row.order] # "absent"
                                 /\ row.order \in charging /\ row.aged => Aged(row.order)

\* What a step may do to the orders in 'charging' without a reconciler noticing:
\* what is settled or aged stays so, and only absent orders join them.
ChargeStep ==
    \A o \in Orders :
        /\ status[o] # "absent" => status'[o] # "absent"
        /\ o \in charging' =>
            /\ status'[o] # "absent"
            /\ status[o] = "absent" \/ /\ o \in charging
                                       /\ charge'[o] = charge[o] \/ charge[o] = "pending"
                                       /\ Aged(o) => Aged(o)'

\* Such a step keeps the invariant, if reconcilers only forget.
LEMMA VerdictQuiet ==
    ASSUME SagaTypeInv, VerdictInv, ChargeStep, charging' \subseteq Orders,
           \A r \in Reconcilers : /\ found'[r] \subseteq found[r]
                                  /\ \/ verdict'[r] = "idle"
                                     \/ verdict'[r] = verdict[r] /\ subject'[r] = subject[r]
    PROVE  VerdictInv'
<1>1. /\ charging \subseteq Orders /\ subject \in [Reconcilers -> Orders]
      /\ \A r \in Reconcilers : \A row \in found[r] : row.order \in Orders
  BY DEF SagaTypeInv, ReconTypeOK, Rows
<1>2. \A o \in charging' : status'[o] # "absent"
  BY DEF ChargeStep
<1>3. ASSUME NEW v, NEW o \in Orders, Justified(v, o), o \in charging, o \in charging', status[o] # "absent"
      PROVE  Justified(v, o)'
  BY <1>3 DEF Justified, ChargeStep
<1>4. ASSUME NEW r \in Reconcilers, verdict'[r] # "idle"
      PROVE  /\ status'[subject'[r]] # "absent"
             /\ subject'[r] \in charging' => Justified(verdict[r], subject[r])'
  <2>1. verdict'[r] = verdict[r] /\ subject'[r] = subject[r] /\ subject[r] \in Orders
    BY <1>1, <1>4
  <2>2. status[subject[r]] # "absent" /\ (subject[r] \in charging => Justified(verdict[r], subject[r]))
    BY <1>4, <2>1 DEF VerdictInv
  <2>3. status'[subject[r]] # "absent"
    BY <2>1, <2>2 DEF ChargeStep
  <2>4. subject[r] \in charging' => subject[r] \in charging
    BY <2>1, <2>2 DEF ChargeStep
  <2>5. subject[r] \in charging' => Justified(verdict[r], subject[r])'
    BY <2>1, <2>2, <2>4 DEF Justified, ChargeStep
  <2>. QED
    BY <2>1, <2>3, <2>5
<1>5. ASSUME NEW r \in Reconcilers, NEW row \in found'[r]
      PROVE  status'[row.order] # "absent" /\ (row.order \in charging' /\ row.aged => Aged(row.order)')
  BY <1>1 DEF VerdictInv, ChargeStep
<1>. QED
  BY <1>2, <1>4, <1>5 DEF VerdictInv

\* Every step that leaves the reconcilers alone is one.
LEMMA AgedStays ==
    ASSUME SagaTypeInv, SagaStep, NEW o \in Orders, Aged(o)
    PROVE  Aged(o)'
<1>1. phase \in [Orders -> Phases]
  BY DEF SagaTypeInv, ReconTypeOK, TypeOK, EnvTypeOK
<1>2. ASSUME NEW p \in Orders, Reserve(p) PROVE Aged(o)'
  BY <1>1, <1>2 DEF Reserve, OpenWindow, Aged
<1>3. CASE UNCHANGED phase
  BY <1>3 DEF Aged
<1>4. ASSUME NEW c, HandleOrderFailed(c) PROVE UNCHANGED phase
  BY <1>4 DEF HandleOrderFailed, ReadOrder, Compensate, CheckReverted, RevertRedis,
     MarkRedisReverted
<1>. QED
  BY <1>2, <1>3, <1>4 DEF SagaStep, FailPayment, Relay, TryLock, ListPending, Publish,
     MarkProcessed,
     Consume, Fetch, CountFailure, DeadLetter, Commit, Watch, FindStuck, Resolved, ResolveStuck,
     SagaFaults, LoseSession, CrashRelay, CrashConsumer, CrashWatchdog, GrowTooOld, Rest, vars

\* What Settle does for an order.
LEMMA MoveChargeStep ==
    ASSUME SagaTypeInv, VerdictInv, PgStep, NEW o \in Orders, NEW v, Move(o, v)
    PROVE  ChargeStep
<1>1. \A p \in Orders : status[p] # "absent" => status'[p] # "absent"
  BY CompensatedStays DEF SagaTypeInv, ReconTypeOK, TypeOK
<1>2. ASSUME NEW p \in charging'
      PROVE  p \in charging /\ charge'[p] = charge[p] /\ (Aged(p) => Aged(p)') /\ status[p] # "absent"
  BY <1>2 DEF Move, Aged, SagaTypeInv, ReconTypeOK, TypeOK, EnvTypeOK, VerdictInv
<1>. QED
  BY <1>1, <1>2 DEF ChargeStep

\* Every step keeps the invariant.
LEMMA NextVerdict == SagaTypeInv /\ SagaTypeInv' /\ VerdictInv /\ [ReconNext]_allVars => VerdictInv'
<1>. SUFFICES ASSUME SagaTypeInv, SagaTypeInv', VerdictInv, [ReconNext]_allVars PROVE VerdictInv'
  OBVIOUS
<1>1. PgStep /\ PgTypeOK
  BY ReconStepIsPgStep DEF SagaTypeInv, ReconTypeOK, TypeOK
<1>2. /\ charging \subseteq Orders /\ charging' \subseteq Orders
      /\ charge \in [Orders -> Charges] /\ phase \in [Orders -> Phases]
      /\ found \in [Reconcilers -> SUBSET Rows] /\ subject \in [Reconcilers -> Orders]
      /\ verdict \in [Reconcilers -> Verdicts]
  BY DEF SagaTypeInv, ReconTypeOK, TypeOK, EnvTypeOK
<1>3. \A o \in Orders : status[o] # "absent" => status'[o] # "absent"
  BY <1>1, CompensatedStays
<1>4. \A o \in charging : status[o] # "absent"
  BY DEF VerdictInv
<1>5. CASE SagaStep
  <2>1. \A o \in Orders : Aged(o) => Aged(o)'
    BY <1>5, AgedStays
  <2>2. ChargeStep
    BY <1>3, <1>4, <1>5, <2>1 DEF SagaStep, chargeVars, ChargeStep
  <2>. QED
    BY <1>2, <1>5, <2>2, VerdictQuiet DEF SagaStep, reconVars
<1>6. CASE UNCHANGED allVars
  <2>1. ChargeStep
    BY <1>3, <1>4, <1>6 DEF allVars, vars, chargeVars, ChargeStep, Aged
  <2>. QED
    BY <1>2, <1>6, <2>1, VerdictQuiet DEF allVars, reconVars
<1>7. ASSUME NEW o \in Orders, LeaveCharging(o) \/ SettleCharge(o) \/ GrowOld(o) PROVE VerdictInv'
  <2>1. CASE LeaveCharging(o)
    <3>1. InsertReservation(o) /\ OpenWindow(o)
      BY <2>1 DEF LeaveCharging, Reserve
    <3>2. status[o] = "absent" /\ status'[o] # "absent"
      BY <1>1, <3>1 DEF InsertReservation, AlreadyBought, PgTypeOK
    <3>3. \A p \in Orders : Aged(p) => Aged(p)'
      BY <1>2, <3>1 DEF OpenWindow, Aged
    <3>4. charging' = charging \cup {o} /\ \A p \in Orders : p # o => charge'[p] = charge[p]
      BY <1>2, <2>1 DEF LeaveCharging
    <3>5. ChargeStep
      BY <1>3, <1>4, <3>2, <3>3, <3>4 DEF ChargeStep
    <3>. QED
      BY <1>2, <2>1, <3>5, VerdictQuiet DEF LeaveCharging, reconVars
  <2>2. CASE SettleCharge(o)
    <3>1. charge[o] = "pending" /\ \A p \in Orders : p # o => charge'[p] = charge[p]
      BY <1>2, <2>2 DEF SettleCharge
    <3>2. charging' = charging /\ UNCHANGED vars
      BY <2>2 DEF SettleCharge
    <3>3. ChargeStep
      BY <1>3, <1>4, <3>1, <3>2 DEF vars, ChargeStep, Aged
    <3>. QED
      BY <1>2, <2>2, <3>3, VerdictQuiet DEF SettleCharge, reconVars
  <2>3. CASE GrowOld(o)
    <3>1. \A p \in Orders : Aged(p) => Aged(p)'
      BY <1>2, <2>3 DEF GrowOld, PassDeadline, PassGrace, Aged
    <3>2. ChargeStep
      BY <1>3, <1>4, <2>3, <3>1 DEF GrowOld, chargeVars, ChargeStep
    <3>. QED
      BY <1>2, <2>3, <3>2, VerdictQuiet DEF GrowOld, reconVars
  <2>. QED
    BY <1>7, <2>1, <2>2, <2>3
<1>8. ASSUME NEW r \in Reconcilers, FindStuckCharging(r) PROVE VerdictInv'
  <2>1. PICK S \in SUBSET Stuck :
          found' = [found EXCEPT ![r] = {[order |-> o, aged |-> Aged(o)] : o \in S}]
    BY <1>8 DEF FindStuckCharging
  <2>2. S \subseteq charging /\ UNCHANGED <<status, phase, charging, charge, subject, verdict>>
    BY <1>8, <2>1 DEF Stuck, FindStuckCharging, vars, pgVars, chargeVars
  <2>3. \A row \in found'[r] : row.order \in charging /\ (row.aged => Aged(row.order))
    BY <1>2, <2>1, <2>2
  <2>4. \A q \in Reconcilers : q # r => found'[q] = found[q]
    BY <1>2, <2>1
  <2>. QED
    BY <2>2, <2>3, <2>4 DEF VerdictInv, Justified, Aged
<1>9. ASSUME NEW r \in Reconcilers, NEW row \in found[r], Resolve(r, row) PROVE VerdictInv'
  <2>1. /\ row.order \in Orders /\ status[row.order] # "absent"
        /\ row.order \in charging /\ row.aged => Aged(row.order)
    BY <1>2 DEF Rows, VerdictInv
  <2>2. PICK v : /\ Decide(r, row, v)
                 /\ \/ v = "idle"
                    \/ v = MapStatus(charge[row.order])
                    \/ v = "fail" /\ row.aged
    BY <1>9 DEF Resolve, GetStatus, PastMaxAge
  <2>3. v # "idle" /\ row.order \in charging => Justified(v, row.order)
    <3>1. charge[row.order] \in Charges
      BY <1>2, <2>1
    <3>. QED
      BY <2>1, <2>2, <3>1 DEF MapStatus, Charges, Justified
  <2>4. UNCHANGED <<status, phase, charging, charge>>
    BY <1>9 DEF Resolve, GetStatus, pgVars, chargeVars
  <2>5. /\ found'[r] \subseteq found[r] /\ subject'[r] = row.order /\ verdict'[r] = v
        /\ \A q \in Reconcilers : q # r =>
              found'[q] = found[q] /\ subject'[q] = subject[q] /\ verdict'[q] = verdict[q]
    BY <1>2, <2>2 DEF Decide
  <2>. QED
    BY <2>1, <2>3, <2>4, <2>5 DEF VerdictInv, Justified, Aged
<1>10. ASSUME NEW r \in Reconcilers, Settle(r) \/ CrashRecon(r) PROVE VerdictInv'
  <2>1. \A q \in Reconcilers : /\ found'[q] \subseteq found[q]
                               /\ \/ verdict'[q] = "idle"
                                  \/ verdict'[q] = verdict[q] /\ subject'[q] = subject[q]
    BY <1>2, <1>10 DEF Settle, CrashRecon
  <2>2. (\E v : Move(subject[r], v)) \/ UNCHANGED <<phase, pgVars, chargeVars>>
    BY <1>10 DEF Settle, CrashRecon
  <2>3. ChargeStep
    <3>1. CASE \E v : Move(subject[r], v)
      BY <1>1, <1>2, <3>1, MoveChargeStep
    <3>2. CASE UNCHANGED <<phase, pgVars, chargeVars>>
      BY <1>3, <1>4, <3>2 DEF ChargeStep, chargeVars, Aged
    <3>. QED
      BY <2>2, <3>1, <3>2
  <2>. QED
    BY <1>2, <2>1, <2>3, VerdictQuiet
<1>. QED
  BY <1>5, <1>6, <1>7, <1>8, <1>9, <1>10 DEF ReconNext, Recon

LEMMA SpecVerdict == ReconSpec => []VerdictInv
<1>1. ReconInit => VerdictInv
  BY DEF ReconInit, VerdictInv
<1>. QED
  BY <1>1, NextVerdict, SpecTypes, PTL DEF ReconSpec

\* The order follows the charge, whichever reconciler moves it and however stale
\* what it read is.
THEOREM SagaVerdictIsFollowed == ReconSpec => VerdictIsFollowed
<1>1. SagaTypeInv /\ VerdictInv /\ [ReconNext]_allVars
        => [\A o \in charging \ charging' :
              \/ status'[o] = "paid" /\ charge[o] = "charged"
              \/ status'[o] = "payment_failed" /\ (charge[o] \in {"none", "declined"} \/ Aged(o))]_allVars
  <2>. SUFFICES ASSUME SagaTypeInv, VerdictInv, ReconNext, NEW o \in charging \ charging'
                PROVE  \/ status'[o] = "paid" /\ charge[o] = "charged"
                       \/ status'[o] = "payment_failed" /\ (charge[o] \in {"none", "declined"} \/ Aged(o))
    OBVIOUS
  <2>1. PICK r \in Reconcilers : Settle(r)
    BY DEF ReconNext, SagaStep, LeaveCharging, SettleCharge, GrowOld, Recon, FindStuckCharging,
           Resolve, GetStatus,
           CrashRecon, chargeVars
  <2>2. /\ Move(subject[r], verdict[r]) /\ verdict[r] # "idle"
        /\ verdict[r] \in Verdicts /\ subject[r] \in Orders /\ status \in [Orders -> Statuses]
    BY <2>1 DEF Settle, chargeVars, SagaTypeInv, ReconTypeOK, TypeOK, PgTypeOK
  <2>3. o = subject[r]
    BY <2>2 DEF Move
  <2>4. Justified(verdict[r], o)
    BY <2>2, <2>3 DEF VerdictInv
  <2>5. CASE verdict[r] = "confirm"
    BY <2>2, <2>3, <2>4, <2>5 DEF Move, MarkPaid, Justified
  <2>6. CASE verdict[r] = "fail"
    BY <2>2, <2>3, <2>4, <2>6 DEF Move, FailOrder, Justified
  <2>. QED
    BY <2>2, <2>5, <2>6 DEF Verdicts
<1>. QED
  BY <1>1, SpecTypes, SpecVerdict, PTL DEF ReconSpec, VerdictIsFollowed
=============================================================================
