-------------------------- MODULE HotInventoryProofs --------------------------
(***************************************************************************)
(* What hangs on Redis. As a cache, for any orders, pods, tolerance and    *)
(* number of losses: an event is created or gone, and the two inventories  *)
(* differ by what is in flight. As the admin feed's stream, for any        *)
(* connections, capacities and failures: who is kept gets every message,   *)
(* in order.                                                               *)
(***************************************************************************)
EXTENDS HotInventory, AdminStream, CatalogProofs, SequenceTheorems

\* A quantity is a number, and not none.
LEMMA OrderTakesTickets ==
    ASSUME NEW o \in Orders
    PROVE  QuantityOf[o] \in Nat /\ QuantityOf[o] >= 1
BY CatalogAssumption

-----------------------------------------------------------------------------
(* The inductive invariant *)

CacheTypeInv ==
    /\ available \in Nat
    /\ key \in Nat \cup {Absent}
    /\ reverted \in SUBSET Orders
    /\ order \in [Orders -> OrderStates]
    /\ pods \in [Pods -> PodStates]
    /\ seen \in [Pods -> Nat]

\* While the event is being created nobody knows of it; its row is there when
\* its keys are written, and before there is nothing a pod could have read.
CreationInv ==
    /\ creator = "new" => row = "none" /\ key = Absent /\ \A p \in Pods : pods[p] # "seeding"
    /\ creator \in {"new", "seeding", "deleting"} => \A o \in Orders : order[o] = "new"
    /\ creator \in {"seeding", "created"} => row = "live"
    /\ creator = "seeding" => available = TotalTickets
    /\ creator = "failed" => row # "live"

\* Only what a worker has given up or the saga has released is ever reverted.
RevertedInv == \A o \in reverted : order[o] \in {"given_up", "released", "closed"}

CacheInv == CacheTypeInv /\ CreationInv /\ RevertedInv /\ Ledger

\* The variables it speaks of.
counts == <<row, available, creator, key, reverted, order, pods, seen, astray>>

LEMMA InitCacheInv == Init => CacheInv
BY CatalogAssumption DEF Init, CacheInv, CacheTypeInv, CreationInv, RevertedInv, Ledger,
                         OrderStates, PodStates, Absent

-----------------------------------------------------------------------------
(* Creation *)

LEMMA CreationStep ==
    ASSUME CacheInv, CreateEvent \/ CreatorDies
    PROVE  CacheInv'
<1>. USE DEF CacheInv
<1>1. CASE Create
  <2>1. UNCHANGED <<key, reverted, order, pods, seen, astray>>
    BY <1>1 DEF Create, cacheVars, podVars
  <2>2. row = "none" /\ key = Absent /\ creator = "new"
    BY <1>1 DEF Create, CreationInv
  <2>3. \/ row' = "live" /\ available' = TotalTickets /\ creator' \in {"seeding", "unknown"}
        \/ row' = row /\ available' = available /\ creator' = "failed"
    BY <1>1 DEF Create, InsertRows
  <2>4. CacheTypeInv'
    BY <2>1, <2>3, CatalogAssumption DEF CacheTypeInv
  <2>5. CreationInv'
    BY <2>1, <2>2, <2>3 DEF CreationInv
  <2>6. RevertedInv' /\ Ledger'
    BY <2>1, <2>2 DEF RevertedInv, Ledger
  <2>. QED
    BY <2>4, <2>5, <2>6
<1>2. CASE SetTicketTypeRuntime
  <2>1. UNCHANGED <<row, available, reverted, order, pods, seen, astray>>
    BY <1>2 DEF SetTicketTypeRuntime, podVars
  <2>2. /\ creator = "seeding" /\ row = "live" /\ available = TotalTickets
        /\ \A o \in Orders : order[o] = "new"
    BY <1>2 DEF SetTicketTypeRuntime, CreationInv
  <2>3. /\ key' = TotalTickets \/ key' = key
        /\ creator' \in {"created", "deleting"}
    BY <1>2 DEF SetTicketTypeRuntime
  <2>4. CacheTypeInv' /\ CreationInv' /\ RevertedInv'
    BY <2>1, <2>2, <2>3, CatalogAssumption DEF CacheTypeInv, CreationInv, RevertedInv
  <2>5. Ledger'
    <3>1. InFlight = {} /\ InFlight' = {}
      BY <2>1, <2>2 DEF InFlight
    <3>2. Tickets({}) = {} /\ Cardinality({}) = 0
      BY FS_EmptySet DEF Tickets
    <3>3. CASE key' = key
      BY <2>1, <3>1, <3>3 DEF Ledger
    <3>4. CASE key' = TotalTickets
      BY <2>1, <2>2, <3>1, <3>2, <3>4, CatalogAssumption DEF Ledger
    <3>. QED
      BY <2>3, <3>3, <3>4
  <2>. QED
    BY <2>4, <2>5
<1>3. CASE compensateDanglingEvent
  <2>1. UNCHANGED <<available, key, reverted, order, pods, seen, astray>>
    BY <1>3 DEF compensateDanglingEvent, cacheVars, podVars
  <2>2. creator' \in {"failed", "dangling"} /\ (creator' = "failed" => row' # "live")
          /\ (row' = "live" => row = "live")
    BY <1>3 DEF compensateDanglingEvent
  <2>3. CacheTypeInv' /\ CreationInv' /\ RevertedInv'
    BY <2>1, <2>2 DEF CacheTypeInv, CreationInv, RevertedInv
  <2>4. Ledger'
    BY <2>1, <2>2 DEF Ledger, InFlight
  <2>. QED
    BY <2>3, <2>4
<1>4. CASE CreatorDies
  <2>1. UNCHANGED <<row, available, key, reverted, order, pods, seen, astray>>
    BY <1>4 DEF CreatorDies, cacheVars, podVars
  <2>2. creator' = "dead"
    BY <1>4 DEF CreatorDies
  <2>3. CacheTypeInv' /\ CreationInv' /\ RevertedInv'
    BY <2>1, <2>2 DEF CacheTypeInv, CreationInv, RevertedInv
  <2>4. Ledger'
    BY <2>1 DEF Ledger, InFlight
  <2>. QED
    BY <2>3, <2>4
<1>. QED
  BY <1>1, <1>2, <1>3, <1>4 DEF CreateEvent

-----------------------------------------------------------------------------
(* The orders *)

\* What one order does to the two inventories and to what is between them.
OrderStep(o) ==
    \* taken from Redis
    \/ /\ order[o] = "new" /\ key # Absent
       /\ key' = key - QuantityOf[o] /\ available' = available
       /\ InFlight' = InFlight \cup {o} /\ o \notin InFlight
    \* taken from Postgres
    \/ /\ key' = key /\ available' = available - QuantityOf[o]
       /\ InFlight' = InFlight \ {o} /\ o \in InFlight
    \* given back to Postgres
    \/ /\ key' = key /\ available' = available + QuantityOf[o]
       /\ InFlight' = InFlight \cup {o} /\ o \notin InFlight
    \* given back to Redis
    \/ /\ key # Absent
       /\ key' = key + QuantityOf[o] /\ available' = available
       /\ InFlight' = InFlight \ {o} /\ o \in InFlight
    \* where Redis has nothing, nothing is given back
    \/ key = Absent /\ key' = Absent /\ available' = available
    \/ key' = key /\ available' = available /\ InFlight' = InFlight

\* It keeps the ledger.
LEMMA OrderStepLedger ==
    ASSUME CacheInv, NEW o \in Orders, OrderStep(o), row' = row, astray' = astray,
           key' \in Nat \cup {Absent}, available' \in Nat
    PROVE  Ledger'
<1>. DEFINE N(S) == Cardinality(Tickets(S))
<1>. SUFFICES ASSUME row = "live", key' # Absent, ~astray
              PROVE  key' + N(InFlight') = available'
  BY DEF Ledger, Tickets
<1>1. InFlight \in SUBSET Orders /\ N(InFlight) \in Nat
  BY TicketsFinite DEF InFlight
<1>2. QuantityOf[o] \in Nat
  BY OrderTakesTickets
<1>3. key \in Nat \cup {Absent} /\ available \in Nat
  BY DEF CacheInv, CacheTypeInv
<1>4. key # Absent => key \in Nat /\ key + N(InFlight) = available
  BY <1>3 DEF CacheInv, Ledger
<1>5. o \notin InFlight => N(InFlight \cup {o}) = N(InFlight) + QuantityOf[o]
  BY <1>1, TicketsOfOneMore
<1>6. o \in InFlight => N(InFlight \ {o}) \in Nat /\ N(InFlight) = N(InFlight \ {o}) + QuantityOf[o]
  <2>. SUFFICES ASSUME o \in InFlight
                PROVE  N(InFlight \ {o}) \in Nat /\ N(InFlight) = N(InFlight \ {o}) + QuantityOf[o]
    OBVIOUS
  <2>1. InFlight \ {o} \in SUBSET Orders /\ (InFlight \ {o}) \cup {o} = InFlight
    BY <1>1
  <2>. QED
    BY <2>1, TicketsFinite, TicketsOfOneMore
<1>7. key # Absent
  BY DEF OrderStep
<1>. DEFINE here == N(InFlight)
            there == N(InFlight \ {o})
            n == QuantityOf[o]
<1>8. /\ key \in Nat /\ available \in Nat /\ here \in Nat /\ n \in Nat
      /\ key + here = available
  BY <1>1, <1>2, <1>3, <1>4, <1>7
<1>9. CASE o \notin InFlight
  <2>1. N(InFlight \cup {o}) = here + n
    BY <1>5, <1>9
  <2>2. \/ key' = key - n /\ available' = available /\ InFlight' = InFlight \cup {o}
        \/ key' = key /\ available' = available + n /\ InFlight' = InFlight \cup {o}
        \/ key' = key /\ available' = available /\ InFlight' = InFlight
    BY <1>7, <1>9 DEF OrderStep
  <2>3. \/ key' = key - n /\ available' = available /\ N(InFlight') = here + n
        \/ key' = key /\ available' = available + n /\ N(InFlight') = here + n
        \/ key' = key /\ available' = available /\ N(InFlight') = here
    BY <2>1, <2>2
  <2>. HIDE DEF N, here, n
  <2>. QED
    BY <1>8, <2>3
<1>10. CASE o \in InFlight
  <2>1. there \in Nat /\ here = there + n
    BY <1>6, <1>10
  <2>2. \/ key' = key /\ available' = available - n /\ InFlight' = InFlight \ {o}
        \/ key' = key + n /\ available' = available /\ InFlight' = InFlight \ {o}
        \/ key' = key /\ available' = available /\ InFlight' = InFlight
    BY <1>7, <1>10 DEF OrderStep
  <2>3. \/ key' = key /\ available' = available - n /\ N(InFlight') = there
        \/ key' = key + n /\ available' = available /\ N(InFlight') = there
        \/ key' = key /\ available' = available /\ N(InFlight') = here
    BY <2>2
  <2>. HIDE DEF N, here, there, n
  <2>. QED
    BY <1>8, <2>1, <2>3
<1>. QED
  BY <1>9, <1>10

\* Booking, working, releasing and reverting.
LEMMA OrdersStep ==
    ASSUME CacheInv, NEW o \in Orders, Book(o) \/ Work(o) \/ Release(o)
    PROVE  CacheInv'
<1>. USE DEF CacheInv
<1>0. /\ available \in Nat /\ key \in Nat \cup {Absent} /\ reverted \in SUBSET Orders
      /\ order \in [Orders -> OrderStates] /\ QuantityOf[o] \in Nat
      /\ (o \in reverted => order[o] \in {"given_up", "released", "closed"})
  BY OrderTakesTickets DEF CacheTypeInv, RevertedInv
<1>1. UNCHANGED <<row, creator, pods, seen>>
  BY DEF Book, Work, Take, Write, Release, RevertInventory, cacheVars, podVars
<1>2. creator \notin {"new", "seeding", "deleting"}
  BY DEF Book, Work, Take, Write, Release, RevertInventory, CreationInv
<1>3. CreationInv'
  BY <1>1, <1>2 DEF CreationInv
<1>4. CASE key = Absent /\ Book(o)
  <2>1. key' = 0 /\ astray' = TRUE /\ UNCHANGED <<order, available, reverted>>
    BY <1>4, OrderTakesTickets DEF Book, Absent
  <2>. QED
    BY <1>1, <1>3, <2>1 DEF CacheTypeInv, RevertedInv, Ledger
<1>5. ASSUME NEW s \in OrderStates, Becomes(o, s) \/ UNCHANGED order, UNCHANGED astray,
             order' = order \/ order'[o] = s,
             OrderStep(o), key' \in Nat \cup {Absent}, available' \in Nat,
             reverted' \subseteq reverted \cup {o},
             o \in reverted' => order'[o] \in {"given_up", "released", "closed"}
      PROVE  CacheInv'
  <2>1. Ledger'
    BY <1>1, <1>5, OrderStepLedger
  <2>2. CacheTypeInv'
    BY <1>0, <1>1, <1>5 DEF CacheTypeInv, Becomes
  <2>3. RevertedInv'
    BY <1>0, <1>5 DEF RevertedInv, Becomes
  <2>. QED
    BY <1>3, <2>1, <2>2, <2>3
<1>6. CASE key # Absent /\ Book(o)
  <2>0. key \in Nat /\ o \notin reverted /\ o \notin InFlight
    BY <1>0, <1>6 DEF Book, InFlight
  <2>1. CASE key' = key - QuantityOf[o] /\ key >= QuantityOf[o] /\ Becomes(o, "queued")
    <3>1. order'[o] = "queued" /\ \A p \in Orders : p # o => order'[p] = order[p]
      BY <1>0, <2>1 DEF Becomes
    <3>2. UNCHANGED <<available, reverted, astray>>
      BY <1>6, <2>1, <1>0 DEF Book
    <3>3. InFlight' = InFlight \cup {o}
      BY <2>0, <3>1, <3>2 DEF InFlight
    <3>4. OrderStep(o)
      BY <1>6, <2>0, <2>1, <3>2, <3>3 DEF OrderStep, Book
    <3>. QED
      BY <1>0, <1>5, <2>0, <2>1, <3>1, <3>2, <3>4 DEF OrderStates
  <2>2. CASE UNCHANGED <<key, order, astray>>
    <3>1. UNCHANGED <<available, reverted>>
      BY <1>6 DEF Book
    <3>2. InFlight' = InFlight
      BY <2>2, <3>1 DEF InFlight
    <3>3. OrderStep(o)
      BY <2>2, <3>1, <3>2 DEF OrderStep
    <3>. QED
      BY <1>0, <1>5, <2>2, <3>1, <3>3 DEF OrderStates
  <2>. QED
    BY <1>6, <2>1, <2>2 DEF Book
<1>7. CASE Take(o) \/ (Write(o) /\ UNCHANGED available)
  <2>1. UNCHANGED <<available, key, reverted, astray>>
    BY <1>7 DEF Take, Write, cacheVars
  <2>2. /\ order[o] \in {"queued", "taken"}
        /\ \E s \in {"taken", "given_up"} : Becomes(o, s)
    <3>1. CASE Take(o)
      BY <3>1 DEF Take
    <3>2. CASE Write(o) /\ UNCHANGED available
      BY <1>0, <3>2, OrderTakesTickets DEF Write, DecrementTicket
    <3>. QED
      BY <1>7, <3>1, <3>2
  <2>3. PICK s \in {"taken", "given_up"} : Becomes(o, s)
    BY <2>2
  <2>4. order'[o] = s /\ \A p \in Orders : p # o => order'[p] = order[p]
    BY <1>0, <2>3 DEF Becomes
  <2>5. InFlight' = InFlight /\ o \notin reverted
    BY <1>0, <2>1, <2>2, <2>4 DEF InFlight
  <2>6. OrderStep(o)
    BY <2>1, <2>5 DEF OrderStep
  <2>. QED
    BY <1>0, <1>5, <2>1, <2>3, <2>4, <2>5, <2>6 DEF OrderStates
<1>8. CASE Write(o) /\ available' # available
  <2>1. /\ UNCHANGED <<key, reverted, astray>>
        /\ order[o] = "taken" /\ Becomes(o, "held")
        /\ available >= QuantityOf[o] /\ available' = available - QuantityOf[o]
    BY <1>8 DEF Write, DecrementTicket, cacheVars
  <2>2. order'[o] = "held" /\ \A p \in Orders : p # o => order'[p] = order[p]
    BY <1>0, <2>1 DEF Becomes
  <2>3. o \in InFlight /\ InFlight' = InFlight \ {o} /\ o \notin reverted
    BY <1>0, <2>1, <2>2 DEF InFlight
  <2>4. OrderStep(o)
    BY <2>1, <2>3 DEF OrderStep
  <2>. QED
    BY <1>0, <1>5, <2>1, <2>2, <2>3, <2>4 DEF OrderStates
<1>9. CASE Release(o)
  <2>1. /\ UNCHANGED <<key, reverted, astray>>
        /\ order[o] = "held" /\ Becomes(o, "released")
        /\ available' = available + QuantityOf[o]
    BY <1>9 DEF Release, cacheVars
  <2>2. order'[o] = "released" /\ \A p \in Orders : p # o => order'[p] = order[p]
    BY <1>0, <2>1 DEF Becomes
  <2>3. o \notin InFlight /\ InFlight' = InFlight \cup {o} /\ o \notin reverted
    BY <1>0, <2>1, <2>2 DEF InFlight
  <2>4. OrderStep(o)
    BY <2>1, <2>3 DEF OrderStep
  <2>. QED
    BY <1>0, <1>5, <2>1, <2>2, <2>3, <2>4 DEF OrderStates
<1>10. CASE RevertInventory(o)
  <2>1. UNCHANGED <<available, astray>> /\ reverted' = reverted \cup {o}
    BY <1>10 DEF RevertInventory, revert
  <2>2. order[o] \in {"given_up", "released"} /\ (Becomes(o, "closed") \/ UNCHANGED order)
    BY <1>10 DEF RevertInventory
  <2>3. /\ order'[o] \in {order[o], "closed"}
        /\ order' = order \/ order'[o] = "closed"
        /\ \A p \in Orders : p # o => order'[p] = order[p]
    BY <1>0, <2>2 DEF Becomes
  <2>4. InFlight' = InFlight \ {o} /\ (o \in InFlight <=> o \notin reverted)
    BY <1>0, <2>1, <2>2, <2>3 DEF InFlight
  <2>5. key' = IF o \in reverted \/ key = Absent THEN key ELSE key + QuantityOf[o]
    BY <1>10 DEF RevertInventory, revert
  <2>6. OrderStep(o)
    <3>1. CASE o \in reverted
      <4>1. key' = key /\ InFlight' = InFlight
        BY <2>4, <2>5, <3>1
      <4>. QED
        BY <2>1, <4>1 DEF OrderStep
    <3>2. CASE o \notin reverted /\ key = Absent
      BY <2>1, <2>5, <3>2 DEF OrderStep
    <3>3. CASE o \notin reverted /\ key # Absent
      BY <2>1, <2>4, <2>5, <3>3 DEF OrderStep
    <3>. QED
      BY <3>1, <3>2, <3>3
  <2>7. key' \in Nat \cup {Absent}
    BY <1>0, <2>5
  <2>8. order'[o] \in {"given_up", "released", "closed"}
    BY <2>2, <2>3
  <2>. QED
    BY <1>0, <1>5, <2>1, <2>2, <2>3, <2>6, <2>7, <2>8 DEF OrderStates
<1>. QED
  BY <1>4, <1>6, <1>7, <1>8, <1>9, <1>10 DEF Work

-----------------------------------------------------------------------------
(* Losses and rehydration *)

LEMMA LossStep ==
    ASSUME CacheInv, EnsureGroup \/ Flush \/ Expire
    PROVE  CacheInv'
<1>. USE DEF CacheInv
<1>1. CASE EnsureGroup
  <2>1. /\ UNCHANGED <<row, available, creator, key, reverted, pods, seen, astray>>
        /\ order' = [o \in Orders |-> IF order[o] = "queued" THEN "skipped" ELSE order[o]]
    BY <1>1 DEF EnsureGroup, podVars
  <2>2. InFlight' = InFlight
    BY <2>1 DEF InFlight
  <2>3. CacheTypeInv' /\ CreationInv' /\ RevertedInv'
    BY <2>1 DEF CacheTypeInv, CreationInv, RevertedInv, OrderStates
  <2>. QED
    BY <2>1, <2>2, <2>3 DEF Ledger
<1>2. CASE Flush
  <2>1. /\ UNCHANGED <<row, available, creator, pods, seen, astray>> /\ key' = Absent
        /\ reverted' = {}
        /\ order' = [o \in Orders |-> IF order[o] = "queued" THEN "lost" ELSE order[o]]
    BY <1>2 DEF Flush, podVars
  <2>2. CacheTypeInv' /\ CreationInv' /\ RevertedInv'
    BY <2>1 DEF CacheTypeInv, CreationInv, RevertedInv, OrderStates
  <2>. QED
    BY <2>1, <2>2 DEF Ledger
<1>3. CASE Expire
  <2>1. /\ UNCHANGED <<row, available, creator, reverted, order, pods, seen, astray>>
        /\ key' = key \/ key' = Absent
    BY <1>3 DEF Expire, podVars
  <2>2. InFlight' = InFlight
    BY <2>1 DEF InFlight
  <2>3. CacheTypeInv' /\ CreationInv' /\ RevertedInv'
    BY <2>1 DEF CacheTypeInv, CreationInv, RevertedInv
  <2>. QED
    BY <2>1, <2>2, <2>3 DEF Ledger
<1>. QED
  BY <1>1, <1>2, <1>3

LEMMA PodStep ==
    ASSUME CacheInv, NEW p \in Pods, StartPod(p) \/ Rehydrate(p) \/ Drain(p) \/ StopPod(p)
    PROVE  CacheInv'
<1>. USE DEF CacheInv
<1>1. UNCHANGED <<row, available, creator, reverted, order>>
  BY DEF StartPod, Rehydrate, TryLock, ListEvents, SeedRuntime, Drain, StopPod, cacheVars
<1>2. InFlight' = InFlight
  BY <1>1 DEF InFlight
<1>3. /\ pods' \in [Pods -> PodStates]
      /\ creator = "new" => \A r \in Pods : pods'[r] # "seeding"
  <2>1. PICK s \in PodStates : PodGoes(p, s) /\ (s = "seeding" => row = "live")
    BY DEF StartPod, Rehydrate, TryLock, ListEvents, ListAvailable, SeedRuntime, Drain, StopPod,
           PodStates
  <2>. QED
    BY <2>1 DEF PodGoes, CacheTypeInv, CreationInv
<1>4. seen' \in [Pods -> Nat]
  BY DEF StartPod, Rehydrate, TryLock, ListEvents, SeedRuntime, Drain, StopPod, Forget, CacheTypeInv
<1>5. CASE SeedRuntime(p)
  <2>1. pods[p] = "seeding" /\ SetIfMissing(p)
    BY <1>5 DEF SeedRuntime
  <2>2. creator # "new"
    BY <2>1 DEF CreationInv
  <2>3. seen[p] \in Nat
    BY DEF CacheTypeInv
  <2>4. key' \in Nat \cup {Absent}
    BY <2>1, <2>3 DEF SetIfMissing, CacheTypeInv
  <2>5. CacheTypeInv' /\ CreationInv' /\ RevertedInv'
    BY <1>1, <1>3, <1>4, <2>2, <2>4 DEF CacheTypeInv, CreationInv, RevertedInv
  <2>6. Ledger'
    <3>1. CASE key # Absent
      BY <1>1, <1>2, <2>1, <3>1 DEF SetIfMissing, Ledger
    <3>2. CASE key = Absent
      <4>1. ~astray' => InFlight = {} /\ key' = available
        BY <2>1, <3>2 DEF SetIfMissing
      <4>2. Tickets({}) = {} /\ Cardinality({}) = 0
        BY FS_EmptySet DEF Tickets
      <4>. QED
        BY <1>1, <1>2, <4>1, <4>2 DEF Ledger, CacheTypeInv
    <3>. QED
      BY <3>1, <3>2
  <2>. QED
    BY <2>5, <2>6
<1>6. CASE UNCHANGED <<key, astray>>
  BY <1>1, <1>2, <1>3, <1>4, <1>6 DEF CacheTypeInv, CreationInv, RevertedInv, Ledger
<1>. QED
  BY <1>5, <1>6 DEF StartPod, Rehydrate, TryLock, ListEvents, Drain, StopPod, cacheVars

\* Every step keeps the invariant.
LEMMA NextCacheInv == CacheInv /\ [Next]_vars => CacheInv'
<1>. SUFFICES ASSUME CacheInv, [Next]_vars PROVE CacheInv'
  OBVIOUS
<1>1. ASSUME UNCHANGED counts PROVE CacheInv'
  <2>1. InFlight' = InFlight
    BY <1>1 DEF counts, InFlight
  <2>. QED
    BY <1>1, <2>1 DEF counts, CacheInv, CacheTypeInv, CreationInv, RevertedInv, Ledger
<1>2. CASE LoseSession
  BY <1>1, <1>2 DEF LoseSession, counts, cacheVars
<1>3. CASE Sweep \/ StopDog
  BY <1>1, <1>3 DEF Sweep, SweepList, CheckOne, StartDog, StopDog, counts, cacheVars, podVars
<1>4. CASE UNCHANGED vars
  BY <1>1, <1>4 DEF vars, counts, cacheVars, podVars
<1>. QED
  BY <1>2, <1>3, <1>4, CreationStep, OrdersStep, LossStep, PodStep DEF Next

LEMMA SpecCacheInv == Spec => []CacheInv
<1>. QED
  BY InitCacheInv, NextCacheInv, PTL DEF Spec

\* The keys are written before the answer, and only a loss takes them away.
KeysInv ==
    /\ budget \in Nat /\ budget <= MaxFaults
    /\ creator = "created" /\ budget = MaxFaults => key # Absent /\ meta

LEMMA NextKeysInv == CacheInv /\ KeysInv /\ [Next]_vars => KeysInv'
<1>. SUFFICES ASSUME CacheInv, KeysInv, [Next]_vars PROVE KeysInv'
  OBVIOUS
<1>0. /\ budget \in Nat /\ budget <= MaxFaults /\ MaxFaults \in Nat
      /\ key \in Nat \cup {Absent}
  BY HotInventoryAssumption DEF KeysInv, CacheInv, CacheTypeInv
<1>1. CASE Fault
  BY <1>0, <1>1 DEF Fault, KeysInv
<1>2. ASSUME UNCHANGED <<creator, budget>>, key # Absent => key' # Absent, meta => meta'
      PROVE  KeysInv'
  BY <1>2 DEF KeysInv
<1>3. CASE CreateEvent /\ UNCHANGED budget
  <2>1. CASE creator' = "created"
    <3>1. key' = TotalTickets /\ meta' = TRUE
      BY <1>3, <2>1 DEF CreateEvent, Create, SetTicketTypeRuntime, compensateDanglingEvent, Fault
    <3>. QED
      BY <1>0, <1>3, <3>1, CatalogAssumption DEF KeysInv, Absent
  <2>. QED
    BY <1>0, <1>3, <2>1 DEF KeysInv
<1>4. CASE CreateEvent \/ CreatorDies
  BY <1>1, <1>3, <1>4
  DEF CreateEvent, CreatorDies, Create, SetTicketTypeRuntime, compensateDanglingEvent
<1>5. ASSUME NEW o \in Orders, Book(o) \/ Work(o) \/ Release(o) PROVE KeysInv'
  <2>1. QuantityOf[o] \in Nat
    BY OrderTakesTickets
  <2>2. CASE Book(o)
    <3>1. UNCHANGED <<creator, budget>>
      BY <2>2 DEF Book
    <3>2. (key # Absent => key' # Absent) /\ (meta => meta')
      BY <1>0, <2>1, <2>2 DEF Book, Absent
    <3>. QED
      BY <1>2, <3>1, <3>2
  <2>3. CASE RevertInventory(o)
    <3>1. (key # Absent => key' # Absent) /\ UNCHANGED <<creator, meta>>
      BY <1>0, <2>1, <2>3 DEF RevertInventory, revert, Absent
    <3>. QED
      BY <1>1, <1>2, <2>3, <3>1 DEF RevertInventory
  <2>4. CASE Take(o) \/ Write(o) \/ Release(o)
    BY <1>2, <2>4 DEF Take, Write, Release, cacheVars
  <2>. QED
    BY <1>5, <2>2, <2>3, <2>4 DEF Work
<1>6. CASE EnsureGroup \/ Flush \/ Expire \/ LoseSession
  BY <1>1, <1>2, <1>6 DEF EnsureGroup, Flush, Expire, LoseSession
<1>7. ASSUME NEW p \in Pods, StartPod(p) \/ Rehydrate(p) \/ Drain(p) \/ StopPod(p)
      PROVE  KeysInv'
  <2>1. CASE SeedRuntime(p)
    <3>1. (key # Absent => key' # Absent) /\ meta' = TRUE /\ UNCHANGED <<creator, budget>>
      BY <2>1 DEF SeedRuntime, SetIfMissing
    <3>. QED
      BY <1>2, <3>1
  <2>2. CASE StartPod(p) \/ TryLock(p) \/ ListEvents(p) \/ Drain(p) \/ StopPod(p)
    BY <1>1, <1>2, <2>2 DEF StartPod, TryLock, ListEvents, Drain, StopPod, cacheVars
  <2>. QED
    BY <1>7, <2>1, <2>2 DEF Rehydrate
<1>8. CASE Sweep \/ StopDog
  <2>1. CASE CheckOne
    <3>1. UNCHANGED <<creator, key>> /\ (meta => meta')
      BY <2>1 DEF CheckOne, autoRehydrate
    <3>. QED
      BY <1>1, <1>2, <2>1, <3>1 DEF CheckOne
  <2>2. CASE SweepList \/ StartDog \/ StopDog
    BY <1>1, <1>2, <2>2 DEF SweepList, StartDog, StopDog, cacheVars
  <2>. QED
    BY <1>8, <2>1, <2>2 DEF Sweep
<1>9. CASE UNCHANGED vars
  BY <1>2, <1>9 DEF vars, cacheVars
<1>. QED
  BY <1>4, <1>5, <1>6, <1>7, <1>8, <1>9 DEF Next

\* An event whose creation was answered with success has its rows and, until
\* something fails or is lost, its keys; one whose creation was reported as failed
\* has no rows, wherever it fails.
THEOREM CacheCreatedOrGone == Spec => []CreatedOrGone
<1>1. CacheInv /\ KeysInv => CreatedOrGone
  BY DEF CacheInv, CreationInv, KeysInv, CreatedOrGone
<1>2. Init => KeysInv
  BY HotInventoryAssumption DEF Init, KeysInv
<1>. QED
  BY <1>1, <1>2, NextKeysInv, SpecCacheInv, PTL DEF Spec

\* Unless its key went astray, Redis has what Postgres has but for what is in
\* flight, through any number of losses, and rehydrations by any number of pods.
THEOREM CacheLedger == Spec => []Ledger
<1>1. CacheInv => Ledger
  BY DEF CacheInv
<1>. QED
  BY <1>1, SpecCacheInv, PTL

-----------------------------------------------------------------------------
(* The admin event feed: its inductive invariant *)

\* No more events than the bound, none trimmed that was not added, and a
\* subscriber that has failed too often is done.
FeedCountsInv ==
    /\ added + queued <= MaxEvents
    /\ first <= added + 1
    /\ sub # "done" => fails < MaxConsecFailures

\* A client is registered once, by a handler that has left that step behind; the
\* hub takes it once, and a stopped hub has nobody.
OnceInv ==
    /\ \A i, j \in DOMAIN register : i # j => register[i] # register[j]
    /\ \A i \in DOMAIN register :
        /\ register[i] \notin clients \cup closed
        /\ conn[register[i]] \notin {"new", "registering"}
    /\ \A c \in clients \cup closed : conn[c] \notin {"new", "registering"}
    /\ clients \cap closed = {}
    /\ hub = "stopped" => clients = {}

\* Before the hub has taken a client it was sent nothing and is owed nothing.
BlankInv ==
    \A c \in Conns \ (clients \cup closed) : send[c] = <<>> /\ live[c] = <<>> /\ owed[c] = <<>>

\* What is read comes after what was relayed, without a gap but for what was
\* trimmed.
OrderInv ==
    /\ sub = "blocked" => from \in Nat /\ (lastID # Latest => from = lastID)
    /\ sub = "casting" =>
        /\ batch # <<>>
        /\ \A i \in 1..(Len(batch) - 1) : batch[i + 1] = batch[i] + 1
        /\ batch[1] > lastID
        /\ lastID # Latest => \A id \in (lastID + 1)..(batch[1] - 1) : id < first

FeedInv == FeedTypeOK /\ FeedCountsInv /\ OnceInv /\ BlankInv /\ OrderInv /\ NoSilentLoss

LEMMA InitFeedInv == FeedInit => FeedInv
<1>. SUFFICES ASSUME FeedInit PROVE FeedInv
  OBVIOUS
<1>1. FeedTypeOK /\ FeedCountsInv
  BY AdminStreamAssumption
     DEF FeedInit, FeedTypeOK, FeedCountsInv, Ids, ConnStates, Lives, Latest
<1>2. OnceInv /\ BlankInv /\ OrderInv /\ NoSilentLoss
  BY DEF FeedInit, OnceInv, BlankInv, OrderInv, NoSilentLoss
<1>. QED
  BY <1>1, <1>2 DEF FeedInv

-----------------------------------------------------------------------------
(* Sequences of messages *)

\* What XRANGE and XREAD return are consecutive ids, the first of them the next
\* one, or the oldest there is.
LEMMA EntriesAreConsecutive ==
    ASSUME FeedTypeOK, NEW id \in Ids, NEW n \in Nat \ {0}
    PROVE  LET es == Entries(id, n)
               lo == IF id < first THEN first ELSE id + 1
           IN  /\ es \in Seq(Ids)
               /\ \A i \in 1..(Len(es) - 1) : es[i + 1] = es[i] + 1
               /\ es # <<>> => es[1] = lo
<1>. DEFINE lo == IF id < first THEN first ELSE id + 1
            hi == IF added - lo + 1 > n THEN lo + n - 1 ELSE added
            len == IF hi - lo + 1 > 0 THEN hi - lo + 1 ELSE 0
            es == [i \in 1..len |-> lo + i - 1]
<1>1. /\ id \in Int /\ id >= -1 /\ first \in Nat /\ first >= 1
      /\ added \in Nat /\ added <= MaxEvents /\ MaxEvents \in Nat
  BY AdminStreamAssumption DEF FeedTypeOK, Ids
<1>2. lo \in Nat /\ hi \in Int /\ hi <= MaxEvents
  BY <1>1
<1>3. len \in Nat /\ 1..len = 1..(hi - lo + 1)
  BY <1>2
<1>4. Entries(id, n) = es
  BY <1>3 DEF Entries
<1>5. es \in Seq(Ids) /\ Len(es) = len
  <2>1. \A i \in 1..len : lo + i - 1 \in Ids
    <3>1. \A i \in 1..len : i \in Int /\ 1 <= i /\ i <= hi - lo + 1
      BY <1>2, <1>3
    <3>. HIDE DEF hi, lo, len
    <3>. QED
      BY <1>1, <1>2, <3>1 DEF Ids
  <2>. HIDE DEF lo, len
  <2>. QED
    BY <1>3, <2>1
<1>6. \A i \in 1..len : es[i] = lo + i - 1
  OBVIOUS
<1>. HIDE DEF lo, len, es
<1>7. \A i \in 1..(Len(es) - 1) : es[i + 1] = es[i] + 1
  BY <1>2, <1>3, <1>5, <1>6
<1>8. ASSUME es # <<>> PROVE es[1] = lo
  <2>1. len # 0
    BY <1>5, <1>8, EmptySeq
  <2>2. 1 \in 1..len /\ lo + 1 - 1 = lo
    BY <1>2, <1>3, <2>1
  <2>. QED
    BY <1>6, <2>2
<1>. QED
  BY <1>4, <1>5, <1>7, <1>8 DEF lo

\* A sequence is an initial part of itself, and of any that goes on from there.
LEMMA InitialPartOfItself ==
    ASSUME NEW s \in Seq(Ids)
    PROVE  IsInitialPart(s, s)
BY SubSeqFull DEF IsInitialPart

LEMMA InitialPartOfLonger ==
    ASSUME NEW s \in Seq(Ids), NEW t \in Seq(Ids), NEW m \in Ids, IsInitialPart(s, t)
    PROVE  IsInitialPart(s, Append(t, m))
<1>1. /\ Append(t, m) \in Seq(Ids) /\ Len(Append(t, m)) = Len(t) + 1
      /\ \A i \in 1..Len(t) : Append(t, m)[i] = t[i]
  OBVIOUS
<1>2. Len(s) \in Nat /\ Len(t) \in Nat /\ Len(s) <= Len(t)
  BY DEF IsInitialPart
<1>3. s = SubSeq(t, 1, Len(s)) /\ \A i \in 1..Len(s) : s[i] = t[i]
  BY <1>2 DEF IsInitialPart
<1>. DEFINE u == SubSeq(Append(t, m), 1, Len(s))
<1>4. u \in Seq(Ids) /\ Len(u) = Len(s) /\ \A i \in 1..Len(s) : u[i] = s[i]
  <2>1. \A i \in 1..Len(s) : Append(t, m)[i] \in Ids /\ Append(t, m)[i] = s[i]
    BY <1>1, <1>2, <1>3
  <2>2. /\ u \in Seq(Ids)
        /\ Len(u) = IF 1 <= Len(s) THEN Len(s) - 1 + 1 ELSE 0
        /\ \A i \in 1..(Len(s) - 1 + 1) : u[i] = Append(t, m)[1 + i - 1]
    BY <1>2, <2>1, SubSeqProperties
  <2>3. \A i \in 1..Len(s) : u[i] = Append(t, m)[i]
    <3>. HIDE DEF u
    <3>. QED
      BY <1>2, <2>2
  <2>. HIDE DEF u
  <2>. QED
    BY <1>2, <2>1, <2>2, <2>3
<1>5. s = u
  <2>. HIDE DEF u
  <2>. QED
    BY <1>4, SeqEqual
<1>. QED
  BY <1>1, <1>2, <1>5 DEF IsInitialPart

\* A message that goes from the buffer to the wire is got before and after.
LEMMA WriteMovesOne ==
    ASSUME NEW l \in Seq(Ids), NEW s \in Seq(Ids), s # <<>>
    PROVE  Append(l, Head(s)) \o Tail(s) = l \o s
<1>1. Head(s) \in Ids /\ Tail(s) \in Seq(Ids) /\ Len(Tail(s)) = Len(s) - 1
      /\ \A i \in 1..Len(Tail(s)) : Tail(s)[i] = s[i + 1]
  BY HeadTailProperties
<1>2. <<Head(s)>> \o Tail(s) = s
  OBVIOUS
<1>3. Append(l, Head(s)) = l \o <<Head(s)>>
  BY <1>1, AppendIsConcat
<1>4. <<Head(s)>> \in Seq(Ids)
  BY <1>1
<1>5. (l \o <<Head(s)>>) \o Tail(s) = l \o (<<Head(s)>> \o Tail(s))
  BY <1>1, <1>4, ConcatAssociative
<1>. QED
  BY <1>2, <1>3, <1>5

\* A message that comes into the buffer is the last one got.
LEMMA SendAddsOne ==
    ASSUME NEW l \in Seq(Ids), NEW s \in Seq(Ids), NEW m \in Ids
    PROVE  l \o Append(s, m) = Append(l \o s, m)
<1>1. Append(s, m) = s \o <<m>> /\ Append(l \o s, m) = (l \o s) \o <<m>>
  BY AppendIsConcat
<1>2. <<m>> \in Seq(Ids)
  OBVIOUS
<1>. QED
  BY <1>1, <1>2, ConcatAssociative

\* The capacities are numbers, and not none.
LEMMA FeedCapacities ==
    /\ BusCapacity \in Nat \ {0} /\ StreamMaxLen \in Nat \ {0} /\ ReadCount \in Nat \ {0}
    /\ RegisterCapacity \in Nat \ {0} /\ BroadcastCapacity \in Nat \ {0}
    /\ SendCapacity \in Nat \ {0} /\ ReplayMaxCount \in Nat \ {0}
    /\ MaxConsecFailures \in Nat \ {0} /\ MaxEvents \in Nat /\ MaxFailedCalls \in Nat
BY AdminStreamAssumption

-----------------------------------------------------------------------------
(* The steps of the bus, the subscriber, the hub, a handler, the process *)

LEMMA BusTypes ==
    ASSUME FeedInv, Publish \/ BusStep
    PROVE  /\ FeedTypeOK' /\ FeedCountsInv' /\ first <= first'
           /\ UNCHANGED <<subVars, hubVars, chanVars, send, connVars, owed>>
<1>. USE FeedCapacities DEF FeedInv
<1>0. /\ queued \in 0..BusCapacity /\ added \in 0..MaxEvents /\ first \in 1..MaxEvents + 1
      /\ added + queued <= MaxEvents /\ first <= added + 1
      /\ allowed \in 0..MaxFailedCalls /\ drainer \in {"running", "draining", "done"}
  BY DEF FeedTypeOK, FeedCountsInv
<1>1. /\ UNCHANGED <<sub, lastID, from, batch, fails, hub, clients, closed>>
      /\ UNCHANGED <<register, unregister, broadcast, send, conn, resume, replayed, live>>
      /\ UNCHANGED <<life, owed>>
  BY DEF Publish, BusStep, DrainBus, DrainerStop, subVars, hubVars, chanVars, connVars, wireVars
<1>2. /\ queued' \in 0..BusCapacity /\ drainer' \in {"running", "draining", "done"}
      /\ added' \in 0..MaxEvents /\ first' \in 1..MaxEvents + 1
      /\ allowed' \in 0..MaxFailedCalls
      /\ added' + queued' <= MaxEvents /\ first' <= added' + 1 /\ first <= first'
  <2>1. CASE Publish
    BY <1>0, <2>1 DEF Publish, BusFull, streamVars
  <2>2. CASE DrainBus
    <3>1. queued' = queued - 1 /\ queued > 0 /\ drainer' \in {"running", "draining", "done"}
      BY <1>0, <2>2 DEF DrainBus
    <3>2. \/ UNCHANGED <<added, first>>
          \/ /\ added' = added + 1
             /\ \E f \in first..MaxEvents : first' = f /\ (f = first \/ f <= added' - StreamMaxLen + 1)
      BY <2>2 DEF DrainBus, XAdd, Add, streamVars
    <3>3. allowed' = allowed \/ (allowed > 0 /\ allowed' = allowed - 1)
      BY <2>2 DEF DrainBus, XAdd, CallFails
    <3>. QED
      BY <1>0, <3>1, <3>2, <3>3
  <2>3. CASE DrainerStop
    BY <1>0, <2>3 DEF DrainerStop, CallFails, streamVars
  <2>. QED
    BY <2>1, <2>2, <2>3 DEF BusStep
<1>3. FeedTypeOK'
  BY <1>1, <1>2 DEF FeedTypeOK
<1>4. FeedCountsInv'
  BY <1>1, <1>2 DEF FeedCountsInv
<1>. QED
  BY <1>1, <1>2, <1>3, <1>4 DEF subVars, hubVars, chanVars, connVars, wireVars

\* The subscriber: types, and the order of what it relays.
LEMMA SubTypes ==
    ASSUME FeedInv, SubStep
    PROVE  /\ FeedTypeOK' /\ FeedCountsInv' /\ OrderInv'
           /\ UNCHANGED <<hubVars, register, send, connVars, owed>>
<1>. USE FeedCapacities DEF FeedInv
<1>0. /\ sub \in {"idle", "blocked", "casting", "done"} /\ lastID \in Ids /\ from \in Ids
      /\ batch \in Seq(Ids) /\ fails \in 0..MaxConsecFailures /\ life \in Lives
      /\ broadcast \in Seq(Ids) /\ Len(broadcast) <= BroadcastCapacity
      /\ added \in 0..MaxEvents
      /\ (sub # "done" => fails < MaxConsecFailures)
  BY DEF FeedTypeOK, FeedCountsInv
<1>1. /\ UNCHANGED <<queued, drainer, added, first, hub, clients, closed>>
      /\ UNCHANGED <<register, unregister, send, conn, resume, replayed, live, allowed, owed>>
  BY DEF SubStep, StartRead, EndRead, FailRead, Resume, Cast, busVars, streamVars, hubVars,
     chanVars,
         connVars, wireVars
<1>2. /\ sub' \in {"idle", "blocked", "casting", "done"} /\ lastID' \in Ids /\ from' \in Ids
      /\ batch' \in Seq(Ids) /\ fails' \in 0..MaxConsecFailures /\ life' \in Lives
      /\ broadcast' \in Seq(Ids) /\ Len(broadcast') <= BroadcastCapacity
      /\ (sub' # "done" => fails' < MaxConsecFailures)
      /\ OrderInv'
  <2>1. CASE StartRead
    <3>1. UNCHANGED <<lastID, batch, fails, broadcast, life>> /\ sub = "idle"
      BY <2>1 DEF StartRead, chanVars
    <3>2. \/ sub' = "done" /\ from' = from
          \/ sub' = "blocked" /\ from' = IF lastID = Latest THEN added ELSE lastID
      BY <2>1 DEF StartRead
    <3>3. added \in Ids /\ added \in Nat /\ (lastID # Latest => lastID \in Nat)
      BY <1>0 DEF Ids, Latest
    <3>. QED
      BY <1>0, <1>1, <3>1, <3>2, <3>3 DEF OrderInv
  <2>2. CASE EndRead
    <3>1. UNCHANGED <<lastID, broadcast, life>> /\ sub = "blocked" /\ from' = Latest
      BY <2>2 DEF EndRead, chanVars
    <3>2. Latest \in Ids /\ from \in Nat /\ (lastID # Latest => from = lastID)
      BY <3>1 DEF Ids, Latest, OrderInv
    <3>3. CASE batch' = Entries(from, ReadCount) /\ fails' = 0
                 /\ sub' = IF batch' = <<>> THEN "idle" ELSE "casting"
      <4>. DEFINE lo == IF from < first THEN first ELSE from + 1
      <4>1. /\ batch' \in Seq(Ids)
            /\ \A i \in 1..(Len(batch') - 1) : batch'[i + 1] = batch'[i] + 1
            /\ batch' # <<>> => batch'[1] = lo
        BY <1>0, <3>3, EntriesAreConsecutive
      <4>2. lo > lastID /\ (lastID # Latest => \A id \in (lastID + 1)..(lo - 1) : id < first)
        BY <1>0, <3>2 DEF Ids, Latest, FeedTypeOK
      <4>. HIDE DEF lo
      <4>3. OrderInv'
        BY <1>1, <3>1, <3>3, <4>1, <4>2 DEF OrderInv
      <4>. QED
        BY <1>0, <3>1, <3>2, <3>3, <4>1, <4>3
    <3>4. CASE sub' = "done" /\ UNCHANGED <<batch, fails>>
      BY <1>0, <3>1, <3>2, <3>4 DEF OrderInv
    <3>. QED
      BY <2>2, <3>3, <3>4 DEF EndRead
  <2>3. CASE FailRead
    <3>1. UNCHANGED <<lastID, batch, broadcast>> /\ from' = Latest /\ sub = "blocked"
      BY <2>3 DEF FailRead, Resume, chanVars
    <3>2. /\ fails' = fails + 1 /\ life' \in {life, "asked"}
          /\ sub' = IF fails' >= MaxConsecFailures THEN "done" ELSE "idle"
      BY <2>3 DEF FailRead
    <3>3. Latest \in Ids /\ life' \in Lives
      BY <1>0, <3>2 DEF Ids, Latest, Lives
    <3>. QED
      BY <1>0, <3>1, <3>2, <3>3 DEF OrderInv
  <2>4. CASE Cast
    <3>1. UNCHANGED <<from, fails, life>> /\ sub = "casting"
      BY <2>4 DEF Cast
    <3>2. CASE sub' = "done" /\ UNCHANGED <<broadcast, lastID, batch>>
      BY <1>0, <3>1, <3>2 DEF OrderInv
    <3>3. CASE /\ Len(broadcast) < BroadcastCapacity
               /\ broadcast' = Append(broadcast, Head(batch))
               /\ lastID' = Head(batch)
               /\ batch' = Tail(batch)
               /\ sub' = IF batch' = <<>> THEN "idle" ELSE "casting"
      <4>1. batch # <<>> /\ \A i \in 1..(Len(batch) - 1) : batch[i + 1] = batch[i] + 1
        BY <3>1 DEF OrderInv
      <4>2. /\ Head(batch) = batch[1] /\ Head(batch) \in Ids /\ Tail(batch) \in Seq(Ids)
            /\ Len(Tail(batch)) = Len(batch) - 1
            /\ \A i \in 1..Len(Tail(batch)) : Tail(batch)[i] = batch[i + 1]
        BY <1>0, <4>1, HeadTailProperties
      <4>3. broadcast' \in Seq(Ids) /\ Len(broadcast') = Len(broadcast) + 1
        BY <1>0, <3>3, <4>2, AppendProperties
      <4>4. ASSUME Tail(batch) # <<>>
            PROVE  /\ \A i \in 1..(Len(Tail(batch)) - 1) : Tail(batch)[i + 1] = Tail(batch)[i] + 1
                   /\ Tail(batch)[1] = batch[1] + 1
        <5>1. Len(batch) \in Nat /\ Len(Tail(batch)) \in Nat /\ Len(Tail(batch)) # 0
          BY <1>0, <4>2, <4>4, EmptySeq
        <5>. QED
          BY <4>1, <4>2, <5>1
      <4>5. batch[1] \in Int
        BY <4>2 DEF Ids
      <4>6. OrderInv'
        BY <3>1, <3>3, <4>2, <4>4, <4>5 DEF OrderInv
      <4>. QED
        BY <1>0, <3>1, <3>3, <4>2, <4>3, <4>6
    <3>. QED
      BY <2>4, <3>2, <3>3 DEF Cast, Broadcast
  <2>. QED
    BY <2>1, <2>2, <2>3, <2>4 DEF SubStep
<1>3. FeedTypeOK'
  BY <1>1, <1>2 DEF FeedTypeOK
<1>4. FeedCountsInv'
  BY <1>1, <1>2 DEF FeedCountsInv
<1>. QED
  BY <1>1, <1>2, <1>3, <1>4 DEF hubVars, connVars, wireVars

\* The hub: registering, unregistering and the stop.
LEMMA HubTurns ==
    ASSUME FeedInv, TakeRegister \/ TakeUnregister \/ HubStop
    PROVE  FeedInv'
<1>. USE FeedCapacities DEF FeedInv
<1>0. /\ register \in Seq(Conns) /\ Len(register) <= RegisterCapacity
      /\ unregister \in Seq(Conns) /\ Len(unregister) <= RegisterCapacity
      /\ clients \subseteq Conns /\ closed \subseteq Conns /\ hub \in {"running", "stopped"}
      /\ send \in [Conns -> Seq(Ids)] /\ live \in [Conns -> Seq(Ids)] /\ owed \in [Conns -> Seq(Ids)]
  BY DEF FeedTypeOK
<1>1. /\ UNCHANGED <<queued, drainer, added, first, sub, lastID, from, batch, fails>>
      /\ UNCHANGED <<broadcast, send, conn, resume, replayed, live, life, allowed, owed>>
  BY DEF TakeRegister, TakeUnregister, HubStop, busVars, streamVars, subVars, chanVars,
         connVars, wireVars
<1>2. /\ register' \in Seq(Conns) /\ Len(register') <= RegisterCapacity
      /\ unregister' \in Seq(Conns) /\ Len(unregister') <= RegisterCapacity
      /\ clients' \subseteq Conns /\ closed' \subseteq Conns /\ hub' \in {"running", "stopped"}
      /\ OnceInv' /\ BlankInv' /\ NoSilentLoss'
  <2>1. CASE TakeRegister
    <3>1. /\ register # <<>> /\ register' = Tail(register) /\ hub = "running"
          /\ clients' = clients \cup {Head(register)} /\ UNCHANGED <<unregister, hub, closed>>
      BY <2>1 DEF TakeRegister
    <3>2. /\ Head(register) = register[1] /\ Head(register) \in Conns
          /\ Tail(register) \in Seq(Conns) /\ Len(Tail(register)) = Len(register) - 1
          /\ \A i \in 1..Len(Tail(register)) : Tail(register)[i] = register[i + 1]
      BY <1>0, <3>1, HeadTailProperties
    <3>3. Len(register) \in Nat \ {0} /\ DOMAIN register = 1..Len(register)
            /\ DOMAIN Tail(register) = 1..(Len(register) - 1)
      BY <1>0, <3>1, <3>2, EmptySeq
    <3>4. PICK c \in Conns : c = Head(register)
      BY <3>2
    <3>5. c \notin clients \cup closed /\ conn[c] \notin {"new", "registering"}
      BY <3>2, <3>3, <3>4 DEF OnceInv
    <3>6. \A i \in DOMAIN Tail(register) :
            /\ Tail(register)[i] # c
            /\ Tail(register)[i] \notin clients \cup closed
            /\ conn[Tail(register)[i]] \notin {"new", "registering"}
      BY <3>2, <3>3, <3>4 DEF OnceInv
    <3>7. \A i, j \in DOMAIN Tail(register) : i # j => Tail(register)[i] # Tail(register)[j]
      BY <3>2, <3>3 DEF OnceInv
    <3>8. OnceInv'
      BY <1>1, <3>1, <3>4, <3>5, <3>6, <3>7 DEF OnceInv
    <3>9. BlankInv'
      BY <1>1, <3>1 DEF BlankInv
    <3>10. Got(c) = <<>> /\ owed[c] = <<>>
      BY <1>0, <3>5 DEF BlankInv, Got
    <3>11. IsInitialPart(<<>>, <<>>)
      <4>1. <<>> \in Seq(Ids)
        OBVIOUS
      <4>. QED
        BY <4>1, InitialPartOfItself
    <3>12. NoSilentLoss'
      BY <1>1, <3>1, <3>4, <3>10, <3>11 DEF NoSilentLoss, Got
    <3>. QED
      BY <1>0, <3>1, <3>2, <3>8, <3>9, <3>12
  <2>2. CASE TakeUnregister \/ HubStop
    <3>1. UNCHANGED register /\ clients' \cup closed' = clients \cup closed
      BY <2>2 DEF TakeUnregister, HubStop, chanVars
    <3>2. /\ clients' \subseteq clients /\ clients' \cap closed' = {}
          /\ hub' \in {"running", "stopped"} /\ (hub' = "stopped" => clients' = {})
      BY <1>0, <2>2 DEF TakeUnregister, HubStop, OnceInv
    <3>3. unregister' \in Seq(Conns) /\ Len(unregister') <= RegisterCapacity
      <4>1. unregister' = unregister \/ (unregister # <<>> /\ unregister' = Tail(unregister))
        BY <2>2 DEF TakeUnregister, HubStop, chanVars
      <4>2. unregister # <<>> => /\ Tail(unregister) \in Seq(Conns)
                                 /\ Len(Tail(unregister)) = Len(unregister) - 1
        BY <1>0, HeadTailProperties
      <4>3. Len(unregister) - 1 <= RegisterCapacity
        <5>1. Len(unregister) \in Nat
          BY <1>0
        <5>. QED
          BY <1>0, <5>1
      <4>4. CASE unregister' = unregister
        BY <1>0, <4>4
      <4>5. CASE unregister # <<>> /\ unregister' = Tail(unregister)
        BY <4>2, <4>3, <4>5
      <4>. QED
        BY <4>1, <4>4, <4>5
    <3>4. OnceInv'
      BY <1>1, <3>1, <3>2 DEF OnceInv
    <3>5. BlankInv'
      BY <1>1, <3>1 DEF BlankInv
    <3>6. NoSilentLoss'
      BY <1>1, <3>1, <3>2 DEF NoSilentLoss, Got
    <3>. QED
      BY <1>0, <3>1, <3>2, <3>3, <3>4, <3>5, <3>6
  <2>. QED
    BY <2>1, <2>2
<1>3. FeedTypeOK'
  BY <1>1, <1>2 DEF FeedTypeOK
<1>4. FeedCountsInv' /\ OrderInv'
  BY <1>1 DEF FeedCountsInv, OrderInv
<1>. QED
  BY <1>2, <1>3, <1>4

\* The hub: a message to everyone it has.
LEMMA HubSends ==
    ASSUME FeedInv, TakeBroadcast
    PROVE  FeedInv'
<1>. USE FeedCapacities DEF FeedInv
<1>. DEFINE m == Head(broadcast)
<1>0. /\ broadcast \in Seq(Ids) /\ Len(broadcast) <= BroadcastCapacity
      /\ clients \subseteq Conns /\ closed \subseteq Conns /\ clients \cap closed = {}
      /\ send \in [Conns -> Seq(Ids)] /\ live \in [Conns -> Seq(Ids)] /\ owed \in [Conns -> Seq(Ids)]
      /\ \A c \in Conns : Len(send[c]) <= SendCapacity
  BY DEF FeedTypeOK, OnceInv
<1>1. /\ UNCHANGED <<queued, drainer, added, first, sub, lastID, from, batch, fails>>
      /\ UNCHANGED <<register, unregister, hub, conn, resume, replayed, live, life, allowed>>
  BY DEF TakeBroadcast, busVars, streamVars, subVars, connVars, wireVars
<1>2. /\ m \in Ids /\ broadcast' \in Seq(Ids) /\ Len(broadcast') <= BroadcastCapacity
      /\ hub = "running"
  BY <1>0, HeadTailProperties DEF TakeBroadcast
<1>3. /\ send' = [c \in Conns |-> IF c \in clients \ Slow THEN Append(send[c], m) ELSE send[c]]
      /\ clients' = clients \ Slow /\ closed' = closed \cup Slow
      /\ owed' = [c \in Conns |-> IF c \in clients \cup closed /\ conn[c] # "gone"
                                  THEN Append(owed[c], m) ELSE owed[c]]
  BY DEF TakeBroadcast, Deliver
<1>. HIDE DEF m
<1>4. Slow \subseteq clients /\ \A c \in clients : c \notin Slow => Len(send[c]) # SendCapacity
  BY DEF Slow
<1>5. /\ clients' \subseteq Conns /\ closed' \subseteq Conns
      /\ clients' \cup closed' = clients \cup closed /\ clients' \cap closed' = {}
  BY <1>0, <1>3, <1>4
<1>6. /\ send' \in [Conns -> Seq(Ids)] /\ \A c \in Conns : Len(send'[c]) <= SendCapacity
  <2>1. ASSUME NEW c \in Conns
        PROVE  send'[c] \in Seq(Ids) /\ Len(send'[c]) <= SendCapacity
    <3>1. CASE c \in clients \ Slow
      <4>1. send'[c] = Append(send[c], m) /\ Len(send[c]) < SendCapacity
        <5>1. Len(send[c]) \in Nat
          BY <1>0
        <5>. QED
          BY <1>0, <1>3, <1>4, <3>1, <5>1
      <4>2. send[c] \in Seq(Ids)
        BY <1>0
      <4>. QED
        BY <1>2, <4>1, <4>2, AppendProperties
    <3>2. CASE c \notin clients \ Slow
      BY <1>0, <1>3, <3>2
    <3>. QED
      BY <3>1, <3>2
  <2>2. send' = [c \in Conns |-> send'[c]]
    BY <1>3
  <2>. QED
    BY <2>1, <2>2
<1>7. owed' \in [Conns -> Seq(Ids)]
  <2>1. \A c \in Conns : owed'[c] \in Seq(Ids)
    BY <1>0, <1>2, <1>3, AppendProperties
  <2>2. owed' = [c \in Conns |-> owed'[c]]
    BY <1>3
  <2>. QED
    BY <2>1, <2>2
<1>8. FeedTypeOK'
  BY <1>1, <1>2, <1>5, <1>6, <1>7 DEF FeedTypeOK
<1>9. FeedCountsInv' /\ OrderInv'
  BY <1>1 DEF FeedCountsInv, OrderInv
<1>10. OnceInv'
  BY <1>1, <1>2, <1>5 DEF OnceInv
<1>11. BlankInv'
  BY <1>1, <1>3, <1>5 DEF BlankInv
<1>12. NoSilentLoss'
  <2>. SUFFICES ASSUME NEW c \in clients \cup closed, conn[c] # "gone"
                PROVE  /\ IsInitialPart(Got(c)', owed'[c])
                       /\ c \in clients' => Got(c)' = owed'[c]
    BY <1>1, <1>5 DEF NoSilentLoss
  <2>0. /\ c \in Conns /\ live[c] \in Seq(Ids) /\ send[c] \in Seq(Ids) /\ owed[c] \in Seq(Ids)
        /\ Got(c) \in Seq(Ids)
    BY <1>0, ConcatProperties DEF Got
  <2>1. owed'[c] = Append(owed[c], m) /\ owed'[c] \in Seq(Ids)
    BY <1>2, <1>3, <2>0, AppendProperties
  <2>2. CASE c \in clients \ Slow
    <3>1. Got(c)' = live[c] \o Append(send[c], m)
      BY <1>1, <1>3, <2>0, <2>2 DEF Got
    <3>2. live[c] \o Append(send[c], m) = Append(live[c] \o send[c], m)
      BY <1>2, <2>0, SendAddsOne
    <3>3. Got(c) = owed[c]
      BY <2>2 DEF NoSilentLoss
    <3>4. Got(c)' = owed'[c]
      BY <2>1, <3>1, <3>2, <3>3 DEF Got
    <3>. QED
      BY <2>1, <3>4, InitialPartOfItself
  <2>3. CASE c \notin clients \ Slow
    <3>1. Got(c)' = Got(c)
      BY <1>1, <1>3, <2>0, <2>3 DEF Got
    <3>2. IsInitialPart(Got(c), owed[c])
      BY DEF NoSilentLoss
    <3>3. IsInitialPart(Got(c), Append(owed[c], m))
      BY <1>2, <2>0, <3>2, InitialPartOfLonger
    <3>. QED
      BY <1>3, <2>1, <2>3, <3>1, <3>3
  <2>. QED
    BY <2>2, <2>3
<1>. QED
  BY <1>8, <1>9, <1>10, <1>11, <1>12

\* A handler, a request that arrives, a client that goes.
LEMMA ConnSteps ==
    ASSUME FeedInv, NEW c \in Conns, Connect(c) \/ Handle(c) \/ Disconnect(c)
    PROVE  FeedInv'
<1>. USE FeedCapacities DEF FeedInv
<1>0. /\ register \in Seq(Conns) /\ Len(register) <= RegisterCapacity
      /\ unregister \in Seq(Conns) /\ Len(unregister) <= RegisterCapacity
      /\ clients \subseteq Conns /\ closed \subseteq Conns /\ added \in 0..MaxEvents
      /\ send \in [Conns -> Seq(Ids)] /\ live \in [Conns -> Seq(Ids)] /\ owed \in [Conns -> Seq(Ids)]
      /\ resume \in [Conns -> Ids] /\ replayed \in [Conns -> Seq(Ids)]
      /\ conn \in [Conns -> ConnStates] /\ allowed \in 0..MaxFailedCalls
      /\ \A d \in Conns : Len(send[d]) <= SendCapacity
  BY DEF FeedTypeOK
<1>1. /\ UNCHANGED <<queued, drainer, added, first, sub, lastID, from, batch, fails>>
      /\ UNCHANGED <<broadcast, hub, clients, closed, life>>
  BY DEF Connect, Handle, Register, Replay, Probe, WriteLive, Unregister, Disconnect,
         busVars, streamVars, subVars, hubVars, chanVars
<1>2. FeedCountsInv' /\ OrderInv'
  BY <1>1 DEF FeedCountsInv, OrderInv
<1>3. <<>> \in Seq(Ids) /\ Latest \in Ids /\ Truncated \in Ids /\ <<Truncated>> \in Seq(Ids)
  BY DEF Ids, Latest, Truncated
\* What of a connection a step changes, the states it moves between, and the rest.
<1>4. ASSUME NEW s \in ConnStates \ {"new", "registering"}, conn' = [conn EXCEPT ![c] = s],
             conn[c] # "new", UNCHANGED <<register, unregister, send, live, owed, resume>>,
             replayed' \in [Conns -> Seq(Ids)], allowed' \in 0..MaxFailedCalls, s # "gone",
             conn[c] # "gone", conn[c] # "registering"
      PROVE  FeedInv'
  <2>1. FeedTypeOK'
    BY <1>0, <1>1, <1>4 DEF FeedTypeOK
  <2>2. OnceInv'
    BY <1>0, <1>1, <1>4 DEF OnceInv
  <2>3. BlankInv'
    BY <1>1, <1>4 DEF BlankInv
  <2>4. NoSilentLoss'
    BY <1>0, <1>1, <1>4 DEF NoSilentLoss, Got
  <2>. QED
    BY <1>2, <2>1, <2>2, <2>3, <2>4
<1>5. ASSUME End(c), UNCHANGED <<register, send, allowed>>,
             unregister' \in Seq(Conns), Len(unregister') <= RegisterCapacity
      PROVE  FeedInv'
  <2>1. /\ conn' = [conn EXCEPT ![c] = "gone"] /\ resume' = [resume EXCEPT ![c] = Latest]
        /\ replayed' = [replayed EXCEPT ![c] = <<>>]
        /\ live' = [live EXCEPT ![c] = <<>>] /\ owed' = [owed EXCEPT ![c] = <<>>]
    BY <1>5 DEF End, Move
  <2>2. FeedTypeOK'
    BY <1>0, <1>1, <1>3, <1>5, <2>1 DEF FeedTypeOK, ConnStates
  <2>3. OnceInv'
    BY <1>0, <1>1, <1>5, <2>1 DEF OnceInv
  <2>4. BlankInv'
    BY <1>0, <1>1, <1>5, <2>1 DEF BlankInv
  <2>5. NoSilentLoss'
    BY <1>0, <1>1, <1>5, <2>1 DEF NoSilentLoss, Got
  <2>. QED
    BY <1>2, <2>2, <2>3, <2>4, <2>5
<1>6. CASE Connect(c)
  <2>1. /\ UNCHANGED <<register, unregister, send, live, owed, replayed, allowed>>
        /\ conn[c] = "new"
        /\ \E s \in {"registering", "gone"} : conn' = [conn EXCEPT ![c] = s]
        /\ \E id \in {Latest} \cup 0..added : resume' = [resume EXCEPT ![c] = id]
    BY <1>6 DEF Connect, Move, chanVars
  <2>2. PICK s \in {"registering", "gone"} : conn' = [conn EXCEPT ![c] = s]
    BY <2>1
  <2>3. resume' \in [Conns -> Ids]
    BY <1>0, <1>3, <2>1 DEF Ids
  <2>4. FeedTypeOK'
    BY <1>0, <1>1, <2>1, <2>2, <2>3 DEF FeedTypeOK, ConnStates
  <2>5. c \notin clients \cup closed /\ \A i \in DOMAIN register : register[i] # c
    BY <2>1 DEF OnceInv
  <2>6. OnceInv'
    BY <1>0, <1>1, <2>1, <2>2, <2>5 DEF OnceInv
  <2>7. BlankInv'
    BY <1>1, <2>1 DEF BlankInv
  <2>8. NoSilentLoss'
    BY <1>0, <1>1, <2>1, <2>2, <2>5 DEF NoSilentLoss, Got
  <2>. QED
    BY <1>2, <2>4, <2>6, <2>7, <2>8
<1>7. CASE Register(c)
  <2>1. UNCHANGED <<unregister, send, allowed>> /\ conn[c] = "registering"
    BY <1>7 DEF Register
  <2>2. CASE End(c) /\ UNCHANGED register
    BY <1>0, <1>5, <2>1, <2>2
  <2>3. CASE /\ Len(register) < RegisterCapacity
             /\ register' = Append(register, c)
             /\ conn' = [conn EXCEPT ![c] = "opening"]
             /\ UNCHANGED <<resume, replayed, live, owed>>
    <3>1. /\ register' \in Seq(Conns) /\ Len(register') = Len(register) + 1
          /\ \A i \in 1..Len(register) : register'[i] = register[i]
          /\ register'[Len(register) + 1] = c
          /\ DOMAIN register' = 1..(Len(register) + 1) /\ DOMAIN register = 1..Len(register)
      BY <1>0, <2>3, AppendProperties
    <3>2. FeedTypeOK'
      BY <1>0, <1>1, <2>1, <2>3, <3>1 DEF FeedTypeOK, ConnStates
    <3>3. c \notin clients \cup closed /\ \A i \in DOMAIN register : register[i] # c
      BY <2>1 DEF OnceInv
    <3>4. Len(register) \in Nat
      BY <1>0
    <3>5. \A i, j \in DOMAIN register' : i # j => register'[i] # register'[j]
      BY <3>1, <3>3, <3>4 DEF OnceInv
    <3>6. \A i \in DOMAIN register' : /\ register'[i] \notin clients \cup closed
                                      /\ conn'[register'[i]] \notin {"new", "registering"}
      <4>1. conn'[c] = "opening" /\ \A d \in Conns : d # c => conn'[d] = conn[d]
        BY <1>0, <2>3
      <4>2. ASSUME NEW i \in DOMAIN register
            PROVE  /\ register'[i] \notin clients \cup closed
                   /\ conn'[register'[i]] \notin {"new", "registering"}
        <5>1. register[i] \in Conns /\ register[i] # c /\ register'[i] = register[i]
          BY <1>0, <3>1, <3>3, <4>2
        <5>. QED
          BY <4>1, <5>1 DEF OnceInv
      <4>3. \A i \in DOMAIN register' : i \in DOMAIN register \/ register'[i] = c
        BY <3>1, <3>4
      <4>. QED
        BY <3>3, <4>1, <4>2, <4>3
    <3>7. OnceInv'
      BY <1>0, <1>1, <2>3, <3>5, <3>6 DEF OnceInv
    <3>8. BlankInv'
      BY <1>1, <2>1, <2>3 DEF BlankInv
    <3>9. NoSilentLoss'
      BY <1>0, <1>1, <2>1, <2>3 DEF NoSilentLoss, Got
    <3>. QED
      BY <1>2, <3>2, <3>7, <3>8, <3>9
  <2>. QED
    BY <1>7, <2>2, <2>3 DEF Register, Move, wireVars
<1>8. CASE Replay(c)
  <2>1. conn[c] = "opening" /\ UNCHANGED <<register, unregister, send, live, owed, resume>>
    BY <1>8 DEF Replay, chanVars
  <2>2. \E s \in {"streaming", "probing"} : conn' = [conn EXCEPT ![c] = s]
    BY <1>8 DEF Replay, Move
  <2>3. replayed' \in [Conns -> Seq(Ids)]
    <3>1. Entries(resume[c], ReplayMaxCount) \in Seq(Ids)
      BY <1>0, EntriesAreConsecutive
    <3>. QED
      BY <1>0, <1>8, <3>1 DEF Replay
  <2>4. allowed' \in 0..MaxFailedCalls
    BY <1>0, <1>8 DEF Replay, CallFails
  <2>. QED
    BY <1>4, <2>1, <2>2, <2>3, <2>4 DEF ConnStates
<1>9. CASE Probe(c)
  <2>1. /\ conn[c] = "probing" /\ UNCHANGED <<register, unregister, send, live, owed, resume>>
        /\ conn' = [conn EXCEPT ![c] = "streaming"]
    BY <1>9 DEF Probe, Move, chanVars
  <2>2. replayed' \in [Conns -> Seq(Ids)]
    <3>1. writeMessage(<<>>, Truncated) \in Seq(Ids)
      BY <1>3, AppendProperties DEF writeMessage
    <3>. QED
      BY <1>0, <3>1, <1>9 DEF Probe
  <2>3. allowed' \in 0..MaxFailedCalls
    BY <1>0, <1>9 DEF Probe, CallFails
  <2>. QED
    BY <1>4, <2>1, <2>2, <2>3 DEF ConnStates
<1>10. CASE WriteLive(c)
  <2>1. /\ conn[c] = "streaming"
        /\ UNCHANGED <<register, unregister, owed, resume, replayed, allowed>>
    BY <1>10 DEF WriteLive, chanVars
  <2>2. CASE UNCHANGED <<send, live>> /\ conn' = [conn EXCEPT ![c] = "leaving"]
    BY <1>0, <1>4, <2>1, <2>2 DEF ConnStates
  <2>3. CASE /\ send[c] # <<>>
             /\ send' = [send EXCEPT ![c] = Tail(@)]
             /\ live' = [live EXCEPT ![c] = Append(@, Head(send[c]))]
             /\ UNCHANGED conn
    <3>1. /\ Head(send[c]) \in Ids /\ Tail(send[c]) \in Seq(Ids)
          /\ Len(Tail(send[c])) = Len(send[c]) - 1
      BY <1>0, <2>3, HeadTailProperties
    <3>2. Append(live[c], Head(send[c])) \in Seq(Ids)
      BY <1>0, <3>1, AppendProperties
    <3>3. /\ send' \in [Conns -> Seq(Ids)] /\ live' \in [Conns -> Seq(Ids)]
          /\ send'[c] = Tail(send[c]) /\ live'[c] = Append(live[c], Head(send[c]))
          /\ \A d \in Conns : d # c => send'[d] = send[d] /\ live'[d] = live[d]
      BY <1>0, <2>3, <3>1, <3>2
    <3>4. \A d \in Conns : Len(send'[d]) <= SendCapacity
      <4>1. Len(send[c]) \in Nat /\ Len(send[c]) <= SendCapacity
        BY <1>0
      <4>2. Len(send[c]) - 1 <= SendCapacity
        BY <4>1
      <4>3. Len(send'[c]) <= SendCapacity
        BY <3>1, <3>3, <4>2
      <4>. QED
        BY <1>0, <3>3, <4>3
    <3>5. FeedTypeOK'
      BY <1>0, <1>1, <2>1, <2>3, <3>3, <3>4 DEF FeedTypeOK
    <3>6. OnceInv'
      BY <1>1, <2>1, <2>3 DEF OnceInv
    <3>7. c \in clients \cup closed
      BY <2>3 DEF BlankInv
    <3>8. BlankInv'
      BY <1>1, <2>1, <3>3, <3>7 DEF BlankInv
    <3>9. \A d \in Conns : Got(d)' = Got(d)
      <4>1. live'[c] \o send'[c] = live[c] \o send[c]
        BY <1>0, <2>3, <3>3, WriteMovesOne
      <4>. QED
        BY <3>3, <4>1 DEF Got
    <3>10. NoSilentLoss'
      BY <1>0, <1>1, <2>1, <2>3, <3>9 DEF NoSilentLoss
    <3>. QED
      BY <1>2, <3>5, <3>6, <3>8, <3>10
  <2>. QED
    BY <1>10, <2>2, <2>3 DEF WriteLive, writeMessage, Move
<1>11. CASE Unregister(c)
  <2>1. UNCHANGED <<register, send, allowed>> /\ End(c)
    BY <1>11 DEF Unregister
  <2>2. unregister' \in Seq(Conns) /\ Len(unregister') <= RegisterCapacity
    <3>1. UNCHANGED unregister \/ (/\ Len(unregister) < RegisterCapacity
                                   /\ unregister' = Append(unregister, c))
      BY <1>11 DEF Unregister
    <3>2. Append(unregister, c) \in Seq(Conns) /\ Len(Append(unregister, c)) = Len(unregister) + 1
      BY <1>0, AppendProperties
    <3>3. Len(unregister) < RegisterCapacity => Len(unregister) + 1 <= RegisterCapacity
      <4>1. Len(unregister) \in Nat
        BY <1>0
      <4>. QED
        BY <4>1
    <3>4. CASE UNCHANGED unregister
      BY <1>0, <3>4
    <3>5. CASE Len(unregister) < RegisterCapacity /\ unregister' = Append(unregister, c)
      BY <3>2, <3>3, <3>5
    <3>. QED
      BY <3>1, <3>4, <3>5
  <2>. QED
    BY <1>5, <2>1, <2>2
<1>12. CASE Disconnect(c)
  <2>1. /\ conn[c] = "streaming" /\ conn' = [conn EXCEPT ![c] = "leaving"]
        /\ UNCHANGED <<register, unregister, send, live, owed, resume, replayed, allowed>>
    BY <1>12 DEF Disconnect, Move, chanVars
  <2>. QED
    BY <1>0, <1>4, <2>1 DEF ConnStates
<1>. QED
  BY <1>6, <1>7, <1>8, <1>9, <1>10, <1>11, <1>12 DEF Handle

\* The process is asked to stop, and stops.
LEMMA StopSteps ==
    ASSUME FeedInv, Ask \/ OnStop
    PROVE  FeedInv'
<1>. USE FeedCapacities DEF FeedInv
<1>0. broadcast \in Seq(Ids) /\ Len(broadcast) <= BroadcastCapacity /\ allowed \in 0..MaxFailedCalls
  BY DEF FeedTypeOK
<1>1. /\ UNCHANGED <<queued, drainer, added, first, sub, lastID, from, batch, fails, hub, clients>>
      /\ UNCHANGED <<closed, register, unregister, send, conn, resume, replayed, live, owed>>
  BY DEF Ask, OnStop, busVars, streamVars, subVars, hubVars, chanVars, connVars, wireVars
<1>2. life' \in Lives /\ allowed' \in 0..MaxFailedCalls
  BY <1>0 DEF Ask, OnStop, CallFails, Lives
<1>3. broadcast' \in Seq(Ids) /\ Len(broadcast') <= BroadcastCapacity
  <2>1. \/ UNCHANGED broadcast
        \/ Len(broadcast) < BroadcastCapacity /\ broadcast' = Append(broadcast, Hint)
    BY DEF Ask, OnStop, BroadcastRetryHints, Broadcast, chanVars
  <2>2. Hint \in Ids
    BY DEF Hint, Ids
  <2>3. Append(broadcast, Hint) \in Seq(Ids) /\ Len(Append(broadcast, Hint)) = Len(broadcast) + 1
    BY <1>0, <2>2, AppendProperties
  <2>4. Len(broadcast) < BroadcastCapacity => Len(broadcast) + 1 <= BroadcastCapacity
    <3>1. Len(broadcast) \in Nat
      BY <1>0
    <3>. QED
      BY <3>1
  <2>. QED
    BY <1>0, <2>1, <2>3, <2>4
<1>4. FeedTypeOK'
  BY <1>1, <1>2, <1>3 DEF FeedTypeOK
<1>5. FeedCountsInv' /\ OnceInv' /\ BlankInv' /\ OrderInv'
  BY <1>1 DEF FeedCountsInv, OnceInv, BlankInv, OrderInv
<1>6. NoSilentLoss'
  BY <1>1 DEF NoSilentLoss, Got
<1>. QED
  BY <1>4, <1>5, <1>6

\* Bus and subscriber leave the connections alone.
LEMMA FarSteps ==
    ASSUME FeedInv, UNCHANGED <<hubVars, register, send, connVars, owed>>
    PROVE  OnceInv' /\ BlankInv' /\ NoSilentLoss'
<1>1. UNCHANGED <<hub, clients, closed, register, send, conn, live, owed>>
  BY DEF hubVars, connVars, wireVars
<1>2. OnceInv' /\ BlankInv'
  BY <1>1 DEF FeedInv, OnceInv, BlankInv
<1>3. NoSilentLoss'
  BY <1>1 DEF FeedInv, NoSilentLoss, Got
<1>. QED
  BY <1>2, <1>3

\* Every step keeps the invariant.
LEMMA NextFeedInv == FeedInv /\ [FeedNext]_feedVars => FeedInv'
<1>. SUFFICES ASSUME FeedInv, [FeedNext]_feedVars PROVE FeedInv'
  OBVIOUS
<1>1. CASE Publish \/ BusStep
  <2>1. /\ FeedTypeOK' /\ FeedCountsInv' /\ first <= first'
        /\ UNCHANGED <<subVars, hubVars, chanVars, send, connVars, owed>>
    BY <1>1, BusTypes
  <2>2. UNCHANGED <<sub, lastID, from, batch, register>>
    BY <2>1 DEF subVars, chanVars
  <2>3. first \in Nat /\ first' \in Nat
    BY <2>1, FeedCapacities DEF FeedInv, FeedTypeOK
  <2>4. OrderInv'
    <3>1. ASSUME sub = "casting", lastID # Latest, NEW id \in (lastID + 1)..(batch[1] - 1)
          PROVE  id < first'
      <4>1. id < first
        BY <3>1 DEF FeedInv, OrderInv
      <4>2. id \in Int
        OBVIOUS
      <4>. QED
        BY <2>1, <2>3, <4>1, <4>2
    <3>. QED
      BY <2>2, <3>1 DEF FeedInv, OrderInv
  <2>. QED
    BY <2>1, <2>2, <2>4, FarSteps DEF FeedInv
<1>2. CASE SubStep
  BY <1>2, SubTypes, FarSteps DEF FeedInv
<1>3. CASE HubStep
  BY <1>3, HubTurns, HubSends DEF HubStep
<1>4. CASE \E c \in Conns : Connect(c) \/ Handle(c) \/ Disconnect(c)
  BY <1>4, ConnSteps
<1>5. CASE Ask \/ OnStop
  BY <1>5, StopSteps
<1>6. CASE UNCHANGED feedVars
  <2>1. /\ UNCHANGED <<queued, drainer, added, first, sub, lastID, from, batch, fails, hub, clients>>
        /\ UNCHANGED <<closed, register, unregister, broadcast, send, conn, resume, replayed, live>>
        /\ UNCHANGED <<life, allowed, owed>>
    BY <1>6 DEF feedVars, busVars, streamVars, subVars, hubVars, chanVars, connVars, wireVars
  <2>2. FeedTypeOK' /\ FeedCountsInv' /\ OrderInv'
    BY <2>1 DEF FeedInv, FeedTypeOK, FeedCountsInv, OrderInv
  <2>3. UNCHANGED <<hubVars, register, send, connVars, owed>>
    BY <2>1 DEF hubVars, connVars, wireVars
  <2>. QED
    BY <2>2, <2>3, FarSteps DEF FeedInv
<1>7. CASE Rest
  BY <1>6, <1>7 DEF Rest
<1>. QED
  BY <1>1, <1>2, <1>3, <1>4, <1>5, <1>6, <1>7 DEF FeedNext

LEMMA SpecFeedInv == FeedSpec => []FeedInv
<1>. QED
  BY InitFeedInv, NextFeedInv, PTL DEF FeedSpec

-----------------------------------------------------------------------------
(* What the feed promises *)

\* Whatever closes a client's Send, a slow reader, its own unregister or the
\* shutdown, the hub has it in its map no longer, so it is closed once.
THEOREM FeedOpenWhileRegistered == FeedSpec => []OpenWhileRegistered
<1>1. FeedInv => OpenWhileRegistered
  BY DEF FeedInv, OnceInv, OpenWhileRegistered
<1>. QED
  BY <1>1, SpecFeedInv, PTL

\* Any number of clients, of whatever speed: who is kept gets every message in
\* order, and who is dropped got all of them up to some point.
THEOREM FeedLosesNothingSilently == FeedSpec => []NoSilentLoss
<1>1. FeedInv => NoSilentLoss
  BY DEF FeedInv
<1>. QED
  BY <1>1, SpecFeedInv, PTL

\* However long the stream, however it is trimmed and whatever calls fail, the
\* subscriber moves forward, and past nothing but what was trimmed.
THEOREM FeedRelaysInOrder == FeedSpec => RelayedInOrder
<1>. DEFINE Forward == lastID' # lastID =>
                         /\ lastID' > lastID
                         /\ lastID # Latest => \A id \in lastID + 1..lastID' - 1 : id < first
<1>1. FeedInv /\ [FeedNext]_feedVars => [Forward]_feedVars
  <2>. SUFFICES ASSUME FeedInv, FeedNext, lastID' # lastID
                PROVE  /\ lastID' > lastID
                       /\ lastID # Latest => \A id \in lastID + 1..lastID' - 1 : id < first
    OBVIOUS
  <2>1. ~(Publish \/ BusStep)
    BY DEF Publish, BusStep, DrainBus, DrainerStop, subVars
  <2>2. ~HubStep
    BY DEF HubStep, TakeRegister, TakeUnregister, TakeBroadcast, HubStop, subVars
  <2>3. ~(\E c \in Conns : Connect(c) \/ Handle(c) \/ Disconnect(c))
    BY DEF Connect, Handle, Register, Replay, Probe, WriteLive, Unregister, Disconnect, subVars
  <2>4. ~(Ask \/ OnStop \/ Rest)
    BY DEF Ask, OnStop, Rest, feedVars, subVars
  <2>5. SubStep
    BY <2>1, <2>2, <2>3, <2>4 DEF FeedNext
  <2>6. Cast /\ lastID' = Head(batch) /\ sub = "casting"
    BY <2>5 DEF SubStep, StartRead, EndRead, FailRead, Resume, Cast
  <2>7. batch \in Seq(Ids) /\ batch # <<>> /\ Head(batch) = batch[1]
    BY <2>6 DEF FeedInv, FeedTypeOK, OrderInv
  <2>. QED
    BY <2>6, <2>7 DEF FeedInv, OrderInv
<1>2. FeedSpec => [][Forward]_feedVars
  BY <1>1, SpecFeedInv, PTL DEF FeedSpec
<1>. QED
  BY <1>2 DEF RelayedInOrder
=============================================================================
