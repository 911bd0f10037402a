---------------------------- MODULE HotInventory ----------------------------
(***************************************************************************)
(* Redis as a cache that can be lost: the creation of an event with its    *)
(* ticket type and Redis keys, the bookings that use the keys, the loss of *)
(* Redis data, the rehydration every pod runs before it serves, and the    *)
(* detector that compares Redis with Postgres.                             *)
(*                                                                         *)
(* One event with one ticket type. The steps of an order are those of      *)
(* Reservation and Saga, cut down to what they do to the two inventories.  *)
(***************************************************************************)
EXTENDS Catalog

CONSTANTS Pods,        \* the server processes
          NoPod,       \* nobody holds advisory lock 2001
          Tolerance,   \* DriftConfig.AbsoluteTolerance
          MaxConsecutiveFailures,  \* sweeps that fail in a row and end the process
          MaxFaults    \* failures and losses in one behaviour (a bound)

ASSUME HotInventoryAssumption ==
    /\ NoPod \notin Pods
    /\ Tolerance \in Nat
    /\ MaxConsecutiveFailures \in Nat \ {0}
    /\ MaxFaults \in Nat

VARIABLES row,        \* the rows of events and event_ticket_types: "none", "live", "deleted"
          available,  \* event_ticket_types.available_tickets
          creator,    \* how far CreateEvent has come
          key,        \* ticket_type_qty:<id>; Absent without one
          meta,       \* ticket_type_meta:<id> is there
          group,      \* orders:stream has its consumer group
          reverted,   \* the orders with a saga:reverted key
          order,      \* [Orders -> OrderStates]
          pods,       \* [Pods -> PodStates]
          lock,       \* the holder of the advisory lock
          seen,       \* [Pods -> Nat]: available_tickets as ListByEventID read it
          dog,        \* the detector: "idle", "listed", or its process is "down"
          failures,   \* sweeps that failed in a row
          dbSeen,     \* available_tickets as its sweep read it
          gauge,      \* inventory_drifted_events: 0 or 1
          astray,     \* history: the key was not set to what Redis should have
          budget      \* the failures that may still happen

cacheVars == <<key, meta, group, reverted>>
podVars == <<pods, lock, seen>>
dogVars == <<dog, failures, dbSeen, gauge>>
vars == <<row, available, creator, cacheVars, order, podVars, dogVars, astray, budget>>

Absent == -1

\* An order is queued in the stream, taken by a worker, given up by it and to be
\* reverted, held by a row of orders, or released in Postgres and to be reverted.
\* A lost one went with the stream, a skipped one was in it when the group was
\* made anew.
OrderStates == {"new", "queued", "taken", "given_up", "held", "released",
                "closed", "lost", "skipped"}
CreatorStates == {"new", "seeding", "deleting", "created", "failed", "unknown", "dangling", "dead"}
PodStates == {"down", "locking", "listing", "seeding", "up", "draining"}

TypeOK ==
    /\ row \in {"none", "live", "deleted"}
    /\ available \in 0..TotalTickets
    /\ creator \in CreatorStates
    /\ key \in Nat \cup {Absent}
    /\ meta \in BOOLEAN /\ group \in BOOLEAN /\ astray \in BOOLEAN
    /\ reverted \subseteq Orders
    /\ order \in [Orders -> OrderStates]
    /\ pods \in [Pods -> PodStates]
    /\ lock \in Pods \cup {NoPod}
    /\ seen \in [Pods -> 0..TotalTickets]
    /\ dog \in {"idle", "listed", "down"} /\ dbSeen \in 0..TotalTickets /\ gauge \in {0, 1}
    /\ failures \in 0..MaxConsecutiveFailures
    /\ budget \in 0..MaxFaults

Init ==
    /\ row = "none" /\ available = 0 /\ creator = "new"
    /\ key = Absent /\ meta = FALSE /\ group = TRUE /\ reverted = {}
    /\ order = [o \in Orders |-> "new"]
    /\ pods = [p \in Pods |-> "down"] /\ lock = NoPod /\ seen = [p \in Pods |-> 0]
    /\ dog = "idle" /\ failures = 0 /\ dbSeen = 0 /\ gauge = 0
    /\ astray = FALSE
    /\ budget = MaxFaults

Fault == budget > 0 /\ budget' = budget - 1

\* A pod's listener is open until it has drained, its workers run until then.
Serving == \E p \in Pods : pods[p] \in {"up", "draining"}
Working == \E p \in Pods : pods[p] = "up"

\* events.available_tickets is frozen, so an event is listed while it has a row.
ListAvailable == row = "live"

GetInventory == [found |-> key # Absent, qty |-> IF key = Absent THEN 0 ELSE key]

-----------------------------------------------------------------------------
(* event.service.CreateEvent *)

InsertRows == row' = "live" /\ available' = TotalTickets

\* The unit of work with both inserts. If its commit is lost it fails although
\* the rows are there.
Create ==
    /\ creator = "new" /\ Serving
    /\ \/ InsertRows /\ creator' = "seeding" /\ UNCHANGED budget
       \/ Fault /\ InsertRows /\ creator' = "unknown"
       \/ Fault /\ UNCHANGED <<row, available>> /\ creator' = "failed"
    /\ UNCHANGED <<cacheVars, order, podVars, dogVars, astray>>

\* SetTicketTypeRuntime: one MULTI with HSET and SET.
SetTicketTypeRuntime ==
    /\ creator = "seeding"
    /\ \/ /\ key' = TotalTickets /\ meta' = TRUE
          /\ \/ creator' = "created" /\ UNCHANGED budget
             \/ creator' = "deleting" /\ Fault
       \/ /\ Fault
          /\ creator' = "deleting"
          /\ UNCHANGED <<key, meta>>
    /\ UNCHANGED <<row, available, group, reverted, order, podVars, dogVars, astray>>

\* Mutant of compensateDanglingEvent: its error is logged, and no more.
DeleteBestEffort ==
    /\ creator = "deleting"
    /\ creator' = "failed"
    /\ \/ row' = "deleted" /\ UNCHANGED budget
       \/ Fault /\ UNCHANGED row
    /\ UNCHANGED <<available, cacheVars, order, podVars, dogVars, astray>>

\* Both rows are deleted in one unit of work; if that fails, so the caller is told.
compensateDanglingEvent ==
    /\ creator = "deleting"
    /\ \/ row' = "deleted" /\ creator' = "failed" /\ UNCHANGED budget
       \/ Fault /\ row' \in {row, "deleted"} /\ creator' = "dangling"
    /\ UNCHANGED <<available, cacheVars, order, podVars, dogVars, astray>>

\* The process dies after the commit.
CreatorDies ==
    /\ creator \in {"seeding", "deleting"}
    /\ Fault
    /\ creator' = "dead"
    /\ UNCHANGED <<row, available, cacheVars, order, podVars, dogVars, astray>>

-----------------------------------------------------------------------------
(* The orders *)

Becomes(o, s) == order' = [order EXCEPT ![o] = s]

\* What Redis has taken and Postgres does not know of, or no longer has.
InFlight == {o \in Orders : order[o] \in {"queued", "taken", "given_up", "skipped", "released"}}
                \ reverted

\* BookTicket, once someone knows the ids. deduct.lua on a key that is gone
\* makes it 0 and answers sold out. Without the metadata it is read again from
\* Postgres, and the script run again.
Book(o) ==
    /\ order[o] = "new" /\ Serving
    /\ creator \notin {"new", "seeding", "deleting"}
    /\ \/ /\ key = Absent
          /\ key' = 0 /\ astray' = TRUE
          /\ UNCHANGED <<meta, order>>
       \/ /\ key >= QuantityOf[o] /\ meta
          /\ key' = key - QuantityOf[o]
          /\ Becomes(o, "queued")
          /\ UNCHANGED <<meta, astray>>
       \/ /\ key >= QuantityOf[o] /\ ~meta
          /\ row = "live"
          /\ meta' = TRUE
          /\ UNCHANGED <<key, order, astray>>
    /\ UNCHANGED <<row, available, creator, group, reverted, podVars, dogVars, budget>>

\* XREADGROUP.
Take(o) ==
    /\ order[o] = "queued" /\ group /\ Working
    /\ Becomes(o, "taken")
    /\ UNCHANGED <<row, available, creator, cacheVars, podVars, dogVars, astray, budget>>

\* EnsureGroup after NOGROUP: the group begins at "$", the end of the stream.
EnsureGroup ==
    /\ ~group /\ Working
    /\ group' = TRUE
    /\ order' = [o \in Orders |-> IF order[o] = "queued" THEN "skipped" ELSE order[o]]
    /\ UNCHANGED <<row, available, creator, key, meta, reverted, podVars, dogVars, astray, budget>>

DecrementTicket(o) ==
    /\ available >= QuantityOf[o]
    /\ available' = available - QuantityOf[o]

\* The worker's unit of work, or its giving up.
Write(o) ==
    /\ order[o] = "taken" /\ Working
    /\ \/ row = "live" /\ DecrementTicket(o) /\ Becomes(o, "held")
       \/ Becomes(o, "given_up") /\ UNCHANGED available
    /\ UNCHANGED <<row, creator, cacheVars, podVars, dogVars, astray, budget>>

\* The compensator's unit of work, for an order that was not paid.
Release(o) ==
    /\ order[o] = "held" /\ Working
    /\ available' = available + QuantityOf[o]
    /\ Becomes(o, "released")
    /\ UNCHANGED <<row, creator, cacheVars, podVars, dogVars, astray, budget>>

\* Mutant of revert: a quantity that is gone is begun again from nothing.
revertFromNothing(o) ==
    /\ key' = IF o \in reverted THEN key
              ELSE IF key = Absent THEN QuantityOf[o] ELSE key + QuantityOf[o]
    /\ reverted' = reverted \cup {o}

\* revert.lua: a quantity that is gone stays gone.
revert(o) ==
    /\ key' = IF o \in reverted \/ key = Absent THEN key ELSE key + QuantityOf[o]
    /\ reverted' = reverted \cup {o}

\* RevertInventory, repeated until its reply arrives.
RevertInventory(o) ==
    /\ order[o] \in {"given_up", "released"} /\ Working
    /\ \/ revert(o) /\ Becomes(o, "closed") /\ UNCHANGED budget
       \/ Fault /\ o \notin reverted /\ revert(o) /\ UNCHANGED order
    /\ UNCHANGED <<row, available, creator, meta, group, podVars, dogVars, astray>>

\* Redis loses everything: a restart without its files, or FLUSHALL.
Flush ==
    /\ Fault
    /\ key' = Absent /\ meta' = FALSE /\ group' = FALSE /\ reverted' = {}
    /\ order' = [o \in Orders |-> IF order[o] = "queued" THEN "lost" ELSE order[o]]
    /\ UNCHANGED <<row, available, creator, podVars, dogVars, astray>>

\* inventoryTTL: both keys were written with it.
Expire ==
    /\ Fault
    /\ \/ key' = Absent /\ UNCHANGED meta
       \/ meta' = FALSE /\ UNCHANGED key
    /\ UNCHANGED <<row, available, creator, group, reverted, order, podVars, dogVars, astray>>

-----------------------------------------------------------------------------
(* RehydrateInventory, the OnStart hook before the server's *)

PodGoes(p, s) == pods' = [pods EXCEPT ![p] = s]

Unlock(p) == lock' = IF lock = p THEN NoPod ELSE lock

Forget(p) == seen' = [seen EXCEPT ![p] = 0]

StartPod(p) ==
    /\ pods[p] = "down"
    /\ PodGoes(p, "locking")
    /\ UNCHANGED <<row, available, creator, cacheVars, order, lock, seen, dogVars, astray, budget>>

\* TryLock: whoever does not get it serves at once.
TryLock(p) ==
    /\ pods[p] = "locking"
    /\ \/ lock = NoPod /\ lock' = p /\ PodGoes(p, "listing")
       \/ lock # NoPod /\ PodGoes(p, "up") /\ UNCHANGED lock
    /\ UNCHANGED <<row, available, creator, cacheVars, order, seen, dogVars, astray, budget>>

\* ListAvailable and ListByEventID.
ListEvents(p) ==
    /\ pods[p] = "listing"
    /\ \/ /\ ListAvailable
          /\ seen' = [seen EXCEPT ![p] = available]
          /\ PodGoes(p, "seeding")
          /\ UNCHANGED lock
       \/ /\ ~ListAvailable
          /\ PodGoes(p, "up") /\ Unlock(p)
          /\ UNCHANGED seen
    /\ UNCHANGED <<row, available, creator, cacheVars, order, dogVars, astray, budget>>

\* Mutant of SetIfMissing: SET in the place of SETNX.
SetAnyway(p) == key' = seen[p] /\ UNCHANGED astray

\* SETNX. The value is right if nothing is between Redis and Postgres and the
\* row is still as it was read.
SetIfMissing(p) ==
    IF key # Absent THEN UNCHANGED <<key, astray>>
    ELSE /\ key' = seen[p]
         /\ astray' = ~(InFlight = {} /\ seen[p] = available)

\* HSET, EXPIRE and SETNX, then serve.
SeedRuntime(p) ==
    /\ pods[p] = "seeding"
    /\ meta' = TRUE
    /\ SetIfMissing(p)
    /\ PodGoes(p, "up") /\ Unlock(p) /\ Forget(p)
    /\ UNCHANGED <<row, available, creator, group, reverted, order, dogVars, budget>>

\* shutdownAll: the context of the workers first, then the listener.
Drain(p) ==
    /\ pods[p] = "up"
    /\ PodGoes(p, "draining")
    /\ UNCHANGED <<row, available, creator, cacheVars, order, lock, seen, dogVars, astray, budget>>

\* The pod has drained, or it dies; a start that meets a failed statement is
\* given up.
StopPod(p) ==
    /\ \/ pods[p] = "draining" /\ UNCHANGED budget
       \/ pods[p] # "down" /\ Fault
    /\ PodGoes(p, "down") /\ Unlock(p) /\ Forget(p)
    /\ UNCHANGED <<row, available, creator, cacheVars, order, dogVars, astray>>

\* Postgres ends the session of the lock; the pod does not notice.
LoseSession ==
    /\ lock # NoPod
    /\ Fault
    /\ lock' = NoPod
    /\ UNCHANGED <<row, available, creator, cacheVars, order, pods, seen, dogVars, astray>>

-----------------------------------------------------------------------------
(* InventoryDriftDetector *)

\* The loop around Sweep counts the sweeps that failed in a row; too many end the
\* process.
SweepFailed ==
    /\ gauge' = 0
    /\ failures' = failures + 1
    /\ dog' = IF failures' = MaxConsecutiveFailures THEN "down" ELSE "idle"

\* Sweep: list. Without events, or if they cannot be listed, the gauge is reset.
SweepList ==
    /\ dog = "idle"
    /\ \/ /\ ListAvailable
          /\ dog' = "listed" /\ dbSeen' = available
          /\ UNCHANGED <<failures, gauge, budget>>
       \/ /\ ~ListAvailable
          /\ gauge' = 0 /\ failures' = 0
          /\ UNCHANGED <<dog, dbSeen, budget>>
       \/ /\ Fault
          /\ SweepFailed
          /\ UNCHANGED dbSeen
    /\ UNCHANGED <<row, available, creator, cacheVars, order, podVars, astray>>

\* Mutant of IsDrift: an absent key is taken for a quantity of 0.
IsDriftOfZero(db, cache) == cache.qty > db \/ db - cache.qty > Tolerance

\* checkTicketType: cache_missing, cache_high, cache_low_excess.
IsDrift(db, cache) ==
    \/ ~cache.found /\ db > 0
    \/ cache.qty > db
    \/ db - cache.qty > Tolerance

\* Only the metadata, which never changes; the key is left to the next pod.
autoRehydrate ==
    \/ meta' = TRUE /\ ~GetInventory.found /\ dbSeen > 0
    \/ UNCHANGED meta

\* checkOne, with the row as it was listed and the key as it is now. A key that
\* cannot be read is skipped.
CheckOne ==
    /\ dog = "listed"
    /\ dog' = "idle" /\ dbSeen' = 0 /\ failures' = 0
    /\ \/ /\ gauge' = IF IsDrift(dbSeen, GetInventory) THEN 1 ELSE 0
          /\ autoRehydrate
          /\ UNCHANGED budget
       \/ /\ Fault
          /\ gauge' = 0
          /\ UNCHANGED meta
    /\ UNCHANGED <<row, available, creator, key, group, reverted, order, podVars, astray>>

\* The detector's process dies or is told to stop; a sweep that was under way
\* ends without touching the gauge.
StopDog ==
    /\ dog # "down"
    /\ Fault
    /\ dog' = "down" /\ dbSeen' = 0
    /\ UNCHANGED <<row, available, creator, cacheVars, order, podVars, failures, gauge, astray>>

\* Its gauge begins at nothing, and it sweeps at once.
StartDog ==
    /\ dog = "down"
    /\ dog' = "idle" /\ failures' = 0 /\ gauge' = 0
    /\ UNCHANGED <<row, available, creator, cacheVars, order, podVars, dbSeen, astray, budget>>

-----------------------------------------------------------------------------
CreateEvent == Create \/ SetTicketTypeRuntime \/ compensateDanglingEvent
Work(o) == Take(o) \/ Write(o) \/ RevertInventory(o)
Rehydrate(p) == TryLock(p) \/ ListEvents(p) \/ SeedRuntime(p)
Sweep == SweepList \/ CheckOne \/ StartDog

Next ==
    \/ CreateEvent \/ CreatorDies
    \/ \E o \in Orders : Book(o) \/ Work(o) \/ Release(o)
    \/ EnsureGroup \/ Flush \/ Expire \/ LoseSession
    \/ \E p \in Pods : StartPod(p) \/ Rehydrate(p) \/ Drain(p) \/ StopPod(p)
    \/ Sweep \/ StopDog

Spec == Init /\ [][Next]_vars

\* Creation and workers go on, a pod that starts goes on starting, and the
\* detector ticks, in a process that is started again. Nobody has to book, and
\* no pod has to be replaced.
FairSpec ==
    /\ Spec
    /\ WF_vars(CreateEvent) /\ WF_vars(EnsureGroup) /\ WF_vars(Sweep)
    /\ \A o \in Orders : WF_vars(Work(o))
    /\ \A p \in Pods : WF_vars(Rehydrate(p))

-----------------------------------------------------------------------------
(* What creation, rehydration and the detector promise *)

\* A created event has its rows and, as long as nothing failed or was lost, its
\* keys. One whose creation is reported as failed left no rows, unless the report
\* says they may be left (a lost commit, or a compensation that failed as well);
\* keys it may leave.
CreatedOrGone ==
    /\ creator = "created" => row = "live" /\ (budget = MaxFaults => key # Absent /\ meta)
    /\ creator = "failed" => row # "live"

\* Redis has what Postgres has but for what is in flight between them, through
\* any number of rehydrations by any number of pods, as long as a key that was
\* lost came back with nothing in flight and before anyone tried to book.
Ledger ==
    row = "live" /\ key # Absent /\ ~astray =>
        key + Cardinality(Tickets(InFlight)) = available

\* Redis has more than Postgres, or less by more than is tolerated.
Apart == IF key = Absent THEN available > 0 ELSE key \notin (available - Tolerance)..available

\* Whatever state the two inventories end in, the detector's gauge comes to say
\* so and stays with it: no lasting drift is hidden, none is reported without
\* being there.
GaugeSettles == <>[](gauge = 1 <=> row = "live" /\ Apart)
=============================================================================
