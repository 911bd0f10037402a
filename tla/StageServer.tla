----------------------------- MODULE StageServer -----------------------------
(***************************************************************************)
(* The server process of one stage: it creates the event, serves it, and   *)
(* may be told to stop, once in a behaviour. To stop in order is to refuse *)
(* new requests, let those under way finish, and cancel the context of     *)
(* what runs in the background. The order differs:                         *)
(*   Stages 1, 2  two fx hooks, undone last first: the sweeper is cancelled*)
(*                and waited for while requests still arrive               *)
(*   Stage 3      worker and sweeper are cancelled, then the listener      *)
(*   Stage 5      the listener first: no message is published behind the   *)
(*                consumer's back                                          *)
(* A process that takes longer than it is given is cut off.                *)
(***************************************************************************)
EXTENDS SyncStages

VARIABLES event,       \* how far POST /events has come, and its answer
          rows,        \* events and event_ticket_types have the event
          keys,        \* its keys are in Redis
          life,        \* "up", told to stop, started "again", or "cut" off and started
          listening,   \* new requests are accepted
          running      \* the context of the background is not cancelled

eventVars == <<event, rows, keys>>
lifeVars == <<life, listening, running>>
serverVars == <<syncVars, eventVars, lifeVars>>

EventStates == {"asked", "hydrating", "undoing", "created", "rolled_back", "dangling", "refused"}

ServerTypeOK ==
    /\ StagesTypeOK
    /\ event \in EventStates
    /\ rows \in BOOLEAN /\ keys \in BOOLEAN
    /\ life \in {"up", "stopping", "again", "cut"}
    /\ listening \in BOOLEAN /\ running \in BOOLEAN

ServerInit ==
    /\ StagesInit
    /\ event = "asked" /\ rows = FALSE /\ keys = FALSE
    /\ life = "up" /\ listening = TRUE /\ running = TRUE

-----------------------------------------------------------------------------
(* POST /events: a transaction, then the keys, and the compensation of the    *)
(* one when the other fails. It happens once, so its failures need no bound.  *)

InsertEvent ==
    /\ event = "asked"
    /\ \/ rows' = TRUE /\ event' = IF stage = 1 THEN "created" ELSE "hydrating"
       \/ rows' \in BOOLEAN /\ event' = "refused"   \* also when the commit's reply is lost
    /\ UNCHANGED keys

\* Mutant of Hydrate: best effort, as repairRuntimeMetadata is.
HydrateBestEffort ==
    /\ event = "hydrating"
    /\ event' = "created"
    /\ keys' \in BOOLEAN
    /\ UNCHANGED rows

\* SetTicketTypeRuntime, whose failure may come after its effect.
Hydrate ==
    /\ event = "hydrating"
    /\ \/ keys' = TRUE /\ event' = "created"
       \/ keys' \in BOOLEAN /\ event' = "undoing"
    /\ UNCHANGED rows

\* compensateDanglingEvent: both DELETEs in one transaction.
UndoEvent ==
    /\ event = "undoing"
    /\ \/ rows' = FALSE /\ event' = "rolled_back"
       \/ rows' \in BOOLEAN /\ event' = "dangling"
    /\ UNCHANGED keys

CreateEvent ==
    /\ InsertEvent \/ Hydrate \/ UndoEvent
    /\ UNCHANGED <<syncVars, lifeVars>>

-----------------------------------------------------------------------------
(* Serving *)

\* The step begins a request.
Enters ==
    \/ \E o \in Orders : api[o] = "new" /\ api'[o] # "new"
    \/ intent' # intent
    \/ ~(confirming' \subseteq confirming)
    \/ \E a \in Confirmers : comp[a] = "idle" /\ comp'[a] # "idle"

\* The step begins work in the background: a sweep, the next of its orders, a
\* message, a worker.
Begins == swept' # swept \/ fetched' > fetched \/ mode' # mode

\* What the process may do: the listener decides about requests, the context
\* about the background.
Served ==
    /\ event = "created"
    /\ Enters => listening
    /\ Begins => running
    /\ UNCHANGED <<eventVars, lifeVars>>

ServeBook(o) == event = "created" /\ UNCHANGED stage /\ BookIn(o) /\ Served

ServePay(o) == UNCHANGED <<stage, workVars>> /\ (PayIntent(o) \/ StartConfirm(o)) /\ Served

ServeConfirm(o) == UNCHANGED <<stage, workVars>> /\ Confirm(o) /\ Served

ServeFailed(a) == UNCHANGED stage /\ CompensateIn(a) /\ Served

FinishFailed(a) == UNCHANGED stage /\ FinishConfirm(a) /\ Served

RunSweeper ==
    /\ UNCHANGED stage
    /\ (ListOverdue /\ UNCHANGED workVars) \/ CompensateIn(Sweeper)
    /\ Served

RunConsumer == event = "created" /\ UNCHANGED stage /\ ConsumeIn /\ Served

-----------------------------------------------------------------------------
(* Stopping *)

\* Mutant of Drained: srv.Close instead of srv.Shutdown, which waits for none.
NotDrained == TRUE

\* Every request is answered: srv.Shutdown returns.
Drained ==
    /\ \A o \in Orders : api[o] \notin InRequest
    /\ confirming = {}
    /\ \A a \in Confirmers : comp[a] = "idle"

SweeperIdle == swept = {} /\ comp[Sweeper] = "idle"

\* SIGTERM: fx calls the first OnStop hook.
AskToStop ==
    /\ life = "up"
    /\ event = "created"
    /\ Fault("stop")
    /\ life' = "stopping"
    /\ IF stage = 5
       THEN listening' = FALSE /\ UNCHANGED <<running, workVars>>
       ELSE /\ running' = FALSE
            /\ UNCHANGED listening
            /\ IF stage = 3 THEN WorkersDie ELSE UNCHANGED workVars
    /\ UNCHANGED <<stage, phase, pgVars, redisVars, apiVars, queueVars, counted, payVars, compVars,
                   eventVars>>

\* The next step of the order: srv.Shutdown, or the end of the context.
StopOther ==
    /\ life = "stopping"
    /\ \/ /\ stage # 5
          /\ listening
          /\ stage \in {1, 2} => SweeperIdle
          /\ listening' = FALSE
          /\ UNCHANGED running
       \/ /\ stage = 5
          /\ running
          /\ Drained
          /\ running' = FALSE
          /\ UNCHANGED listening
    /\ UNCHANGED <<life, syncVars, eventVars>>

\* The sweeper's calls fail with its context: its transaction is rolled back and
\* the orders it listed wait for the next process.
AbortSweep ==
    /\ ~running
    /\ ~SweeperIdle
    /\ swept' = {}
    /\ Unlock(Sweeper)
    /\ UNCHANGED <<stage, budget, phase, pgVars, redisVars, apiVars, queueVars, counted, payVars,
                   workVars, eventVars, lifeVars>>

\* The consumer's transaction fails with its context. What comes after it, the
\* revert and the commit of the offset, has a context of its own.
AbortProcess ==
    /\ ~running
    /\ at = "process"
    /\ Leave
    /\ UNCHANGED <<stage, budget, phase, pgVars, redisVars, apiVars, topic, committed, fetched,
                   counted, payVars, compVars, workVars, eventVars, lifeVars>>

StartAgain(how) ==
    /\ life = "stopping"
    /\ life' = how /\ listening' = TRUE /\ running' = TRUE
    /\ Restart
    /\ UNCHANGED <<stage, budget, eventVars>>

\* Every hook has returned, and the next process starts.
Exit ==
    /\ ~listening /\ ~running
    /\ Drained /\ SweeperIdle /\ at = "fetch"
    /\ StartAgain("again")
    /\ UNCHANGED workVars

\* A hook takes longer than its deadline, and the process ends all the same.
CutOff == StartAgain("cut") /\ WorkersDie

Die ==
    /\ life # "stopping"
    /\ event = "created"
    /\ UNCHANGED <<stage, eventVars, lifeVars>>
    /\ Crash /\ WorkersDie

Stopping == StopOther \/ AbortSweep \/ AbortProcess \/ Exit

-----------------------------------------------------------------------------
Elapse(o) == Clock(o) /\ UNCHANGED <<stage, workVars, eventVars, lifeVars>>

ExpireMetadata ==
    /\ stage # 1
    /\ EvictMetadata
    /\ UNCHANGED <<stage, workVars, eventVars, lifeVars>>

\* Nothing is left to do, or the event never came to be.
ServerRest ==
    /\ \/ StagesAtRest /\ life # "stopping"
       \/ event \in {"rolled_back", "dangling", "refused"}
    /\ UNCHANGED serverVars

ServerNext ==
    \/ CreateEvent
    \/ \E o \in Orders : ServeBook(o) \/ ServePay(o) \/ ServeConfirm(o) \/ Elapse(o)
    \/ RunSweeper \/ RunConsumer
    \/ \E a \in Confirmers : ServeFailed(a)
    \/ AskToStop \/ Stopping \/ CutOff \/ Die
    \/ ExpireMetadata \/ ServerRest

ServerSpec == ServerInit /\ [][ServerNext]_serverVars

\* A server finishes its requests and what it holds a lock for, consumes, sweeps,
\* and stops when it has begun to.
ServerFairSpec ==
    /\ ServerSpec
    /\ \A o \in Orders : WF_serverVars(ServeBook(o)) /\ WF_serverVars(ServeConfirm(o))
    /\ WF_serverVars(RunSweeper)
    /\ WF_serverVars(RunConsumer)
    /\ \A a \in Confirmers : WF_serverVars(FinishFailed(a))
    /\ WF_serverVars(Stopping)

-----------------------------------------------------------------------------
(* What the server promises *)

\* An event whose creation was answered with success can be sold, in Postgres and
\* in Redis, and one reported as rolled back has left nothing in Postgres. Without
\* its keys it would be sold out for ever.
AnsweredIsTrue ==
    /\ event = "created" => rows /\ (stage # 1 => keys)
    /\ event = "rolled_back" => ~rows

\* A stop in order loses no ticket: if nothing else went wrong, then at rest what
\* Redis offers is what the orders leave of it that were not given back. Stage 3
\* is not held to it: its worker acknowledges with the context that was cancelled,
\* so a message whose order was just committed is taken up again and given back.
StopLosesNothing ==
    /\ StagesAtRest
    /\ \/ life = "up" /\ budget = MaxFaults
       \/ life = "again" /\ budget = MaxFaults - 1 /\ stage # 3
    => qty = TotalTickets - (IF stage = 1 THEN 0 ELSE Cardinality(Tickets(Stage2Keeping)))
=============================================================================
