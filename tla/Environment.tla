----------------------------- MODULE Environment -----------------------------
(***************************************************************************)
(* What the program does not control: the wall clock against which every   *)
(* reservation is judged, and the failures of the processes, of Redis, of  *)
(* Postgres and of Kafka.                                                  *)
(*                                                                         *)
(* The clock is kept per order, as the relation between its reserved_until *)
(* and NOW(): a reservation is open, then lapsed (reserved_until <= NOW()),*)
(* then overdue (reserved_until <= NOW() - the sweeper's grace period).    *)
(*                                                                         *)
(* A failure is a choice the components' actions offer. Faults names the   *)
(* kinds of failure a run admits and MaxFaults bounds how many of them     *)
(* happen in one behaviour.                                                *)
(***************************************************************************)
EXTENDS Catalog

CONSTANTS Faults,     \* the kinds of failure that may happen
          MaxFaults   \* how many failures one behaviour may contain (a bound)

FaultKinds == {"crash",     \* a process dies, or is shut down mid-work
               "stop",      \* a process is told to stop, and does so in order
               "db",        \* a Postgres statement or transaction fails
               "commit",    \* a commit takes effect, its reply is lost
               "redis",     \* a Redis call fails, before or after its effect
               "resend",    \* the Redis client resends a script whose reply was lost
               "ack",       \* the acknowledgement of a message does not take effect
               "metadata",  \* the cached ticket-type metadata expires
               "gateway",   \* a payment provider call fails
               "redeliver", \* the provider misses the answer to a webhook
               "kafka",     \* a Kafka call fails, before or after its effect
               "session",   \* Postgres drops the session of an advisory lock
               "age"}       \* a failed order grows older than the watchdog's MaxFailedAge

ASSUME EnvironmentAssumption ==
    /\ Faults \subseteq FaultKinds
    /\ MaxFaults \in Nat

VARIABLES budget,   \* the failures that may still happen
          phase     \* [Orders -> Phases]

Phases == {"unset", "open", "lapsed", "overdue"}

EnvTypeOK ==
    /\ budget \in 0..MaxFaults
    /\ phase \in [Orders -> Phases]

EnvInit ==
    /\ budget = MaxFaults
    /\ phase = [o \in Orders |-> "unset"]

\* A failure of this kind happens now.
Fault(kind) ==
    /\ kind \in Faults
    /\ budget > 0
    /\ budget' = budget - 1

\* reservedUntil = now + the reservation window, computed once per request.
OpenWindow(o) == phase' = [phase EXCEPT ![o] = IF @ = "unset" THEN "open" ELSE @]

\* NOW() reaches reserved_until.
PassDeadline(o) ==
    /\ phase[o] = "open"
    /\ phase' = [phase EXCEPT ![o] = "lapsed"]
    /\ UNCHANGED budget

\* NOW() leaves the grace period after reserved_until behind.
PassGrace(o) ==
    /\ phase[o] = "lapsed"
    /\ phase' = [phase EXCEPT ![o] = "overdue"]
    /\ UNCHANGED budget
=============================================================================
