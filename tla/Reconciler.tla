----------------------------- MODULE Reconciler ------------------------------
(***************************************************************************)
(* The reconciler, with the saga it hands its failures to. It resolves the *)
(* orders an earlier release left in 'charging': it asks the provider what *)
(* became of the charge and confirms or fails the order. The 'recon'       *)
(* command runs it in a loop; with --once it may run beside another one.   *)
(*                                                                         *)
(* The earlier release wrote 'charging', 'confirmed' and 'failed' where    *)
(* this one writes awaiting_payment, paid and payment_failed. They stand   *)
(* here under the names of this release; all that the saga runs treats     *)
(* 'failed' and payment_failed alike. The phase of an order in 'charging'  *)
(* is its age: lapsed past ChargingThreshold, overdue past MaxChargingAge, *)
(* which Config.Validate puts behind it.                                   *)
(***************************************************************************)
EXTENDS Saga

CONSTANTS Reconcilers,   \* the processes that sweep
          ReconBatch     \* Config.BatchSize

ASSUME ReconcilerAssumption == ReconBatch \in Nat \ {0}

VARIABLES charging,   \* the orders in 'charging'
          recorded,   \* those of them with a payment_intent_id
          charge,     \* [Orders -> Charges]: what the provider has of them
          found,      \* [Reconcilers -> SUBSET Rows]: still to resolve
          subject,    \* [Reconcilers -> Orders]: the order being resolved
          verdict     \* [Reconcilers -> Verdicts]: what is to be done with it

reconVars == <<found, subject, verdict>>
chargeVars == <<charging, recorded, charge>>
allVars == <<vars, chargeVars, reconVars>>

Charges == {"none", "pending", "charged", "declined"}
Verdicts == {"idle", "confirm", "fail"}

\* A row of FindStuckCharging. Its age is the one it was listed with.
Rows == [order : Orders, aged : BOOLEAN]

ReconTypeOK ==
    /\ TypeOK
    /\ charging \subseteq Orders
    /\ recorded \subseteq charging
    /\ charge \in [Orders -> Charges]
    /\ found \in [Reconcilers -> SUBSET Rows]
    /\ subject \in [Reconcilers -> Orders]
    /\ verdict \in [Reconcilers -> Verdicts]

ReconInit ==
    /\ Init
    /\ charging = {}
    /\ recorded = {}
    /\ charge = [o \in Orders |-> "none"]
    /\ found = [r \in Reconcilers |-> {}]
    /\ subject = [r \in Reconcilers |-> CHOOSE o \in Orders : TRUE]
    /\ verdict = [r \in Reconcilers |-> "idle"]

-----------------------------------------------------------------------------
(* What the earlier release and the provider do *)

\* It booked the order, moved it to 'charging' and was replaced: before the
\* provider was called, while the charge was under way, or after it; and before
\* or after the intent was recorded.
LeaveCharging(o) ==
    /\ o \in Failing
    /\ Reserve(o)
    /\ charging' = charging \cup {o}
    /\ charge' \in {[charge EXCEPT ![o] = c] : c \in Charges}
    /\ recorded' \in {recorded, recorded \cup {o}}
    /\ UNCHANGED reconVars

\* A charge under way succeeds or is cancelled. Afterwards nothing asks for it.
SettleCharge(o) ==
    /\ o \in charging /\ charge[o] = "pending"
    /\ charge' \in {[charge EXCEPT ![o] = c] : c \in {"charged", "declined"}}
    /\ UNCHANGED <<vars, charging, recorded, reconVars>>

\* Time passes.
GrowOld(o) ==
    /\ o \in charging
    /\ PassDeadline(o) \/ PassGrace(o)
    /\ UNCHANGED <<pgVars, redisVars, sagaVars, chargeVars, reconVars>>

-----------------------------------------------------------------------------
(* Reconciler.Sweep *)

Stuck == {o \in charging : phase[o] # "open"}

Aged(o) == phase[o] = "overdue"

\* FindStuckCharging: the oldest first, at most ReconBatch of them. If it fails
\* there is no sweep.
FindStuckCharging(r) ==
    /\ verdict[r] = "idle" /\ found[r] = {}
    /\ \E S \in SUBSET Stuck :
        /\ S # {}
        /\ Cardinality(S) <= ReconBatch
        /\ S = Stuck \/ Cardinality(S) = ReconBatch
        /\ \A o \in S, p \in Stuck \ S : Aged(p) => Aged(o)
        /\ found' = [found EXCEPT ![r] = {[order |-> o, aged |-> Aged(o)] : o \in S}]
    /\ UNCHANGED <<vars, chargeVars, subject, verdict>>

Decide(r, row, v) ==
    /\ found' = [found EXCEPT ![r] = @ \ {row}]
    /\ subject' = [subject EXCEPT ![r] = row.order]
    /\ verdict' = [verdict EXCEPT ![r] = v]

\* Mutant of MapStatus: a charge under way is taken for none.
MapToFailure(c) == IF c = "charged" THEN "confirm" ELSE "fail"

\* The verdict on what GetStatus returns: unknown waits for the next sweep.
MapStatus(c) ==
    CASE c = "charged"              -> "confirm"
      [] c \in {"declined", "none"} -> "fail"
      [] c = "pending"              -> "idle"

\* Mutant of PastMaxAge: the guard on the intent comes before the age.
PastMaxAgeWithIntent(row) == row.aged /\ row.order \in recorded

PastMaxAge(row) == row.aged

\* GetStatus, which may fail whatever the charge is.
GetStatus(r, row) ==
    \/ Decide(r, row, MapStatus(charge[row.order])) /\ UNCHANGED budget
    \/ Decide(r, row, "idle") /\ Fault("gateway")

\* resolve, up to the statement that moves the order. An order past the maximal
\* age is failed unasked; one without an intent cannot be asked about.
Resolve(r, row) ==
    /\ verdict[r] = "idle"
    /\ row \in found[r]
    /\ \/ PastMaxAge(row) /\ Decide(r, row, "fail") /\ UNCHANGED budget
       \/ /\ ~PastMaxAge(row) /\ row.order \notin recorded
          /\ Decide(r, row, "idle")
          /\ UNCHANGED budget
       \/ ~PastMaxAge(row) /\ row.order \in recorded /\ GetStatus(r, row)
    /\ UNCHANGED <<phase, pgVars, redisVars, sagaVars, chargeVars>>

\* The order leaves 'charging', and its updated_at begins anew.
Move(o, v) ==
    /\ o \in charging
    /\ IF v = "confirm" THEN MarkPaid(o, "open") ELSE FailOrder(o, "payment_failed")
    /\ charging' = charging \ {o}
    /\ recorded' = recorded \ {o}
    /\ charge' = [charge EXCEPT ![o] = "none"]
    /\ phase' = [phase EXCEPT ![o] = "open"]

\* MarkConfirmed, or failOrder's unit of work. Whoever was first has moved the
\* order; any other error is counted and the order left to the next sweep.
Settle(r) ==
    LET o == subject[r] IN
        /\ verdict[r] # "idle"
        /\ \/ Move(o, verdict[r]) /\ UNCHANGED budget
           \/ Move(o, verdict[r]) /\ Fault("commit")
           \/ o \notin charging /\ UNCHANGED <<budget, phase, pgVars, chargeVars>>
           \/ Fault("db") /\ UNCHANGED <<phase, pgVars, chargeVars>>
        /\ verdict' = [verdict EXCEPT ![r] = "idle"]
        /\ UNCHANGED <<redisVars, sagaVars, found, subject>>

\* Its process dies, is told to stop, or its sweep panics and safeSweep makes an
\* error of it.
CrashRecon(r) ==
    /\ verdict[r] # "idle" \/ found[r] # {}
    /\ Fault("crash")
    /\ found' = [found EXCEPT ![r] = {}]
    /\ verdict' = [verdict EXCEPT ![r] = "idle"]
    /\ UNCHANGED <<phase, pgVars, redisVars, sagaVars, chargeVars, subject>>

-----------------------------------------------------------------------------
Recon(r) ==
    \/ FindStuckCharging(r) \/ Settle(r)
    \/ \E row \in found[r] : Resolve(r, row)

\* The payment path of this release does not touch an order in 'charging'.
SagaStep ==
    /\ \/ \E o \in Orders : Reserve(o)
       \/ \E o \in Orders \ charging : FailPayment(o)
       \/ \E r \in Relays : Relay(r)
       \/ Consume \/ Watch \/ SagaFaults \/ Rest
    /\ UNCHANGED <<chargeVars, reconVars>>

ReconNext ==
    \/ \E o \in Orders : LeaveCharging(o) \/ SettleCharge(o) \/ GrowOld(o)
    \/ \E r \in Reconcilers : Recon(r) \/ CrashRecon(r)
    \/ SagaStep

ReconSpec == ReconInit /\ [][ReconNext]_allVars

Alone(A) == A /\ UNCHANGED <<chargeVars, reconVars>>

\* The processes run, and are restarted. No charge has to be settled.
ReconFairSpec ==
    /\ ReconSpec
    /\ \A r \in Relays : WF_allVars(Alone(Relay(r)))
    /\ WF_allVars(Alone(Consume))
    /\ WF_allVars(Alone(Watch))
    /\ \A r \in Reconcilers : WF_allVars(Recon(r))

-----------------------------------------------------------------------------
(* What the reconciler promises *)

\* The order follows the charge, whichever reconciler moves it and however stale
\* what it read is: it is confirmed only if the provider has the money, and
\* before the maximal age it is failed only if the provider has not.
VerdictIsFollowed ==
    [][\A o \in charging \ charging' :
        \/ status'[o] = "paid" /\ charge[o] = "charged"
        \/ status'[o] = "payment_failed" /\ (charge[o] \in {"none", "declined"} \/ Aged(o))]_allVars

\* No order stays in 'charging': one past the maximal age is resolved, with or
\* without an intent and whatever the provider answers.
AgedIsResolved == \A o \in Orders : o \in charging /\ Aged(o) ~> o \notin charging
=============================================================================
