------------------------------ MODULE Payment -------------------------------
(***************************************************************************)
(* What becomes of a reservation: POST /pay registers a PaymentIntent with *)
(* the provider, the provider reports how the payment went by webhooks, and*)
(* the expiry sweeper gives up what nobody paid. Webhooks are delivered at *)
(* least once and in any order, several may be handled at the same time,   *)
(* and every handler reads the order before the transaction that moves it. *)
(*                                                                         *)
(* The provider is external. It returns the same intent for the same order,*)
(* so an intent is named by its order and never mismatches it.             *)
(***************************************************************************)
EXTENDS Postgres

CONSTANTS Handlers,     \* the webhook requests being served at one time
          SweepBatch,   \* the sweeper's BatchSize
          Unlabelled,   \* orders whose intents carry no metadata.order_id
          NoEvent       \* what an idle handler serves

VARIABLES intent,       \* the orders with a payment_intent_id
          payer,        \* [Orders -> PayerSteps]: how far POST /pay has come
          created,      \* provider: the orders with an intent
          declined,     \* provider: the orders with a declined payment
          charged,      \* provider: the orders whose customer's money moved
          webhooks,     \* provider: the events it still has to deliver
          handler,      \* [Handlers -> HandlerSteps]
          event,        \* [Handlers -> Webhooks \cup {NoEvent}]
          began,        \* [Handlers -> Phases]: NOW() of its transaction
          lateSuccess,  \* the orders payment_webhook_late_success fired for
          sweep,        \* the expired reservations listed and not yet resolved
          expiring      \* the one the sweeper has read and is about to expire

payVars == <<intent, payer, created, declined, charged>>
hookVars == <<handler, event, began, lateSuccess>>
sweepVars == <<sweep, expiring>>
vars == <<budget, phase, pgVars, payVars, webhooks, hookVars, sweepVars>>

PayerSteps == {"idle", "gateway", "persist"}
HandlerSteps == {"idle", "begin", "pay", "late", "fail"}
Webhooks == [order : Orders, type : {"succeeded", "payment_failed"}]

ASSUME PaymentAssumption ==
    /\ SweepBatch \in Nat \ {0}
    /\ Unlabelled \subseteq Orders
    /\ NoEvent \notin Webhooks

TypeOK ==
    /\ EnvTypeOK
    /\ PgTypeOK
    /\ intent \subseteq created
    /\ payer \in [Orders -> PayerSteps]
    /\ created \subseteq Orders
    /\ declined \subseteq created
    /\ charged \subseteq created
    /\ webhooks \subseteq Webhooks
    /\ handler \in [Handlers -> HandlerSteps]
    /\ event \in [Handlers -> Webhooks \cup {NoEvent}]
    /\ \A h \in Handlers : handler[h] = "idle" <=> event[h] = NoEvent
    /\ began \in [Handlers -> Phases]
    /\ lateSuccess \subseteq charged
    /\ sweep \subseteq Orders
    /\ expiring \subseteq Orders

PayInit ==
    /\ intent = {}
    /\ payer = [o \in Orders |-> "idle"]
    /\ created = {}
    /\ declined = {}
    /\ charged = {}
    /\ webhooks = {}
    /\ handler = [h \in Handlers |-> "idle"]
    /\ event = [h \in Handlers |-> NoEvent]
    /\ began = [h \in Handlers |-> "unset"]
    /\ lateSuccess = {}
    /\ sweep = {}
    /\ expiring = {}

Init == EnvInit /\ PgInit /\ PayInit

\* The booking path has written the order.
Reserve(o) ==
    /\ InsertReservation(o)
    /\ OpenWindow(o)
    /\ UNCHANGED <<budget, payVars, webhooks, hookVars, sweepVars>>

-----------------------------------------------------------------------------
(* POST /orders/:id/pay, service.CreatePaymentIntent. Concurrent calls for  *)
(* one order write the same intent; one call at a time stands for them.     *)

PayerGoes(o, s) == payer' = [payer EXCEPT ![o] = s]

\* GetByID and the tests on what it returned.
PayRead(o) ==
    /\ payer[o] = "idle"
    /\ status[o] = "awaiting_payment"
    /\ phase[o] = "open"
    /\ PayerGoes(o, "gateway")
    /\ UNCHANGED <<budget, phase, pgVars, intent, created, declined, charged,
                   webhooks, hookVars, sweepVars>>

\* The gateway's CreatePaymentIntent: the order's id is its idempotency key.
CreatePaymentIntent(o) == created' = created \cup {o}

\* A call of the gateway that fails may have created the intent.
PayGateway(o) ==
    /\ payer[o] = "gateway"
    /\ \/ CreatePaymentIntent(o) /\ PayerGoes(o, "persist") /\ UNCHANGED budget
       \/ CreatePaymentIntent(o) /\ PayerGoes(o, "idle") /\ Fault("gateway")
       \/ UNCHANGED created /\ PayerGoes(o, "idle") /\ Fault("gateway")
    /\ UNCHANGED <<phase, pgVars, intent, declined, charged, webhooks, hookVars, sweepVars>>

\* SetPaymentIntentID: refused once the order has moved on or has lapsed.
PayPersist(o) ==
    /\ payer[o] = "persist"
    /\ PayerGoes(o, "idle")
    /\ \/ /\ status[o] = "awaiting_payment"
          /\ phase[o] = "open"
          /\ intent' = intent \cup {o}
          /\ UNCHANGED budget \/ Fault("commit")
       \/ /\ status[o] # "awaiting_payment" \/ phase[o] # "open"
          /\ UNCHANGED <<budget, intent>>
       \/ Fault("db") /\ UNCHANGED intent
    /\ UNCHANGED <<phase, pgVars, created, declined, charged, webhooks, hookVars, sweepVars>>

\* The customer pays, whatever has become of the reservation.
Charge(o) ==
    /\ o \in created \ charged
    /\ charged' = charged \cup {o}
    /\ webhooks' = webhooks \cup {[order |-> o, type |-> "succeeded"]}
    /\ UNCHANGED <<budget, phase, pgVars, intent, payer, created, declined, hookVars, sweepVars>>

\* The card is declined; the customer may try again. Once for each order.
Decline(o) ==
    /\ o \in created \ (charged \cup declined)
    /\ declined' = declined \cup {o}
    /\ webhooks' = webhooks \cup {[order |-> o, type |-> "payment_failed"]}
    /\ UNCHANGED <<budget, phase, pgVars, intent, payer, created, charged, hookVars, sweepVars>>

-----------------------------------------------------------------------------
(* The webhook handlers, webhookService.HandleWebhook *)

IsFailureTerminalAfterPay(o) == status[o] \in FailedStatuses \cup {"compensated"}

IsTerminalForWebhook(o) == status[o] = "paid" \/ IsFailureTerminalAfterPay(o)

\* Mutant of Resolvable: the metadata of the event is ignored.
ResolvableByIntent(o) == o \in intent

FindByPaymentIntentID(o) == o \in intent

\* resolveOrderID finds the order: by its id, or by its intent.
Resolvable(o) == o \notin Unlabelled \/ FindByPaymentIntentID(o)

\* 200: the provider takes the event off its list, unless it misses the answer.
Answer200(e) ==
    \/ webhooks' = webhooks \ {e} /\ UNCHANGED budget
    \/ Fault("redeliver") /\ UNCHANGED webhooks

Serving(h, s) == handler[h] = s

HandlerGoes(h, s) ==
    /\ handler' = [handler EXCEPT ![h] = s]
    /\ UNCHANGED <<event, began>>

Leave(h) ==
    /\ handler' = [handler EXCEPT ![h] = "idle"]
    /\ event' = [event EXCEPT ![h] = NoEvent]
    /\ began' = [began EXCEPT ![h] = "unset"]

\* handleLateSuccess begins: the alert that asks for a refund.
AlertLate(o) == lateSuccess' = lateSuccess \cup {o}

\* Mutants of Verdict: a decline is taken for a late success, or for a success.
LateWhateverTheType(e) ==
    CASE phase[e.order] # "open"  -> "late"
      [] e.type = "succeeded"     -> IF IsFailureTerminalAfterPay(e.order) THEN "late" ELSE "begin"
      [] OTHER                    -> "fail"

SuccessWhateverTheType(e) ==
    IF IsFailureTerminalAfterPay(e.order) \/ phase[e.order] # "open" THEN "late" ELSE "begin"

\* What to do about the event e is decided by one read of its order.
Verdict(e) ==
    CASE e.type = "succeeded" /\ IsFailureTerminalAfterPay(e.order) -> "late"
      [] e.type = "succeeded" /\ phase[e.order] # "open"            -> "late"
      [] e.type = "succeeded"                                       -> "begin"
      [] OTHER                                                      -> "fail"

IsDuplicate(e) ==
    IF e.type = "succeeded" THEN status[e.order] = "paid"
                            ELSE IsTerminalForWebhook(e.order)

\* An event whose order is not found, or cannot be read, is answered 500 and
\* stays with the provider.
Receive(h, e) ==
    /\ Serving(h, "idle")
    /\ e \in webhooks
    /\ Resolvable(e.order)
    /\ \/ /\ IsDuplicate(e)
          /\ Answer200(e)
          /\ UNCHANGED hookVars
       \/ /\ ~IsDuplicate(e)
          /\ handler' = [handler EXCEPT ![h] = Verdict(e)]
          /\ event' = [event EXCEPT ![h] = e]
          /\ IF Verdict(e) = "late" THEN AlertLate(e.order) ELSE UNCHANGED lateSuccess
          /\ UNCHANGED <<budget, webhooks, began>>
    /\ UNCHANGED <<phase, pgVars, payVars, sweepVars>>

\* Mutant of Begin: the provider is answered before the transaction.
AnswerThenBegin(h) ==
    /\ Serving(h, "begin")
    /\ handler' = [handler EXCEPT ![h] = "pay"]
    /\ began' = [began EXCEPT ![h] = phase[event[h].order]]
    /\ webhooks' = webhooks \ {event[h]}
    /\ UNCHANGED <<budget, phase, pgVars, payVars, event, lateSuccess, sweepVars>>

\* handleSuccess opens its transaction.
Begin(h) ==
    /\ Serving(h, "begin")
    /\ handler' = [handler EXCEPT ![h] = "pay"]
    /\ began' = [began EXCEPT ![h] = phase[event[h].order]]
    /\ UNCHANGED <<budget, phase, pgVars, payVars, webhooks, event, lateSuccess, sweepVars>>

\* SetPaymentIntentID if the order was read without one, and MarkPaid.
Pay(h) ==
    /\ Serving(h, "pay")
    /\ LET o == event[h].order IN
        \/ /\ MarkPaid(o, began[h])
           /\ intent' = intent \cup {o}
           /\ Leave(h)
           /\ \/ Answer200(event[h])
              \/ Fault("commit") /\ UNCHANGED webhooks
           /\ UNCHANGED lateSuccess
        \/ /\ status[o] = "awaiting_payment"
           /\ began[h] # "open"
           /\ AlertLate(o)
           /\ HandlerGoes(h, "late")
           /\ UNCHANGED <<budget, pgVars, intent, webhooks>>
        \/ /\ IsTerminalForWebhook(o)
           /\ Leave(h)
           /\ Answer200(event[h])
           /\ UNCHANGED <<pgVars, intent, lateSuccess>>
        \/ /\ Fault("db")
           /\ Leave(h)
           /\ UNCHANGED <<pgVars, intent, webhooks, lateSuccess>>
    /\ UNCHANGED <<phase, payer, created, declined, charged, sweepVars>>

\* The unit of work of handleLateSuccess and of handleFailure, and what each
\* does when the order has already moved on.
Abandon(h, to) ==
    /\ LET o == event[h].order IN
        \/ /\ FailOrder(o, to)
           /\ \/ Answer200(event[h])
              \/ Fault("commit") /\ UNCHANGED webhooks
        \/ /\ IsTerminalForWebhook(o)
           /\ Answer200(event[h])
           /\ UNCHANGED pgVars
        \/ /\ Fault("db")
           /\ UNCHANGED <<pgVars, webhooks>>
    /\ Leave(h)
    /\ UNCHANGED <<phase, payVars, lateSuccess, sweepVars>>

HandleLateSuccess(h) == Serving(h, "late") /\ Abandon(h, "expired")

HandleFailure(h) == Serving(h, "fail") /\ Abandon(h, "payment_failed")

\* The server dies while it serves the request.
CrashHandler(h) ==
    /\ handler[h] # "idle"
    /\ Fault("crash")
    /\ Leave(h)
    /\ UNCHANGED <<phase, pgVars, payVars, webhooks, lateSuccess, sweepVars>>

-----------------------------------------------------------------------------
(* The expiry sweeper, Sweeper.Sweep *)

\* Mutant of Overdue: the grace period is added to the cutoff, not taken off.
JustLapsed == {o \in Orders : status[o] = "awaiting_payment" /\ phase[o] = "lapsed"}

Overdue == {o \in Orders : status[o] = "awaiting_payment" /\ phase[o] = "overdue"}

\* FindExpiredReservations: some BatchSize of them.
ListExpired ==
    /\ sweep = {}
    /\ expiring = {}
    /\ \E S \in SUBSET Overdue :
        /\ S # {}
        /\ Cardinality(S) <= SweepBatch
        /\ S = Overdue \/ Cardinality(S) = SweepBatch
        /\ sweep' = S
    /\ UNCHANGED <<budget, phase, pgVars, payVars, webhooks, hookVars, expiring>>

\* resolve: GetByID, and the skip of an order that is not awaiting payment.
ReadExpired(o) ==
    /\ o \in sweep
    /\ expiring = {}
    /\ sweep' = sweep \ {o}
    /\ \/ /\ expiring' = {o} \cap {p \in Orders : status[p] = "awaiting_payment"}
          /\ UNCHANGED budget
       \/ Fault("db") /\ UNCHANGED expiring
    /\ UNCHANGED <<phase, pgVars, payVars, webhooks, hookVars>>

\* resolve: MarkExpired and the outbox row; a failure waits for the next sweep.
Expire(o) ==
    /\ o \in expiring
    /\ expiring' = {}
    /\ \/ FailOrder(o, "expired") /\ (UNCHANGED budget \/ Fault("commit"))
       \/ status[o] # "awaiting_payment" /\ UNCHANGED <<budget, pgVars>>
       \/ Fault("db") /\ UNCHANGED pgVars
    /\ UNCHANGED <<phase, payVars, webhooks, hookVars, sweep>>

\* The process dies, or is told to stop and cancels the context of its sweep, or
\* the sweep panics and safeSweep recovers: the next one begins anew.
CrashSweeper ==
    /\ sweep \cup expiring # {}
    /\ Fault("crash")
    /\ sweep' = {}
    /\ expiring' = {}
    /\ UNCHANGED <<phase, pgVars, payVars, webhooks, hookVars>>

-----------------------------------------------------------------------------
HandleCreatePaymentIntent(o) == PayRead(o) \/ PayGateway(o) \/ PayPersist(o)

Customer(o) == HandleCreatePaymentIntent(o) \/ Charge(o) \/ Decline(o)

Serve(h) ==
    \/ \E e \in webhooks : Receive(h, e)
    \/ Begin(h) \/ Pay(h) \/ HandleLateSuccess(h) \/ HandleFailure(h)

Sweep == ListExpired \/ \E o \in Orders : ReadExpired(o) \/ Expire(o)

Clock(o) ==
    /\ PassDeadline(o) \/ PassGrace(o)
    /\ UNCHANGED <<pgVars, payVars, webhooks, hookVars, sweepVars>>

\* Nothing is half done.
AtRest ==
    /\ \A o \in Orders : payer[o] = "idle"
    /\ \A h \in Handlers : Serving(h, "idle")
    /\ sweep \cup expiring = {}

Rest == AtRest /\ UNCHANGED vars

Next ==
    \/ \E o \in Orders : Reserve(o) \/ Customer(o) \/ Clock(o)
    \/ \E h \in Handlers : Serve(h) \/ CrashHandler(h)
    \/ Sweep \/ CrashSweeper
    \/ Rest

Spec == Init /\ [][Next]_vars

\* The provider redelivers until it is answered, the server serves what it is
\* sent, and the sweeper runs on its ticker. Nothing makes the customer act.
FairSpec ==
    /\ Spec
    /\ \A h \in Handlers : WF_vars(Serve(h))
    /\ WF_vars(Sweep)

-----------------------------------------------------------------------------
(* What the payment path promises *)

EventsFor(o) == {i \in DOMAIN outbox : outbox[i].order = o}

\* However the webhooks, their redeliveries and the sweeper race, an order
\* that fails leaves exactly one order.failed event, with the reason it failed
\* for, and an order that did not fail leaves none: the saga gives tickets
\* back for every such event.
OneEventPerFailure ==
    \A o \in Orders :
        /\ Cardinality(EventsFor(o)) = IF IsFailureTerminalAfterPay(o) THEN 1 ELSE 0
        /\ status[o] \in FailedStatuses =>
               \A i \in EventsFor(o) : outbox[i].reason = status[o]

\* A paid order stays paid: no late decline, redelivery or sweep undoes it.
PaidIsFinal == [][\A o \in Orders : status[o] = "paid" => status'[o] = "paid"]_status

\* A paid order was charged, and carries the intent a refund would need, even
\* if POST /pay failed to record it.
PaidIsCharged == \A o \in Orders : status[o] = "paid" => o \in charged \cap intent

\* The provider is told 200 for a payment only once the order is settled: as
\* long as it awaits payment, the event will be delivered again.
AnsweredIsSettled ==
    \A o \in charged :
        status[o] = "awaiting_payment" => [order |-> o, type |-> "succeeded"] \in webhooks

\* A reservation nobody pays does not hold its tickets for ever.
OverdueIsReleased ==
    \A o \in Orders : phase[o] = "overdue" ~> status[o] # "awaiting_payment"

\* A payment is settled one way or the other without the deadline's help.
ChargedIsSettled == \A o \in Orders : o \in charged ~> IsTerminalForWebhook(o)

\* Money that moved for an order that is dead raises the alert that asks an
\* operator to refund it: the provider has been told all is well.
DeadChargeIsAlerted ==
    \A o \in charged :
        /\ IsFailureTerminalAfterPay(o)
        /\ [order |-> o, type |-> "succeeded"] \notin webhooks
        => o \in lateSuccess
=============================================================================
