--------------------------- MODULE PaymentProofs ----------------------------
(***************************************************************************)
(* The payment path, for any number of orders, webhook handlers and        *)
(* failures: its variables keep their types, its steps are steps of        *)
(* OrderLifecycle, a paid order is charged and stays paid, and the provider*)
(* is only answered for settled orders. At the end, what a process that    *)
(* takes and serves payments accepts of its configuration.                 *)
(***************************************************************************)
EXTENDS Payment, PostgresProofs, Configuration, FiniteSetTheorems, SequenceTheorems

\* Types that do not depend on how the variables relate to each other.
PayTypeOK ==
    /\ EnvTypeOK
    /\ PgTypeOK
    /\ intent \subseteq Orders
    /\ payer \in [Orders -> PayerSteps]
    /\ created \subseteq Orders
    /\ declined \subseteq Orders
    /\ charged \subseteq Orders
    /\ webhooks \subseteq Webhooks
    /\ handler \in [Handlers -> HandlerSteps]
    /\ event \in [Handlers -> Webhooks \cup {NoEvent}]
    /\ \A h \in Handlers : handler[h] = "idle" <=> event[h] = NoEvent
    /\ began \in [Handlers -> Phases]
    /\ lateSuccess \subseteq Orders
    /\ sweep \subseteq Orders
    /\ expiring \subseteq Orders

-----------------------------------------------------------------------------
(* Every step is a step of the tables *)

\* What a busy handler serves is an event of an order.
LEMMA Served ==
    ASSUME PayTypeOK, NEW h \in Handlers, handler[h] # "idle"
    PROVE  event[h] \in Webhooks /\ event[h].order \in Orders
BY DEF PayTypeOK, Webhooks

\* The tables move by MarkPaid, by FailOrder, or by the booking path.
LEMMA NextIsPgStep == PayTypeOK /\ [Next]_vars => PgStep
<1>. SUFFICES ASSUME PayTypeOK, [Next]_vars PROVE PgStep
  OBVIOUS
<1>1. ASSUME NEW o \in Orders, Reserve(o) \/ Customer(o) \/ Clock(o) PROVE PgStep
  BY <1>1 DEF Reserve, Customer, HandleCreatePaymentIntent, PayRead, PayGateway, PayPersist,
              Charge, Decline, Clock, PgStep
<1>2. ASSUME NEW h \in Handlers, Pay(h) PROVE PgStep
  <2>1. event[h].order \in Orders /\ began[h] \in Phases
    BY <1>2, Served DEF Pay, Serving, PayTypeOK
  <2>. QED
    BY <1>2, <2>1 DEF Pay, PgStep, pgVars
<1>3. ASSUME NEW h \in Handlers, HandleLateSuccess(h) \/ HandleFailure(h) PROVE PgStep
  <2>1. event[h].order \in Orders
    BY <1>3, Served DEF HandleLateSuccess, HandleFailure, Serving
  <2>2. PICK to \in FailedStatuses : Abandon(h, to)
    BY <1>3 DEF HandleLateSuccess, HandleFailure, FailedStatuses
  <2>. QED
    BY <2>1, <2>2 DEF Abandon, PgStep
<1>4. ASSUME NEW h \in Handlers, (\E e \in webhooks : Receive(h, e)) \/ Begin(h) \/ CrashHandler(h)
      PROVE  UNCHANGED pgVars
  BY <1>4 DEF Receive, Begin, CrashHandler
<1>5. ASSUME NEW o \in Orders, Expire(o) PROVE PgStep
  BY <1>5 DEF Expire, PgStep, FailedStatuses
<1>6. CASE ListExpired \/ (\E o \in Orders : ReadExpired(o)) \/ CrashSweeper
  BY <1>6 DEF ListExpired, ReadExpired, CrashSweeper, PgStep
<1>7. CASE Rest \/ UNCHANGED vars
  BY <1>7 DEF Rest, vars, PgStep
<1>. QED
  BY <1>1, <1>2, <1>3, <1>4, <1>5, <1>6, <1>7 DEF Next, Serve, Sweep, PgStep

-----------------------------------------------------------------------------
(* Type correctness *)

\* The types hold at the start.
LEMMA InitPayTypeOK == Init => PayTypeOK
<1>. SUFFICES ASSUME Init PROVE PayTypeOK
  OBVIOUS
<1>1. EnvTypeOK
  BY EnvironmentAssumption DEF Init, EnvInit, EnvTypeOK, Phases
<1>2. PgTypeOK
  BY CatalogAssumption DEF Init, PgInit, PgTypeOK, Statuses
<1>. QED
  BY <1>1, <1>2 DEF Init, PayInit, PayTypeOK, PayerSteps, HandlerSteps, Phases

\* Every step keeps the types.
LEMMA NextPayTypeOK == PayTypeOK /\ [Next]_vars => PayTypeOK'
<1>. SUFFICES ASSUME PayTypeOK, [Next]_vars PROVE PayTypeOK'
  OBVIOUS
<1>p. PgTypeOK'
  BY NextIsPgStep, PgStepTypeOK DEF PayTypeOK
<1>f. ASSUME NEW kind, Fault(kind) PROVE budget' \in 0..MaxFaults
  BY <1>f, EnvironmentAssumption DEF Fault, PayTypeOK, EnvTypeOK
<1>0. budget \in 0..MaxFaults /\ phase \in [Orders -> Phases]
  BY DEF PayTypeOK, EnvTypeOK
<1>1. ASSUME NEW o \in Orders, Reserve(o) \/ Clock(o) PROVE PayTypeOK'
  <2>1. EnvTypeOK'
    BY <1>0, <1>1 DEF Reserve, Clock, OpenWindow, PassDeadline, PassGrace, EnvTypeOK, Phases
  <2>. QED
    BY <1>1, <1>p, <2>1 DEF Reserve, Clock, PayTypeOK, payVars, hookVars, sweepVars
<1>2. ASSUME NEW o \in Orders, Customer(o) PROVE PayTypeOK'
  <2>1. EnvTypeOK'
    BY <1>0, <1>f, <1>2
       DEF Customer, HandleCreatePaymentIntent, PayRead, PayGateway, PayPersist, Charge,
           Decline, EnvTypeOK
  <2>2. payer' \in [Orders -> PayerSteps]
    BY <1>2 DEF Customer, HandleCreatePaymentIntent, PayRead, PayGateway, PayPersist, Charge,
                Decline, PayerGoes,
                PayTypeOK, PayerSteps
  <2>3. /\ intent' \subseteq Orders
        /\ created' \subseteq Orders
        /\ declined' \subseteq Orders
        /\ charged' \subseteq Orders
    BY <1>2 DEF Customer, HandleCreatePaymentIntent, PayRead, PayGateway, CreatePaymentIntent,
                PayPersist,
                Charge, Decline, PayTypeOK
  <2>4. webhooks' \subseteq Webhooks
    BY <1>2 DEF Customer, HandleCreatePaymentIntent, PayRead, PayGateway, CreatePaymentIntent,
                PayPersist,
                Charge, Decline, PayTypeOK, Webhooks
  <2>5. UNCHANGED <<hookVars, sweepVars>>
    BY <1>2 DEF Customer, HandleCreatePaymentIntent, PayRead, PayGateway, PayPersist, Charge,
                Decline
  <2>. QED
    BY <1>p, <2>1, <2>2, <2>3, <2>4, <2>5 DEF PayTypeOK, hookVars, sweepVars
<1>3. ASSUME NEW h \in Handlers, Serve(h) \/ CrashHandler(h) PROVE PayTypeOK'
  <2>. USE DEF PayTypeOK
  <2>a. ASSUME NEW e, Answer200(e)
        PROVE  budget' \in 0..MaxFaults /\ webhooks' \subseteq Webhooks
    BY <1>0, <1>f, <2>a DEF Answer200
  <2>b. ASSUME Leave(h)
        PROVE  /\ handler' \in [Handlers -> HandlerSteps]
               /\ event' \in [Handlers -> Webhooks \cup {NoEvent}]
               /\ \A g \in Handlers : handler'[g] = "idle" <=> event'[g] = NoEvent
               /\ began' \in [Handlers -> Phases]
    BY <2>b DEF Leave, HandlerSteps, Phases
  <2>1. ASSUME NEW e \in webhooks, Receive(h, e) PROVE PayTypeOK'
    <3>1. e \in Webhooks /\ e # NoEvent /\ e.order \in Orders
      BY PaymentAssumption DEF Webhooks
    <3>2. Verdict(e) \in HandlerSteps \ {"idle"}
      BY Zenon DEF Verdict, HandlerSteps
    <3>3. CASE IsDuplicate(e)
      BY <1>0, <1>p, <2>1, <2>a, <3>3 DEF Receive, hookVars, payVars, sweepVars, EnvTypeOK
    <3>4. CASE ~IsDuplicate(e)
      <4>1. /\ handler' \in [Handlers -> HandlerSteps]
            /\ event' \in [Handlers -> Webhooks \cup {NoEvent}]
            /\ \A g \in Handlers : handler'[g] = "idle" <=> event'[g] = NoEvent
        BY <2>1, <3>1, <3>2, <3>4 DEF Receive
      <4>2. lateSuccess' \subseteq Orders
        BY <2>1, <3>1, <3>4 DEF Receive, AlertLate
      <4>. QED
        BY <1>0, <1>p, <2>1, <3>4, <4>1, <4>2 DEF Receive, payVars, sweepVars, EnvTypeOK
    <3>. QED
      BY <3>3, <3>4
  <2>2. CASE Begin(h)
    <3>1. event[h].order \in Orders
      BY <2>2, Served DEF Begin, Serving
    <3>2. /\ handler' \in [Handlers -> HandlerSteps]
          /\ \A g \in Handlers : handler'[g] = "idle" <=> event'[g] = NoEvent
          /\ began' \in [Handlers -> Phases]
      BY <1>0, <2>2, <3>1 DEF Begin, Serving, HandlerSteps
    <3>. QED
      BY <1>0, <1>p, <2>2, <3>2 DEF Begin, payVars, sweepVars, EnvTypeOK
  <2>3. CASE Pay(h)
    <3>1. event[h].order \in Orders /\ handler[h] = "pay"
      BY <2>3, Served DEF Pay, Serving
    <3>2. budget' \in 0..MaxFaults /\ webhooks' \subseteq Webhooks
      BY <1>0, <1>f, <2>3, <2>a DEF Pay
    <3>3. intent' \subseteq Orders /\ lateSuccess' \subseteq Orders
      BY <2>3, <3>1 DEF Pay, AlertLate
    <3>4. Leave(h) \/ HandlerGoes(h, "late")
      BY <2>3 DEF Pay
    <3>5. /\ handler' \in [Handlers -> HandlerSteps]
          /\ event' \in [Handlers -> Webhooks \cup {NoEvent}]
          /\ \A g \in Handlers : handler'[g] = "idle" <=> event'[g] = NoEvent
          /\ began' \in [Handlers -> Phases]
      BY <2>b, <3>1, <3>4 DEF HandlerGoes, HandlerSteps
    <3>. QED
      BY <1>0, <1>p, <2>3, <3>2, <3>3, <3>5 DEF Pay, sweepVars, EnvTypeOK
  <2>4. CASE HandleLateSuccess(h) \/ HandleFailure(h)
    <3>1. PICK to : Abandon(h, to)
      BY <2>4 DEF HandleLateSuccess, HandleFailure
    <3>2. budget' \in 0..MaxFaults /\ webhooks' \subseteq Webhooks
      BY <1>0, <1>f, <2>a, <3>1 DEF Abandon
    <3>. QED
      BY <1>0, <1>p, <2>b, <3>1, <3>2 DEF Abandon, payVars, sweepVars, EnvTypeOK
  <2>5. CASE CrashHandler(h)
    BY <1>0, <1>f, <1>p, <2>5, <2>b DEF CrashHandler, payVars, sweepVars, EnvTypeOK
  <2>. QED
    BY <1>3, <2>1, <2>2, <2>3, <2>4, <2>5 DEF Serve
<1>4. CASE Sweep \/ CrashSweeper
  <2>1. EnvTypeOK'
    BY <1>0, <1>f, <1>4 DEF Sweep, ListExpired, ReadExpired, Expire, CrashSweeper, EnvTypeOK
  <2>2. sweep' \subseteq Orders /\ expiring' \subseteq Orders
    BY <1>4 DEF Sweep, ListExpired, ReadExpired, Expire, CrashSweeper, Overdue, PayTypeOK
  <2>3. UNCHANGED <<payVars, webhooks, hookVars>>
    BY <1>4 DEF Sweep, ListExpired, ReadExpired, Expire, CrashSweeper
  <2>. QED
    BY <1>p, <2>1, <2>2, <2>3 DEF PayTypeOK, payVars, hookVars
<1>5. CASE UNCHANGED vars
  BY <1>5, <1>p DEF PayTypeOK, EnvTypeOK, vars, payVars, hookVars, sweepVars
<1>. QED
  BY <1>1, <1>2, <1>3, <1>4, <1>5 DEF Next, Rest

\* The types hold in every behaviour.
LEMMA SpecPayTypeOK == Spec => []PayTypeOK
<1>. QED
  BY InitPayTypeOK, NextPayTypeOK, PTL DEF Spec

-----------------------------------------------------------------------------
(* Paid orders are charged, answered events are settled *)

\* What was asked of the provider was asked for an order that exists, and what
\* it reports was paid; a handler on the way to MarkPaid, or to a late success,
\* serves a payment.
Causality ==
    /\ \A o \in Orders : payer[o] # "idle" \/ o \in created => status[o] # "absent"
    /\ \A o \in Orders : payer[o] = "persist" => o \in created
    /\ intent \subseteq created /\ declined \subseteq created /\ charged \subseteq created
    /\ \A e \in webhooks : /\ e.order \in created
                           /\ e.type = "succeeded" => e.order \in charged
    /\ \A h \in Handlers :
        /\ handler[h] \in {"begin", "pay", "late"} => event[h].type = "succeeded"
        /\ handler[h] # "idle" =>
               /\ event[h].order \in created
               /\ event[h].type = "succeeded" => event[h].order \in charged
    /\ lateSuccess \subseteq charged

PayInv == Causality /\ PaidIsCharged /\ AnsweredIsSettled

\* The invariant holds at the start.
LEMMA InitPayInv == Init => PayInv
BY DEF Init, PgInit, PayInit, PayInv, Causality, PaidIsCharged, AnsweredIsSettled

\* How a handler that serves an event for an order leaves it: with an answer,
\* if the order is settled, or without.
LEMMA LeavePayInv ==
    ASSUME PayTypeOK, PayInv, NEW h \in Handlers, handler[h] # "idle", Leave(h),
           UNCHANGED <<payer, created, declined, charged>>,
           intent' = intent \/ intent' = intent \cup {event[h].order},
           lateSuccess' = lateSuccess,
           \A o \in Orders : status'[o] = status[o] \/ o = event[h].order,
           status[event[h].order] # "absent" => status'[event[h].order] # "absent",
           status'[event[h].order] = "paid" =>
               (event[h].type = "succeeded" /\ event[h].order \in intent')
                   \/ status[event[h].order] = "paid",
           status'[event[h].order] = "awaiting_payment" =>
               status[event[h].order] = "awaiting_payment",
           \/ webhooks' = webhooks
           \/ webhooks' = webhooks \ {event[h]} /\ status'[event[h].order] # "awaiting_payment"
    PROVE  PayInv'
<1>1. event[h] \in Webhooks /\ event[h].order \in Orders /\ event[h].order \in created
        /\ (event[h].type = "succeeded" => event[h].order \in charged)
  BY Served DEF PayInv, Causality
<1>2. Causality'
  <2>1. \A g \in Handlers : g # h => handler'[g] = handler[g] /\ event'[g] = event[g]
    BY DEF Leave, PayTypeOK
  <2>2. handler'[h] = "idle"
    BY DEF Leave, PayTypeOK
  <2>3. webhooks' \subseteq webhooks
    OBVIOUS
  <2>. QED
    BY <1>1, <2>1, <2>2, <2>3 DEF PayInv, Causality
<1>3. PaidIsCharged'
  BY <1>1 DEF PayInv, PaidIsCharged
<1>4. AnsweredIsSettled'
  <2>. SUFFICES ASSUME NEW o \in charged', status'[o] = "awaiting_payment"
                PROVE  [order |-> o, type |-> "succeeded"] \in webhooks'
    BY DEF AnsweredIsSettled
  <2>1. o \in charged /\ o \in Orders
    BY DEF PayTypeOK
  <2>2. status[o] = "awaiting_payment"
    BY <2>1
  <2>3. [order |-> o, type |-> "succeeded"] \in webhooks
    BY <2>1, <2>2 DEF PayInv, AnsweredIsSettled
  <2>4. [order |-> o, type |-> "succeeded"].order = o
    OBVIOUS
  <2>. QED
    BY <2>3, <2>4
<1>. QED
  BY <1>2, <1>3, <1>4 DEF PayInv

\* A step of the customer or of the booking path keeps the invariant.
LEMMA CustomerPayInv ==
    ASSUME PayTypeOK, PayInv, NEW o \in Orders, Reserve(o) \/ Customer(o) \/ Clock(o)
    PROVE  PayInv'
<1>. USE DEF PayInv
<1>0. /\ status \in [Orders -> Statuses] /\ payer \in [Orders -> PayerSteps]
      /\ intent \subseteq Orders /\ created \subseteq Orders /\ charged \subseteq Orders
      /\ webhooks \subseteq Webhooks
  BY DEF PayTypeOK, PgTypeOK
<1>1. CASE Reserve(o)
  <2>1. status[o] = "absent" /\ status' = [status EXCEPT ![o] = "awaiting_payment"]
    BY <1>1, <1>0 DEF Reserve, InsertReservation, AlreadyBought
  <2>2. o \notin created /\ o \notin charged
    BY <2>1 DEF Causality
  <2>. QED
    BY <1>0, <1>1, <2>1, <2>2
       DEF Reserve, payVars, hookVars, Causality, PaidIsCharged, AnsweredIsSettled
<1>2. CASE Clock(o)
  BY <1>2 DEF Clock, pgVars, payVars, hookVars, Causality, PaidIsCharged, AnsweredIsSettled
<1>3. CASE PayRead(o)
  BY <1>0, <1>3 DEF PayRead, PayerGoes, pgVars, hookVars, Causality, PaidIsCharged,
     AnsweredIsSettled
<1>4. CASE PayGateway(o)
  <2>1. status[o] # "absent"
    BY <1>4 DEF PayGateway, Causality
  <2>. QED
    BY <1>0, <1>4, <2>1
       DEF PayGateway, CreatePaymentIntent, PayerGoes, pgVars, hookVars, Causality,
           PaidIsCharged, AnsweredIsSettled
<1>5. CASE PayPersist(o)
  <2>1. o \in created
    BY <1>5 DEF PayPersist, Causality
  <2>. QED
    BY <1>0, <1>5, <2>1
       DEF PayPersist, PayerGoes, pgVars, hookVars, Causality, PaidIsCharged, AnsweredIsSettled
<1>6. CASE Charge(o)
  <2>. DEFINE e == [order |-> o, type |-> "succeeded"]
  <2>1. e.order = o /\ e.type = "succeeded"
    OBVIOUS
  <2>2. o \in created /\ charged' = charged \cup {o} /\ webhooks' = webhooks \cup {e}
    BY <1>6 DEF Charge
  <2>3. UNCHANGED <<status, intent, payer, created, declined, handler, event, lateSuccess>>
    BY <1>6 DEF Charge, pgVars, hookVars
  <2>4. Causality'
    BY <1>0, <2>1, <2>2, <2>3 DEF Causality
  <2>5. PaidIsCharged'
    BY <2>2, <2>3 DEF PaidIsCharged
  <2>6. AnsweredIsSettled'
    BY <2>2, <2>3 DEF AnsweredIsSettled
  <2>. QED
    BY <2>4, <2>5, <2>6
<1>7. CASE Decline(o)
  <2>. DEFINE e == [order |-> o, type |-> "payment_failed"]
  <2>1. e.order = o /\ e.type = "payment_failed"
    OBVIOUS
  <2>2. o \in created /\ declined' = declined \cup {o} /\ webhooks' = webhooks \cup {e}
    BY <1>7 DEF Decline
  <2>3. UNCHANGED <<status, intent, payer, created, charged, handler, event, lateSuccess>>
    BY <1>7 DEF Decline, pgVars, hookVars
  <2>4. Causality'
    BY <1>0, <2>1, <2>2, <2>3 DEF Causality
  <2>5. PaidIsCharged'
    BY <2>3 DEF PaidIsCharged
  <2>6. AnsweredIsSettled'
    BY <2>2, <2>3 DEF AnsweredIsSettled
  <2>. QED
    BY <2>4, <2>5, <2>6
<1>. QED
  BY <1>1, <1>2, <1>3, <1>4, <1>5, <1>6, <1>7 DEF Customer, HandleCreatePaymentIntent

\* A step of a webhook handler keeps the invariant.
LEMMA HandlerPayInv ==
    ASSUME PayTypeOK, PayInv, NEW h \in Handlers, Serve(h) \/ CrashHandler(h)
    PROVE  PayInv'
<1>0. /\ status \in [Orders -> Statuses] /\ handler \in [Handlers -> HandlerSteps]
      /\ event \in [Handlers -> Webhooks \cup {NoEvent}]
      /\ webhooks \subseteq Webhooks /\ charged \subseteq Orders
  BY DEF PayTypeOK, PgTypeOK
<1>1. ASSUME NEW e \in webhooks, Receive(h, e) PROVE PayInv'
  <2>1. e \in Webhooks /\ e.order \in Orders
    BY <1>0 DEF Webhooks
  <2>2. UNCHANGED <<status, payer, created, declined, charged, intent>>
    BY <1>1 DEF Receive, pgVars, payVars
  <2>3. CASE IsDuplicate(e)
    <3>1. UNCHANGED <<handler, event, lateSuccess>> /\ webhooks' \subseteq webhooks
            /\ (webhooks' = webhooks \/ webhooks' = webhooks \ {e})
      BY <1>1, <2>3 DEF Receive, Answer200, hookVars
    <3>2. status[e.order] # "awaiting_payment"
      BY <2>3 DEF IsDuplicate, IsTerminalForWebhook, IsFailureTerminalAfterPay, FailedStatuses
    <3>3. \A o \in Orders : status[o] = "awaiting_payment" => [order |-> o, type |-> "succeeded"] # e
      <4>1. \A o \in Orders : [order |-> o, type |-> "succeeded"].order = o
        OBVIOUS
      <4>. QED
        BY <3>2, <4>1
    <3>4. AnsweredIsSettled'
      BY <1>0, <2>2, <3>1, <3>3 DEF PayInv, AnsweredIsSettled
    <3>. QED
      BY <2>2, <3>1, <3>4 DEF PayInv, Causality, PaidIsCharged
  <2>4. CASE ~IsDuplicate(e)
    <3>1. /\ handler' = [handler EXCEPT ![h] = Verdict(e)]
          /\ event' = [event EXCEPT ![h] = e]
          /\ webhooks' = webhooks
      BY <1>1, <2>4 DEF Receive
    <3>2. e.order \in created /\ (e.type = "succeeded" => e.order \in charged)
      BY DEF PayInv, Causality
    <3>3. Verdict(e) # "fail" => e.type = "succeeded"
      BY Zenon DEF Verdict
    <3>4. Verdict(e) \in {"late", "begin", "fail"}
      BY Zenon DEF Verdict
    <3>5. Verdict(e) = "late" => e.order \in charged
      BY <3>2, <3>3, <3>4
    <3>6. lateSuccess' \subseteq charged
      BY <1>1, <2>4, <3>5 DEF Receive, AlertLate, PayInv, Causality
    <3>7. \A g \in Handlers :
            /\ handler'[g] = IF g = h THEN Verdict(e) ELSE handler[g]
            /\ event'[g] = IF g = h THEN e ELSE event[g]
      BY <1>0, <3>1
    <3>8. Causality'
      BY <2>2, <3>1, <3>2, <3>3, <3>4, <3>6, <3>7 DEF PayInv, Causality
    <3>. QED
      BY <2>2, <3>1, <3>8 DEF PayInv, PaidIsCharged, AnsweredIsSettled
  <2>. QED
    BY <2>3, <2>4
<1>2. CASE Begin(h)
  <2>1. handler' = [handler EXCEPT ![h] = "pay"] /\ handler[h] = "begin"
    BY <1>2 DEF Begin, Serving
  <2>2. UNCHANGED <<status, payer, created, declined, charged, intent, webhooks, event, lateSuccess>>
    BY <1>2 DEF Begin, pgVars, payVars
  <2>3. Causality'
    BY <1>0, <2>1, <2>2 DEF PayInv, Causality
  <2>. QED
    BY <2>2, <2>3 DEF PayInv, PaidIsCharged, AnsweredIsSettled
<1>3. CASE Pay(h)
  <2>. DEFINE o == event[h].order
  <2>1. /\ handler[h] = "pay" /\ o \in Orders /\ o \in created
        /\ event[h].type = "succeeded" /\ o \in charged
        /\ UNCHANGED <<payer, created, declined, charged>>
    BY <1>3, Served DEF Pay, Serving, PayInv, Causality
  <2>2. CASE MarkPaid(o, began[h]) /\ Leave(h) /\ intent' = intent \cup {o}
             /\ (Answer200(event[h]) \/ UNCHANGED webhooks) /\ UNCHANGED lateSuccess
    <3>1. /\ status' = [status EXCEPT ![o] = "paid"]
          /\ webhooks' = webhooks \ {event[h]} \/ webhooks' = webhooks
      BY <2>2 DEF MarkPaid, Answer200
    <3>. QED
      BY <1>0, <2>1, <2>2, <3>1, LeavePayInv
  <2>3. CASE IsTerminalForWebhook(o) /\ Leave(h) /\ Answer200(event[h])
             /\ UNCHANGED <<pgVars, intent, lateSuccess>>
    <3>1. /\ status' = status /\ intent' = intent /\ lateSuccess' = lateSuccess
          /\ status[o] # "awaiting_payment"
          /\ webhooks' = webhooks \ {event[h]} \/ webhooks' = webhooks
      BY <2>3 DEF IsTerminalForWebhook, IsFailureTerminalAfterPay, FailedStatuses, Answer200, pgVars
    <3>. QED
      BY <2>1, <2>3, <3>1, LeavePayInv
  <2>4. CASE Leave(h) /\ UNCHANGED <<pgVars, intent, webhooks, lateSuccess>>
    <3>1. status' = status /\ intent' = intent /\ lateSuccess' = lateSuccess /\ webhooks' = webhooks
      BY <2>4 DEF pgVars
    <3>. QED
      BY <2>1, <2>4, <3>1, LeavePayInv
  <2>5. CASE AlertLate(o) /\ HandlerGoes(h, "late") /\ UNCHANGED <<pgVars, intent, webhooks>>
    <3>1. /\ handler' = [handler EXCEPT ![h] = "late"] /\ event' = event
          /\ lateSuccess' = lateSuccess \cup {o}
          /\ status' = status /\ intent' = intent /\ webhooks' = webhooks
      BY <2>5 DEF AlertLate, HandlerGoes, pgVars
    <3>2. Causality'
      BY <1>0, <2>1, <3>1 DEF PayInv, Causality
    <3>. QED
      BY <2>1, <3>1, <3>2 DEF PayInv, PaidIsCharged, AnsweredIsSettled
  <2>. QED
    BY <1>3, <2>2, <2>3, <2>4, <2>5 DEF Pay
<1>4. CASE HandleLateSuccess(h) \/ HandleFailure(h)
  <2>. DEFINE o == event[h].order
  <2>1. PICK to \in FailedStatuses : Abandon(h, to)
    BY <1>4 DEF HandleLateSuccess, HandleFailure, FailedStatuses
  <2>2. handler[h] # "idle" /\ o \in Orders
    BY <1>4, Served DEF HandleLateSuccess, HandleFailure, Serving
  <2>3. /\ Leave(h)
        /\ UNCHANGED <<payer, created, declined, charged, intent, lateSuccess>>
    BY <2>1 DEF Abandon, payVars
  <2>4. CASE FailOrder(o, to) /\ (Answer200(event[h]) \/ UNCHANGED webhooks)
    <3>1. /\ status' = [status EXCEPT ![o] = to] /\ to \notin {"paid", "awaiting_payment", "absent"}
          /\ webhooks' = webhooks \ {event[h]} \/ webhooks' = webhooks
      BY <2>4 DEF FailOrder, Answer200, FailedStatuses
    <3>. QED
      BY <1>0, <2>2, <2>3, <3>1, LeavePayInv
  <2>5. CASE IsTerminalForWebhook(o) /\ Answer200(event[h]) /\ UNCHANGED pgVars
    <3>1. /\ status' = status /\ status[o] # "awaiting_payment"
          /\ webhooks' = webhooks \ {event[h]} \/ webhooks' = webhooks
      BY <2>5 DEF IsTerminalForWebhook, IsFailureTerminalAfterPay, FailedStatuses, Answer200, pgVars
    <3>. QED
      BY <2>2, <2>3, <3>1, LeavePayInv
  <2>6. CASE UNCHANGED <<pgVars, webhooks>>
    <3>1. status' = status /\ webhooks' = webhooks
      BY <2>6 DEF pgVars
    <3>. QED
      BY <2>2, <2>3, <3>1, LeavePayInv
  <2>. QED
    BY <2>1, <2>4, <2>5, <2>6 DEF Abandon
<1>5. CASE CrashHandler(h)
  <2>1. /\ handler[h] # "idle" /\ Leave(h)
        /\ UNCHANGED <<status, payer, created, declined, charged, intent, webhooks, lateSuccess>>
    BY <1>5 DEF CrashHandler, pgVars, payVars
  <2>. QED
    BY <2>1, LeavePayInv
<1>. QED
  BY <1>1, <1>2, <1>3, <1>4, <1>5 DEF Serve

\* A step of the sweeper keeps the invariant.
LEMMA SweeperPayInv ==
    ASSUME PayTypeOK, PayInv, Sweep \/ CrashSweeper
    PROVE  PayInv'
<1>1. UNCHANGED <<payer, created, declined, charged, intent, webhooks, handler, event, lateSuccess>>
  BY DEF Sweep, ListExpired, ReadExpired, Expire, CrashSweeper, payVars, hookVars
<1>2. status' = status \/ \E o \in Orders : FailOrder(o, "expired")
  BY DEF Sweep, ListExpired, ReadExpired, Expire, CrashSweeper, pgVars
<1>3. \A o \in Orders : /\ status'[o] = "absent" => status[o] = "absent"
                        /\ status'[o] = "paid" => status[o] = "paid"
                        /\ status'[o] = "awaiting_payment" => status[o] = "awaiting_payment"
  BY <1>2 DEF FailOrder, PayTypeOK, PgTypeOK
<1>4. charged \subseteq Orders
  BY DEF PayTypeOK
<1>. QED
  BY <1>1, <1>3, <1>4 DEF PayInv, Causality, PaidIsCharged, AnsweredIsSettled

\* The invariant holds in every behaviour.
LEMMA SpecPayInv == Spec => []PayInv
<1>1. PayTypeOK /\ PayInv /\ UNCHANGED vars => PayInv'
  BY DEF vars, pgVars, payVars, hookVars, PayInv, Causality, PaidIsCharged, AnsweredIsSettled
<1>2. PayTypeOK /\ PayInv /\ [Next]_vars => PayInv'
  BY <1>1, CustomerPayInv, HandlerPayInv, SweeperPayInv DEF Next, Rest
<1>. QED
  BY InitPayInv, <1>2, SpecPayTypeOK, PTL DEF Spec

\* The variables of the payment path keep their types: among them, only what
\* was asked of the provider can be recorded, declined or charged, and the
\* late-success alert is only raised for orders that were charged.
THEOREM PaymentTypeOK == Spec => []TypeOK
<1>1. PayTypeOK /\ PayInv => TypeOK
  BY DEF PayTypeOK, PayInv, Causality, TypeOK
<1>. QED
  BY <1>1, SpecPayTypeOK, SpecPayInv, PTL

\* A paid order was charged and carries its intent, whatever POST /pay failed to
\* record and however the webhooks race.
THEOREM PaymentPaidIsCharged == Spec => []PaidIsCharged
<1>1. PayInv => PaidIsCharged
  BY DEF PayInv
<1>. QED
  BY <1>1, SpecPayInv, PTL

\* As long as a charged order awaits payment, the provider still has the event.
THEOREM PaymentAnsweredIsSettled == Spec => []AnsweredIsSettled
<1>1. PayInv => AnsweredIsSettled
  BY DEF PayInv
<1>. QED
  BY <1>1, SpecPayInv, PTL

-----------------------------------------------------------------------------
(* What follows from the tables *)

\* Seen from the tables the payment path is a behaviour of OrderLifecycle.
THEOREM PaymentImplements == Spec => ImplementsLifecycle
<1>1. Init => Lifecycle!Init
  BY PgInitIsInit DEF Init
<1>2. PayTypeOK /\ [Next]_vars
        => [Lifecycle!Next]_<<[o \in Orders |-> Life[status[o]]], available>>
  BY NextIsPgStep, PgStepIsLifecycleStep DEF PayTypeOK
<1>. QED
  BY <1>1, <1>2, SpecPayTypeOK, PTL DEF Spec, ImplementsLifecycle, Lifecycle!Spec

\* No decline, redelivery or sweep takes a paid order back.
THEOREM PaymentPaidIsFinal == Spec => PaidIsFinal
<1>1. PayTypeOK /\ [Next]_vars
        => [\A o \in Orders : status[o] = "paid" => status'[o] = "paid"]_status
  <2>. SUFFICES ASSUME PayTypeOK, [Next]_vars, NEW o \in Orders, status[o] = "paid"
                PROVE  status'[o] = "paid"
    OBVIOUS
  <2>1. PgStep /\ status \in [Orders -> Statuses]
    BY NextIsPgStep DEF PayTypeOK, PgTypeOK
  <2>. QED
    BY <2>1 DEF PgStep, InsertReservation, AlreadyBought, MarkPaid, FailOrder, CompensateOrder,
                CanCompensate, FailedStatuses, pgVars
<1>. QED
  BY <1>1, SpecPayTypeOK, PTL DEF Spec, PaidIsFinal

-----------------------------------------------------------------------------
(* One event for each failure *)

\* OneEventPerFailure, without counting: the event there is, or that there is none.
EventInv ==
    \A o \in Orders :
        IF IsFailureTerminalAfterPay(o)
        THEN \E i \in DOMAIN outbox :
                /\ EventsFor(o) = {i}
                /\ status[o] \in FailedStatuses => outbox[i].reason = status[o]
        ELSE EventsFor(o) = {}

\* Every transaction keeps it: the order.failed row is written in the one that
\* fails the order, and an order fails once.
LEMMA PgStepEventInv == PgTypeOK /\ EventInv /\ PgStep => EventInv'
<1>. SUFFICES ASSUME PgTypeOK, EventInv, PgStep PROVE EventInv'
  OBVIOUS
<1>. USE DEF IsFailureTerminalAfterPay, FailedStatuses
<1>0. /\ status \in [Orders -> Statuses] /\ outbox \in Seq(OutboxRows)
  BY DEF PgTypeOK
<1>1. ASSUME UNCHANGED outbox,
             \A p \in Orders : /\ IsFailureTerminalAfterPay(p)' <=> IsFailureTerminalAfterPay(p)
                               /\ status'[p] = status[p] \/ status'[p] \notin FailedStatuses
      PROVE  EventInv'
  <2>1. \A p \in Orders : EventsFor(p)' = EventsFor(p)
    BY <1>1 DEF EventsFor
  <2>. QED
    BY <1>1, <2>1 DEF EventInv
<1>2. ASSUME NEW o \in Orders,
             InsertReservation(o) \/ (\E now \in Phases : MarkPaid(o, now)) \/ CompensateOrder(o)
      PROVE  EventInv'
  <2>1. /\ UNCHANGED outbox
        /\ \A p \in Orders : /\ IsFailureTerminalAfterPay(p)' <=> IsFailureTerminalAfterPay(p)
                             /\ status'[p] = status[p] \/ status'[p] \notin FailedStatuses
    BY <1>0, <1>2 DEF InsertReservation, AlreadyBought, MarkPaid, CompensateOrder, CanCompensate
  <2>. QED
    BY <1>1, <2>1
<1>3. ASSUME NEW o \in Orders, NEW to \in FailedStatuses, FailOrder(o, to) PROVE EventInv'
  <2>. DEFINE n == Len(outbox) + 1
              row == [order |-> o, reason |-> to]
  <2>1. /\ status[o] = "awaiting_payment" /\ status' = [status EXCEPT ![o] = to]
        /\ outbox' = Append(outbox, row)
    BY <1>3 DEF FailOrder
  <2>2. row \in OutboxRows /\ row.order = o /\ row.reason = to
    BY DEF OutboxRows
  <2>3. /\ Len(outbox') = n /\ Len(outbox) \in Nat
        /\ \A i \in 1..Len(outbox) : outbox'[i] = outbox[i]
        /\ outbox'[n] = row
    BY <1>0, <2>1, <2>2, AppendProperties
  <2>4. /\ DOMAIN outbox = 1..Len(outbox) /\ outbox' \in Seq(OutboxRows)
        /\ DOMAIN outbox' = 1..n
    BY <1>0, <2>1, <2>2, <2>3, AppendProperties
  <2>5. n \notin 1..Len(outbox) /\ 1..n = (1..Len(outbox)) \cup {n}
    BY <2>3
  <2>6. \A p \in Orders : EventsFor(p)' = IF p = o THEN EventsFor(p) \cup {n} ELSE EventsFor(p)
    BY <2>2, <2>3, <2>4, <2>5 DEF EventsFor
  <2>7. EventsFor(o)' = {n}
    BY <2>1, <2>6 DEF EventInv
  <2>8. ASSUME NEW p \in Orders, p # o
        PROVE  /\ IsFailureTerminalAfterPay(p)' <=> IsFailureTerminalAfterPay(p)
               /\ EventsFor(p)' = EventsFor(p)
               /\ status'[p] = status[p]
    BY <1>0, <2>1, <2>6, <2>8
  <2>9. \A i \in DOMAIN outbox : i \in DOMAIN outbox' /\ outbox'[i] = outbox[i]
    BY <2>3, <2>4, <2>5
  <2>10. n \in DOMAIN outbox' /\ outbox'[n].reason = status'[o] /\ status'[o] \in FailedStatuses
    BY <1>0, <2>1, <2>2, <2>3, <2>4, <2>5
  <2>. HIDE DEF n, row
  <2>. QED
    BY <2>7, <2>8, <2>9, <2>10 DEF EventInv
<1>4. CASE UNCHANGED pgVars
  BY <1>1, <1>4 DEF pgVars
<1>. QED
  BY <1>2, <1>3, <1>4 DEF PgStep

\* However webhooks, redeliveries and sweeps race, an order that fails leaves one
\* order.failed row, for the reason it failed for, and no other order leaves any.
THEOREM PaymentOneEvent == Spec => []OneEventPerFailure
<1>1. Init => EventInv
  BY DEF Init, PgInit, EventInv, EventsFor, IsFailureTerminalAfterPay, FailedStatuses
<1>2. PayTypeOK /\ EventInv /\ [Next]_vars => EventInv'
  BY NextIsPgStep, PgStepEventInv DEF PayTypeOK
<1>3. EventInv => OneEventPerFailure
  <2>. SUFFICES ASSUME EventInv, NEW o \in Orders
                PROVE  /\ Cardinality(EventsFor(o)) = IF IsFailureTerminalAfterPay(o) THEN 1 ELSE 0
                       /\ status[o] \in FailedStatuses =>
                              \A i \in EventsFor(o) : outbox[i].reason = status[o]
    BY DEF OneEventPerFailure
  <2>1. CASE IsFailureTerminalAfterPay(o)
    BY <2>1, FS_Singleton DEF EventInv
  <2>2. CASE ~IsFailureTerminalAfterPay(o)
    <3>1. EventsFor(o) = {} /\ Cardinality({}) = 0
      BY <2>2, FS_EmptySet DEF EventInv
    <3>. QED
      BY <2>2, <3>1
  <2>. QED
    BY <2>1, <2>2
<1>. QED
  BY <1>1, <1>2, <1>3, SpecPayTypeOK, PTL DEF Spec

-----------------------------------------------------------------------------
(* What a process accepts of its configuration *)

\* The parameters of the components are in the ranges the models assume of them:
\* no batch of none, no message without an attempt, and an order in 'charging' or
\* failed is listed before it is given up. (The relay's batch size is not tested.)
THEOREM LoadedIsUsable ==
    ASSUME NEW c \in Configurations, Loads(c)
    PROVE  /\ c.Worker.StreamReadCount \in Nat \ {0}
           /\ c.Worker.MaxRetries \in Nat \ {0}
           /\ c.Recon.BatchSize \in Nat \ {0}
           /\ c.Recon.ChargingThreshold < c.Recon.MaxChargingAge
           /\ c.Saga.BatchSize \in Nat \ {0}
           /\ c.Saga.StuckThreshold < c.Saga.MaxFailedAge
<1> DEFINE d == LoadConfig(c)
<1>1. d.Worker = c.Worker /\ d.Recon = c.Recon /\ d.Saga = c.Saga
    BY DEF LoadConfig, Configurations
<1>2. AllPositive(d.Worker) /\ ReconAccepted(d.Recon) /\ SagaAccepted(d.Saga)
    BY DEF Loads, Validate
<1>3. c.Worker \in [WorkerFields -> Int] /\ c.Recon \in [ReconFields -> Int]
          /\ c.Saga \in [SagaFields -> Int]
    BY DEF Configurations
<1>4. c.Worker["StreamReadCount"] > 0 /\ c.Worker["MaxRetries"] > 0
    BY <1>1, <1>2, <1>3 DEF AllPositive, WorkerFields
<1>5. c.Recon["BatchSize"] > 0 /\ c.Saga["BatchSize"] > 0
    BY <1>1, <1>2, <1>3 DEF AllPositive, ReconAccepted, SagaAccepted, ReconFields, SagaFields
<1> QED
    BY <1>1, <1>2, <1>3, <1>4, <1>5
    DEF ReconAccepted, SagaAccepted, WorkerFields, ReconFields, SagaFields

\* What LoadConfig accepts, the reconciler and the watchdog do not refuse later:
\* Validate repeats the tests of their own configurations. Those of the sweeper
\* and of the drift detector are not all repeated.
THEOREM LoadedIsNotRefused ==
    ASSUME NEW c \in Configurations, Loads(c)
    PROVE  NewReconConfig(c) /\ NewSagaConfig(c)
<1> DEFINE d == LoadConfig(c)
<1>1. d.Recon = c.Recon /\ d.Saga = c.Saga
    BY DEF LoadConfig, Configurations
<1>2. ReconAccepted(d.Recon) /\ SagaAccepted(d.Saga)
    BY DEF Loads, Validate
<1>3. c.Recon \in [ReconFields -> Int] /\ c.Saga \in [SagaFields -> Int]
    BY DEF Configurations
<1>4. /\ c.Recon["SweepInterval"] > 0 /\ c.Recon["ChargingThreshold"] > 0
      /\ c.Recon["GatewayTimeout"] > 0 /\ c.Recon["BatchSize"] > 0
    BY <1>1, <1>2, <1>3 DEF AllPositive, ReconAccepted, ReconFields
<1>5. /\ c.Saga["WatchdogInterval"] > 0 /\ c.Saga["StuckThreshold"] > 0
      /\ c.Saga["BatchSize"] > 0
    BY <1>1, <1>2, <1>3 DEF AllPositive, SagaAccepted, SagaFields
<1> QED
    BY <1>1, <1>2, <1>4, <1>5
    DEF NewReconConfig, NewSagaConfig, ReconValid, SagaValid, ReconAccepted, SagaAccepted

\* In production payments go to Stripe, with a key that is no publishable one and
\* a test key only on demand, nothing of the development setup is left, and
\* the admin stream is served.
THEOREM ProductionIsReal ==
    ASSUME NEW c \in Configurations, ServerStarts(c), Production(c)
    PROVE  /\ PaymentGateway(c) = "StripeGateway"
           /\ c.Payment.Stripe.APIKey # "pk_live"
           /\ c.Payment.Stripe.APIKey \in TestKeys => c.Payment.Stripe.AllowTestKey
           /\ ~c.LocalRedis /\ ~c.LocalKafka /\ ~c.EnableTestEndpoints
           /\ AdminJWT(c) = "checked"
<1> DEFINE d == LoadConfig(c)
<1>1. /\ d.Env = c.Env /\ d.Payment.Provider = c.Payment.Provider
      /\ d.Payment.Stripe.APIKey = c.Payment.Stripe.APIKey
      /\ d.Payment.Stripe.AllowTestKey = c.Payment.Stripe.AllowTestKey
      /\ d.LocalRedis = c.LocalRedis /\ d.LocalKafka = c.LocalKafka
      /\ d.EnableTestEndpoints = c.EnableTestEndpoints
      /\ d.AdminStream.JWTLength = c.AdminStream.JWTLength
    BY DEF LoadConfig, Configurations
<1>2. ProductionAccepted(d) /\ ProviderAccepted(d) /\ StripeAccepted(d) /\ AdminAccepted(d)
    BY DEF ServerStarts, Loads, Validate
<1>3. Production(d)
    BY <1>1 DEF Production
<1>4. c.Payment.Provider = "stripe" /\ c.Payment.Stripe.APIKey # ""
    BY <1>1, <1>2, <1>3 DEF ProductionAccepted, ProviderAccepted, StripeAccepted, Mock
<1> QED
    BY <1>1, <1>2, <1>3, <1>4
    DEF PaymentGateway, NewStripeGateway, AdminJWT, ProductionAccepted, StripeAccepted, AdminAccepted

\* The server never serves the mock provider. Its webhook handler needs the legacy
\* secret, LoadConfig copies that into the one of Stripe, and Validate takes it
\* there for credentials of Stripe beside the mock.
THEOREM MockIsNeverServed ==
    ASSUME NEW c \in Configurations, ServerStarts(c)
    PROVE  c.Payment.Provider = "stripe"
<1> DEFINE d == LoadConfig(c)
<1>1. d.Payment.Provider = c.Payment.Provider
    BY DEF LoadConfig, Configurations
<1>2. d.Payment.Stripe.WebhookSecret # Unset
    BY DEF LoadConfig, Configurations, ServerStarts, WebhookHandlerBuilds
<1>3. ProviderAccepted(d)
    BY DEF ServerStarts, Loads, Validate
<1> QED
    BY <1>1, <1>2, <1>3 DEF ProviderAccepted, Mock
=============================================================================
