----------------------------- MODULE MCPayment ------------------------------
(***************************************************************************)
(* Two orders of different customers, one of two tickets; and a sample of  *)
(* configurations, on which TLC evaluates the theorems of Configuration.   *)
(***************************************************************************)
EXTENDS Payment, TLC

CONSTANTS o1, o2, alice, bob

MCCustomerOf == [o \in Orders |-> IF o = o1 THEN alice ELSE bob]
MCQuantityOf == [o \in Orders |-> IF o = o1 THEN 2 ELSE 1]

-----------------------------------------------------------------------------
Conf == INSTANCE Configuration WITH Secrets <- {"s1", "s2"}, Unset <- "unset"

\* Every choice of the environment and of the credentials, default tunables.
Sample ==
    {[Conf!Defaults EXCEPT !.Env = e, !.LocalRedis = l, !.LocalKafka = l,
                           !.EnableTestEndpoints = t, !.Payment.Provider = p,
                           !.Payment.WebhookSecret = w, !.Payment.Stripe.APIKey = k,
                           !.Payment.Stripe.AllowTestKey = a,
                           !.Payment.Stripe.WebhookSecret = s,
                           !.AdminStream.JWTLength = j] :
        e \in Conf!Environments, l \in BOOLEAN, t \in BOOLEAN, p \in Conf!Providers,
        k \in Conf!ApiKeys, a \in BOOLEAN, s \in {"s1", "unset"}, w \in {"s2", "unset"},
        j \in {0, 16, 32}}

\* The server starts in production and elsewhere, but not on the defaults, and
\* never with the mock provider; the watchdog does start with it.
ASSUME SampleAssumption ==
    /\ \E c \in Sample : Conf!ServerStarts(c) /\ Conf!Production(c)
    /\ \E c \in Sample : Conf!ServerStarts(c) /\ ~Conf!Production(c)
    /\ ~Conf!ServerStarts(Conf!Defaults)
    /\ \A c \in Sample : Conf!ServerStarts(c) => Conf!PaymentGateway(c) = "StripeGateway"
    /\ \E c \in Sample : Conf!WatchdogStarts(c) /\ Conf!Mock(c)

\* A drift detector that tolerates no failure passes Validate and is refused by
\* its own configuration; so is a sweeper whose batches are empty.
ASSUME RefusedLater ==
    \E c \in Sample :
        LET d == [c EXCEPT !.Drift["MaxConsecutiveFailures"] = 0, !.Expiry["BatchSize"] = 0] IN
        /\ Conf!Loads(d)
        /\ ~Conf!NewDriftConfig(d)
        /\ ~Conf!NewExpiryConfig(d)
=============================================================================
