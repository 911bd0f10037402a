---------------------------- MODULE Configuration ----------------------------
(***************************************************************************)
(* What a process of the program accepts of its configuration before it    *)
(* starts: LoadConfig with Validate, which every process runs, and the     *)
(* constructors that refuse a part of it later.                            *)
(*                                                                         *)
(* A configuration c is a record of what Validate looks at. Durations are  *)
(* milliseconds, DLQRetention is seconds. A text is kept as far as the     *)
(* program tells texts apart: an environment by its name in lower case     *)
(* without blanks, an API key by its kind, an address by being the default *)
(* of localhost, a secret by its value.                                    *)
(***************************************************************************)
EXTENDS Integers

CONSTANTS Secrets,   \* the values of the webhook secrets
          Unset      \* a secret, or a key, that is not set

Environments == {"", "production", "staging", "development"}
Providers == {"", "mock", "stripe", "stipe"}
TestKeys == {"sk_test", "rk_test", "pk_test"}
ApiKeys == TestKeys \cup {"sk_live", "rk_live", "pk_live", "other", ""}

WorkerFields == {"MaxRetries", "RetryBaseDelay", "StreamReadCount", "StreamBlockTimeout",
                 "FailureTimeout", "PendingBlockTimeout", "ReadErrorBackoff",
                 "MaxConsecutiveReadErrors", "DLQRetention"}
ReconFields == {"SweepInterval", "ChargingThreshold", "GatewayTimeout", "MaxChargingAge", "BatchSize"}
SagaFields == {"WatchdogInterval", "StuckThreshold", "MaxFailedAge", "BatchSize"}
ExpiryFields == {"SweepInterval", "ExpiryGracePeriod", "MaxAge", "BatchSize"}
DriftFields == {"SweepInterval", "AbsoluteTolerance", "MaxConsecutiveFailures"}

Configurations ==
    [Env : Environments, DSN : BOOLEAN, Port : BOOLEAN,
     LocalRedis : BOOLEAN, LocalKafka : BOOLEAN, EnableTestEndpoints : BOOLEAN,
     Payment : [Provider : Providers, WebhookSecret : Secrets \cup {Unset},
                Stripe : [APIKey : ApiKeys, AllowTestKey : BOOLEAN,
                          WebhookSecret : Secrets \cup {Unset}]],
     Worker : [WorkerFields -> Int], Recon : [ReconFields -> Int],
     Saga : [SagaFields -> Int], Expiry : [ExpiryFields -> Int],
     Drift : [DriftFields -> Int], AdminStream : [JWTLength : Nat, JWTMaxTTL : Int]]

-----------------------------------------------------------------------------
(* The defaults of the fields, by the tags of the structures *)

WorkerDefaults ==
    [MaxRetries |-> 3, RetryBaseDelay |-> 100, StreamReadCount |-> 10,
     StreamBlockTimeout |-> 2000, FailureTimeout |-> 5000, PendingBlockTimeout |-> 100,
     ReadErrorBackoff |-> 1000, MaxConsecutiveReadErrors |-> 30, DLQRetention |-> 2592000]

ReconDefaults ==
    [SweepInterval |-> 120000, ChargingThreshold |-> 120000, GatewayTimeout |-> 10000,
     MaxChargingAge |-> 86400000, BatchSize |-> 100]

SagaDefaults ==
    [WatchdogInterval |-> 60000, StuckThreshold |-> 60000, MaxFailedAge |-> 86400000,
     BatchSize |-> 100]

ExpiryDefaults ==
    [SweepInterval |-> 30000, ExpiryGracePeriod |-> 2000, MaxAge |-> 86400000, BatchSize |-> 100]

DriftDefaults ==
    [SweepInterval |-> 60000, AbsoluteTolerance |-> 100, MaxConsecutiveFailures |-> 5]

StripeDefaults == [APIKey |-> "", AllowTestKey |-> FALSE, WebhookSecret |-> Unset]

PaymentDefaults == [Provider |-> "mock", WebhookSecret |-> Unset, Stripe |-> StripeDefaults]

AdminStreamDefaults == [JWTLength |-> 0, JWTMaxTTL |-> 3600000]

\* Nothing set but the database.
Defaults ==
    [Env |-> "production", DSN |-> TRUE, Port |-> TRUE,
     LocalRedis |-> TRUE, LocalKafka |-> TRUE, EnableTestEndpoints |-> FALSE,
     Payment |-> PaymentDefaults, Worker |-> WorkerDefaults, Recon |-> ReconDefaults,
     Saga |-> SagaDefaults, Expiry |-> ExpiryDefaults, Drift |-> DriftDefaults,
     AdminStream |-> AdminStreamDefaults]

-----------------------------------------------------------------------------
(* Config.Validate, section by section *)

AllPositive(r) == \A f \in DOMAIN r : r[f] > 0

\* An environment that was never named is production.
normalizedAppEnv(e) == IF e = "" THEN "production" ELSE e

Production(c) == normalizedAppEnv(c.Env) = "production"

Mock(c) == c.Payment.Provider \in {"mock", ""}

ProductionAccepted(c) ==
    Production(c) =>
        /\ ~c.LocalRedis
        /\ ~c.LocalKafka
        /\ ~c.EnableTestEndpoints
        /\ ~Mock(c)

\* A provider that is known, and no credentials of Stripe beside the mock.
ProviderAccepted(c) ==
    /\ c.Payment.Provider \in {"mock", "stripe", ""}
    /\ Mock(c) => c.Payment.Stripe.APIKey = "" /\ c.Payment.Stripe.WebhookSecret = Unset

StripeAccepted(c) ==
    c.Payment.Provider = "stripe" =>
        /\ c.Payment.Stripe.APIKey # ""
        /\ Production(c) => /\ c.Payment.Stripe.APIKey \in TestKeys => c.Payment.Stripe.AllowTestKey
                            /\ c.Payment.Stripe.APIKey # "pk_live"
        /\ c.Payment.Stripe.WebhookSecret # Unset \/ c.Payment.WebhookSecret # Unset

ReconAccepted(r) == AllPositive(r) /\ r.MaxChargingAge > r.ChargingThreshold

SagaAccepted(r) == AllPositive(r) /\ r.MaxFailedAge > r.StuckThreshold

DriftAccepted(r) == r.SweepInterval > 0 /\ r.AbsoluteTolerance >= 0

AdminAccepted(c) ==
    IF c.AdminStream.JWTLength = 0
    THEN ~Production(c)
    ELSE c.AdminStream.JWTLength >= 32 /\ c.AdminStream.JWTMaxTTL > 0

Validate(c) ==
    /\ c.DSN
    /\ c.Port
    /\ ProductionAccepted(c)
    /\ ProviderAccepted(c)
    /\ StripeAccepted(c)
    /\ AllPositive(c.Worker)
    /\ ReconAccepted(c.Recon)
    /\ SagaAccepted(c.Saga)
    /\ DriftAccepted(c.Drift)
    /\ AdminAccepted(c)

\* LoadConfig: the legacy secret stands in for that of Stripe.
LoadConfig(c) ==
    [c EXCEPT !.Payment.Stripe.WebhookSecret = IF @ = Unset THEN c.Payment.WebhookSecret ELSE @]

Loads(c) == Validate(LoadConfig(c))

-----------------------------------------------------------------------------
(* What the constructors of the processes ask for *)

\* newHandlerFromConfig of the webhook, and that of the test endpoints.
WebhookHandlerBuilds(c) == c.Payment.WebhookSecret # Unset

TestHandlerBuilds(c) == c.Payment.WebhookSecret # Unset

NewStripeGateway(c) == c.Payment.Stripe.APIKey # ""

\* NewPaymentGateway.
PaymentGateway(c) ==
    IF c.Payment.Provider = "stripe" /\ NewStripeGateway(c) THEN "StripeGateway"
    ELSE IF Mock(c) THEN "MockGateway" ELSE "none"

\* newAdminJWTMiddleware: without a secret every admin request is answered 503.
AdminJWT(c) == IF c.AdminStream.JWTLength = 0 THEN "unavailable" ELSE "checked"

\* The Validate of each component's own configuration, which tests a section again,
\* not always as Config.Validate does.
ReconValid(r) ==
    /\ r.SweepInterval > 0 /\ r.ChargingThreshold > 0 /\ r.GatewayTimeout > 0
    /\ r.MaxChargingAge > r.ChargingThreshold
    /\ r.BatchSize > 0

SagaValid(r) ==
    /\ r.WatchdogInterval > 0 /\ r.StuckThreshold > 0
    /\ r.MaxFailedAge > r.StuckThreshold
    /\ r.BatchSize > 0

ExpiryValid(r) ==
    /\ r.SweepInterval > 0 /\ r.ExpiryGracePeriod >= 0
    /\ r.MaxAge > 0 /\ r.BatchSize > 0

DriftValid(r) ==
    r.SweepInterval > 0 /\ r.AbsoluteTolerance >= 0 /\ r.MaxConsecutiveFailures > 0

\* The adapters hand the sections over as they are.
NewReconConfig(c) == ReconValid(c.Recon)
NewSagaConfig(c) == SagaValid(c.Saga)
NewExpiryConfig(c) == ExpiryValid(c.Expiry)
NewDriftConfig(c) == DriftValid(c.Drift)

ServerStarts(c) ==
    /\ Loads(c)
    /\ WebhookHandlerBuilds(c)
    /\ TestHandlerBuilds(c)
    /\ PaymentGateway(c) # "none"

ReconStarts(c) ==
    /\ Loads(c)
    /\ NewReconConfig(c)
    /\ NewDriftConfig(c)
    /\ PaymentGateway(c) # "none"

WatchdogStarts(c) == Loads(c) /\ NewSagaConfig(c)

SweeperStarts(c) == Loads(c) /\ NewExpiryConfig(c)
=============================================================================
