---------------------------- MODULE ModuleWiring ----------------------------
(***************************************************************************)
(* AuthModule of auth.module.ts: how the settings of an application become *)
(* the options of the module, which of them it refuses, which providers    *)
(* the options bring to life, and what is closed when the module ends.     *)
(*                                                                         *)
(* A secret is "absent", the "default" of auth.config.ts or the            *)
(* application's "own".  The limit of logins can be switched on in two     *)
(* places: options.rateLimit ("module"), which creates the limiter, and    *)
(* options.auth.rateLimit ("service"), which makes login ask it, about the *)
(* calls that name the ip of their client.                                 *)
(***************************************************************************)
EXTENDS Deployment

CONSTANT Applications  \* the settings a run starts from

VARIABLES
    settings,     \* what the application passes to the module
    phase,        \* "boot", "running", "failed", or "closing" once the hooks of a shutdown run
    secret,       \* what TOKEN_STRATEGY signs with: "none" for random tokens, and until it is there
    connections   \* Redis connections that are open: "app", "store", "client"

wiringVars == <<settings, phase, secret, connections>>

Secrets == {"absent", "default", "own"}
Limits == SUBSET {"module", "service"}

\* AuthModuleOptions, and AuthFrameworkConfig for forConfig: its one rateLimit
\* is written as both places, and it cannot carry a connection.  valid: every
\* number is in the range that auth.config.ts demands, as a window of 1 s at least.
Settings ==
    {s \in [entry : {"register", "registerAsync", "forConfig"},
            jwt : Secrets, signature : Secrets,
            randomToken : BOOLEAN, valid : BOOLEAN, useRedis : BOOLEAN, redisClient : BOOLEAN, limit : Limits] :
        s.entry = "forConfig" => ~s.redisClient /\ s.limit \in {{}, {"module", "service"}}}

ASSUME WiringAssumption == Applications \subseteq Settings

WiringTypeOK ==
    /\ settings \in Applications
    /\ phase \in {"boot", "running", "failed", "closing"}
    /\ secret \in {"none", "default", "own"}
    /\ connections \subseteq {"app", "store", "client"}

\* mapFrameworkConfig: a missing secret becomes the default one, and rateLimit
\* goes to options.auth only.
MapFrameworkConfig(s) ==
    [jwt |-> IF s.jwt = "own" THEN "own" ELSE "default",
     signature |-> s.signature,
     limit |-> s.limit \ {"module"}]

Options ==
    IF settings.entry = "forConfig" THEN MapFrameworkConfig(settings)
    ELSE [jwt |-> settings.jwt, signature |-> settings.signature, limit |-> settings.limit]

\* validateSync of the decorators of AuthFrameworkConfig: of forConfig alone.
Validated == settings.entry = "forConfig" => settings.valid

\* validateSecrets: it refuses the default secrets where the options name them.
SecretsValid == Options.jwt # "default" /\ Options.signature # "default"

\* TOKEN_STRATEGY: without a jwt section JwtStrategy gets the default secret,
\* which validateSecrets did not find in the options.
SigningSecret ==
    IF settings.randomToken THEN "none"
    ELSE IF Options.jwt = "own" THEN "own" ELSE "default"

\* registerAsync and forConfig always list SignatureGuard, whose constructor
\* reads the section that may be missing; register lists it on demand.
SignatureGuardFails == settings.entry # "register" /\ Options.signature = "absent"

\* RATE_LIMITER exists, and AUTH_CONFIG tells login to ask it about the calls that
\* name an ip.  With one of the two places alone, as in docs/usage.md:533-544 and
\* always under forConfig, no login is limited.
Limited == {"module", "service"} \subseteq Options.limit

\* SESSION_STORE and REDIS_CLIENT each open a connection of their own when the
\* application brings none.
Opened ==
    IF ~settings.useRedis THEN {}
    ELSE IF settings.redisClient THEN {"app"} ELSE {"store", "client"}

WiringInit ==
    /\ settings \in Applications
    /\ backend = IF settings.useRedis THEN "redis" ELSE "memory"
    /\ phase = "boot"
    /\ secret = "none"
    /\ connections = IF settings.redisClient THEN {"app"} ELSE {}

Start ==
    /\ phase = "boot"
    /\ Validated /\ SecretsValid /\ ~SignatureGuardFails
    /\ phase' = "running"
    /\ secret' = SigningSecret
    /\ connections' = connections \cup Opened
    /\ UNCHANGED settings

\* The options are refused before a provider exists, the constructor of the
\* guard fails after the connections are open.
FailToStart ==
    /\ phase = "boot"
    /\ ~Validated \/ ~SecretsValid \/ SignatureGuardFails
    /\ phase' = "failed"
    /\ connections' = IF Validated /\ SecretsValid THEN connections \cup Opened ELSE connections
    /\ UNCHANGED <<settings, secret>>

\* onModuleDestroy of RedisLifecycleService: REDIS_CLIENT quits, whoever uses it.
Stop ==
    /\ phase = "running"
    /\ phase' = "closing"
    /\ connections' = IF settings.useRedis THEN connections \ {"app", "client"} ELSE connections
    /\ UNCHANGED <<settings, secret>>

\* A command sent now reaches the stores: REDIS_CLIENT has not quit, or there is none.
StoresAnswer == backend = "redis" => connections \cap {"app", "client"} # {}

=============================================================================
