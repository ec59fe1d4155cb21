---------------------------- MODULE Configuration ----------------------------
(***************************************************************************)
(* What a start of the daemon makes of its environment: config.Load        *)
(* (indexer/internal/config), db.Resolve and db.Open (indexer/internal/db).*)
(*                                                                         *)
(* An environment maps each variable to its trimmed value, Unset for none. *)
(* A number stands for its decimal form; NotANumber is any other text.     *)
(***************************************************************************)
EXTENDS Integers, Sequences

CONSTANTS
    Unset,
    NotANumber,
    HalfInt64,      \* stands for 2^63
    Second          \* the nanoseconds of a second

ASSUME ConfigurationAssumption == HalfInt64 \in Nat \ {0} /\ Second \in Nat \ {0}

\* The tuning variables that must be positive whole numbers.
Counters == {"pollInterval", "batchSize", "rate", "burst", "readTimeout"}

MaxBatchSize == 10000
MinAdminTokenLen == 16

-----------------------------------------------------------------------------
\* config.Load

OrDefault(raw, fallback) == IF raw = Unset THEN fallback ELSE raw

\* Atoi takes what an int holds.
PositiveInt(raw) == raw # NotANumber /\ raw > 0 /\ raw < HalfInt64

\* time.Duration(n) * time.Second: an int64 of nanoseconds, which wraps.
Duration(n) == ((n * Second + HalfInt64) % (2 * HalfInt64)) - HalfInt64

Default == [pollInterval |-> 5, batchSize |-> 100, rate |-> 5, burst |-> 10,
            readTimeout |-> 15]

\* Mutant of ListAccepts: the entries of the bootstrap list go unchecked.
ListAcceptsAny(entries) == TRUE

\* contractList
ListAccepts(entries) == \A n \in DOMAIN entries : entries[n].wellFormed

\* Every check must pass; the first that does not only chooses the message.
LoadAccepts(env) ==
    /\ OrDefault(env.logLevel, "info") \in {"debug", "info", "warn", "error"}
    /\ OrDefault(env.logFormat, "json") \in {"json", "text"}
    /\ OrDefault(env.driver, "sqlite") \in {"sqlite", "postgres"}
    /\ env.dbURL # Unset
    /\ \A v \in {"poolMax", "poolMin"} : env[v] # Unset => PositiveInt(env[v])
    /\ OrDefault(env.insecureTLS, FALSE) \in BOOLEAN
    /\ env.rpcURL = "http"
    /\ env.network \in {"testnet", "futurenet", "mainnet", "local"}
    /\ \A v \in Counters : PositiveInt(OrDefault(env[v], Default[v]))
    /\ OrDefault(env.batchSize, Default.batchSize) <= MaxBatchSize
    /\ ListAccepts(env.bootstrap)
    /\ env.tokenLen # Unset /\ env.tokenLen >= MinAdminTokenLen

\* The Config it returns: poolMax and poolMin are 0 when not set.  The list
\* keeps an entry as often as it is given.  A number of seconds whose duration
\* wraps is accepted like any other.
Load(env) ==
    [driver |-> OrDefault(env.driver, "sqlite"), dbURL |-> env.dbURL,
     poolMax |-> OrDefault(env.poolMax, 0), poolMin |-> OrDefault(env.poolMin, 0),
     insecureTLS |-> OrDefault(env.insecureTLS, FALSE),
     pollInterval |-> Duration(OrDefault(env.pollInterval, Default.pollInterval)),
     readTimeout |-> Duration(OrDefault(env.readTimeout, Default.readTimeout)),
     batchSize |-> OrDefault(env.batchSize, Default.batchSize),
     rate |-> OrDefault(env.rate, Default.rate),
     burst |-> OrDefault(env.burst, Default.burst),
     bootstrap |-> [n \in DOMAIN env.bootstrap |-> env.bootstrap[n].id],
     token |-> env.tokenLen]

-----------------------------------------------------------------------------
\* db.Resolve and db.Open

EngineMax == [sqlite |-> 1, postgres |-> 10]
EngineMin == [sqlite |-> 1, postgres |-> 2]

\* applyPoolOverrides: zero keeps the engine's default.
Override(value, default) == IF value > 0 THEN value ELSE default

Pool(cfg) == [max |-> Override(cfg.poolMax, EngineMax[cfg.driver]),
              min |-> Override(cfg.poolMin, EngineMin[cfg.driver])]

ResolveAccepts(cfg) ==
    /\ cfg.driver \in {"sqlite", "postgres"}
    /\ cfg.driver = "sqlite" =>
          /\ cfg.poolMax \in {0, EngineMax.sqlite}
          /\ cfg.poolMin \in {0, EngineMin.sqlite}
    /\ Pool(cfg).min <= Pool(cfg).max

\* openPostgres refuses a URL whose connection, or whose fallback, carries no
\* TLS.
OpenAccepts(cfg) ==
    /\ cfg.dbURL # "malformed"
    /\ cfg.driver = "postgres" => cfg.insecureTLS \/ cfg.dbURL = "tls"

\* What a start gets past before it migrates.
Accepted(env) ==
    LoadAccepts(env) /\ ResolveAccepts(Load(env)) /\ OpenAccepts(Load(env))

=============================================================================
