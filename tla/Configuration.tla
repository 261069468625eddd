--------------------------- MODULE Configuration ----------------------------
(***************************************************************************)
(* The configuration of the exporter (internal/config/file.go): what a     *)
(* configuration text says, the defaults it gets, and what validate        *)
(* accepts.  Only the settings the start of the program depends on are     *)
(* kept; an address, a password or a path is given or empty.               *)
(***************************************************************************)
EXTENDS Integers, Sequences

CONSTANTS
    None,             \* absent
    ServerIds,        \* instance ids; an empty one is None
    DefaultPoll,      \* the 15s of poll_interval, in ticks
    DefaultGC,        \* the 60s of gc_ttl, in ticks
    DefaultMaxAge     \* the 24h of geo_ip.max_age, in ticks

A2SConfig == [address : BOOLEAN, interval : Int]
RConConfig == [address : BOOLEAN, password : BOOLEAN, interval : Int]

ServerDefinition == [id   : ServerIds \cup {None},
                     a2s  : A2SConfig \cup {None},
                     rcon : RConConfig \cup {None}]

\* Label names as the checks tell them apart; "taken" is a name the metrics
\* of the exporter itself carry, such as instance_id.
LabelNames == {"empty", "reserved", "underscored", "malformed", "taken", "free"}

Config == [servers : Seq(ServerDefinition),
           gc      : Int,
           geoPath : BOOLEAN,
           geoURL  : BOOLEAN,
           maxAge  : Int,
           labels  : SUBSET [name : LabelNames, value : BOOLEAN]]

\* A text parses or does not, and may turn the updates of the GeoIP database
\* off by a max_age of 0.
Text == [parses : BOOLEAN, updatesOff : BOOLEAN, cfg : Config]

ASSUME ConfigurationAssumption ==
    /\ None \notin ServerIds \cup A2SConfig \cup RConConfig
    /\ {DefaultPoll, DefaultGC, DefaultMaxAge} \subseteq Nat \ {0}

-----------------------------------------------------------------------------
\* The zero Config, which LoadConfig starts from.
NewConfig == [servers |-> <<>>, gc |-> 0, geoPath |-> FALSE, geoURL |-> FALSE,
              maxAge |-> 0, labels |-> {}]

\* defaults.Set: a value the text sets to zero gets the default all the same.
OrDefault(value, default) == IF value = 0 THEN default ELSE value

PollerWithDefaults(poller) ==
    IF poller = None THEN None
    ELSE [poller EXCEPT !.interval = OrDefault(poller.interval, DefaultPoll)]

ServerWithDefaults(srv) ==
    [srv EXCEPT !.a2s = PollerWithDefaults(@), !.rcon = PollerWithDefaults(@)]

WithDefaults(cfg) ==
    [cfg EXCEPT
       !.servers = [n \in DOMAIN @ |-> ServerWithDefaults(@[n])],
       !.gc      = OrDefault(@, DefaultGC),
       !.geoPath = TRUE,
       !.geoURL  = TRUE,
       !.maxAge  = OrDefault(@, DefaultMaxAge)]

validateExtraLabels(labels) ==
    \A label \in labels : label.value /\ label.name \in {"taken", "free"}

validate(cfg) ==
    /\ \A n \in DOMAIN cfg.servers :
          LET srv == cfg.servers[n] IN
          /\ srv.id # None
          /\ \A k \in DOMAIN cfg.servers : cfg.servers[k].id = srv.id => k = n
          /\ srv.a2s # None => srv.a2s.address
          /\ srv.rcon # None => srv.rcon.address /\ srv.rcon.password
    /\ validateExtraLabels(cfg.labels)

\* LoadConfig of the text at the path, None if there is no file.
Parses(text) == text # None => text.parses
Loaded(text) == WithDefaults(IF text = None THEN NewConfig ELSE text.cfg)
Accepted(text) == Parses(text) /\ validate(Loaded(text))

\* time.NewTicker panics unless its interval is positive.
Intervals(cfg) ==
    {cfg.gc} \cup {cfg.servers[n].a2s.interval :
                     n \in {m \in DOMAIN cfg.servers : cfg.servers[m].a2s # None}}
             \cup {cfg.servers[n].rcon.interval :
                     n \in {m \in DOMAIN cfg.servers : cfg.servers[m].rcon # None}}

TickersPanic(cfg) == \E interval \in Intervals(cfg) : interval <= 0

\* MustRegister panics on a constant label that the metrics already have.
RegisterPanics(cfg) == \E label \in cfg.labels : label.name = "taken"
=============================================================================
