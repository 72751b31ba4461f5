---------------------------- MODULE AgentServer -----------------------------
(***************************************************************************)
(* The agent server from its start to its end (cmd/agent-server/main.go):  *)
(* the environment and .env become a configuration                         *)
(* (internal/app/config.go), the model manager starts, the collector       *)
(* registry makes its pass, and the server listens and decides whom it     *)
(* upgrades to a websocket (internal/transport/ws/auth.go).                *)
(*                                                                         *)
(* The model manager's goroutine, the collectors and the people who edit   *)
(* models.toml go on meanwhile.                                            *)
(***************************************************************************)
EXTENDS ModelManager, Collectors

CONSTANTS
    Origin,         \* the origins of web pages
    Malformed,      \* an entry of the origin list without scheme or host
    Unreadable,     \* a .env that exists and cannot be read
    Setup           \* the situations in which the program is started

VARIABLES
    env,            \* the environment: tokens, "yes", "no", hosts, a set of origins,
                    \* Blank when set to nothing, Unset when not set
    dotenv,         \* .env
    phase           \* where main stands

serverVars == <<env, dotenv, phase>>
vars == <<managerVars, collectorVars, serverVars>>

Variable == {"AGENT_API_TOKEN", "AGENT_ALLOW_INSECURE_DEV", "AGENT_ALLOW_QUERY_TOKEN",
             "AGENT_HOST", "AGENT_ALLOWED_ORIGINS", "AGENT_MODEL_CONFIG_WATCH",
             "DIOR_COLLECTOR_TOKEN"}

ASSUME SetupAssumption ==
    /\ Malformed \notin Origin
    /\ \A s \in Setup :
        /\ DOMAIN s.env = Variable
        /\ s.config \in [Collector -> CollectorConfig] /\ s.peer \in [Collector -> Peer]
        /\ s.endpoints \in Seq(Endpoint) \cup {Unset}

-----------------------------------------------------------------------------
(* LoadEnvFile, LoadConfig and validateConfig *)

\* A variable that is set, be it to nothing, is not taken from .env.
Loaded ==
    [v \in Variable |-> IF dotenv # NoFile /\ env[v] = Unset THEN dotenv[v] ELSE env[v]]

Given(value) == value \notin {Unset, Blank}
StringDefault(value, default) == IF Given(value) THEN value ELSE default
BoolValue(value) == value = "yes"
BoolDefault(value, default) ==
    IF value = "yes" THEN TRUE ELSE IF value = "no" THEN FALSE ELSE default
ParseOrigins(value) == StringDefault(value, {}) \ {Malformed}

LoadConfig(e) ==
    [host    |-> StringDefault(e["AGENT_HOST"], "0.0.0.0"),
     token   |-> StringDefault(e["AGENT_API_TOKEN"], Blank),
     dev     |-> BoolValue(e["AGENT_ALLOW_INSECURE_DEV"]),
     query   |-> BoolValue(e["AGENT_ALLOW_QUERY_TOKEN"]),
     origins |-> ParseOrigins(e["AGENT_ALLOWED_ORIGINS"]),
     watch   |-> BoolDefault(e["AGENT_MODEL_CONFIG_WATCH"], TRUE)]

IsLoopbackHost(host) == host \in {"localhost"}

Valid_AnyHost(c) == c.token # Blank \/ c.dev
Valid(c) == c.token # Blank \/ (c.dev /\ IsLoopbackHost(c.host))

\* os.Getenv, for the registry.
Getenv == StringDefault(env["DIOR_COLLECTOR_TOKEN"], Unset)

-----------------------------------------------------------------------------
(* authenticate and originAllowed, on the credentials and the origin of a request *)

Credential(r, c) ==
    IF r.bearer # Blank THEN r.bearer
    ELSE IF r.cookie # Blank THEN r.cookie
    ELSE IF c.query THEN r.query ELSE Blank

Authenticated(r, c) ==
    \/ c.token = Blank /\ c.dev
    \/ /\ Credential(r, c) # Blank /\ c.token # Blank
       /\ Credential(r, c) = c.token

OriginAllowed(r, c) == c.origins = {} \/ r.origin = Blank \/ r.origin \in c.origins

Upgrades(r) == Authenticated(r, LoadConfig(env)) /\ OriginAllowed(r, LoadConfig(env))

UpgradeRequest ==
    [bearer : Token \cup {Blank}, cookie : Token \cup {Blank},
     query : Token \cup {Blank}, origin : Origin \cup {Blank}]

-----------------------------------------------------------------------------
(* main *)

Init ==
    /\ ManagerInit /\ ~watch /\ RegistryInit
    /\ \E s \in Setup :
        /\ env = s.env /\ dotenv = s.dotenv
        /\ config = s.config /\ peer = s.peer /\ endpoints = s.endpoints
        /\ file.text = s.text /\ saves = s.saves
    /\ phase = "configuring"

Proceeds(from, to) == phase = from /\ phase' = to /\ UNCHANGED dotenv

\* .env and the configuration are read; the program ends or starts the manager.
Configure ==
    /\ dotenv # Unreadable
    /\ env' = Loaded
    /\ Valid(LoadConfig(env')) /\ watch' = LoadConfig(env').watch
    /\ Proceeds("configuring", "loading")
    /\ Start
    /\ UNCHANGED collectorVars

RefuseToStart ==
    /\ Proceeds("configuring", "exited")
    /\ \/ dotenv = Unreadable
       \/ dotenv # Unreadable /\ ~Valid(LoadConfig(Loaded))
    /\ UNCHANGED <<managerVars, collectorVars, env>>

\* The first load of the models is done before the pass over the collectors ...
StartRegistry_Early == phase = "loading"
StartRegistry == phase = "loading" /\ Started

DiscoverCollectors ==
    /\ StartRegistry
    /\ IF endpoints = Unset
       THEN Proceeds("loading", "opening") /\ UNCHANGED collectorVars
       ELSE Proceeds("loading", "discovering") /\ BeginPass
    /\ UNCHANGED <<managerVars, env>>

AskNext ==
    /\ phase = "discovering"
    /\ Skip \/ Discover(Getenv) \/ DiscoveryFails(Getenv)
    /\ UNCHANGED <<managerVars, serverVars>>

\* ... and the pass before the server listens.
EndDiscovery ==
    /\ Proceeds("discovering", "opening") /\ EndPass
    /\ UNCHANGED <<managerVars, env>>

\* ListenAndServe may find the port taken.
Listen ==
    /\ Proceeds("opening", "serving")
    /\ UNCHANGED <<managerVars, collectorVars, env>>

ListenFails ==
    /\ Proceeds("opening", "exited") /\ Stop /\ UNCHANGED watch
    /\ UNCHANGED <<collectorVars, env>>

\* A signal ends the program: at once before it listens, by Shutdown and Stop afterwards.
Interrupt ==
    /\ Proceeds(phase, "exited")
    /\ Stop /\ UNCHANGED watch
    /\ UNCHANGED <<collectorVars, env>>

\* What goes on beside main, until the process ends.
Reloading == (Reloads \/ Stat) /\ UNCHANGED <<collectorVars, serverVars>>
Editing == (Edits \/ ReadFails) /\ UNCHANGED <<collectorVars, serverVars>>
Collecting ==
    /\ \E c \in Collector : StartCollector(c) \/ StopCollector(c)
    /\ UNCHANGED <<managerVars, serverVars>>

Main == Configure \/ RefuseToStart \/ DiscoverCollectors \/ AskNext \/ EndDiscovery
            \/ Listen \/ ListenFails

Next == Main \/ (phase # "exited" /\ (Interrupt \/ Reloading \/ Editing \/ Collecting))

Spec == Init /\ [][Next]_vars

\* main and the manager's goroutine run, and the ticker fires.  Nothing is assumed of
\* the collectors, of the editors and of the signals.
FairSpec ==
    /\ Spec /\ WF_vars(Main)
    /\ WF_vars(phase # "exited" /\ Reloading /\ Reloads)
    /\ WF_vars(phase # "exited" /\ Reloading /\ Stat)

-----------------------------------------------------------------------------
(* Properties *)

\* Types of all three parts.
TypeOK ==
    /\ ManagerTypeOK /\ CollectorsTypeOK
    /\ DOMAIN env = Variable
    /\ phase \in {"configuring", "loading", "discovering", "opening", "serving", "exited"}

Served == phase = "serving"

\* Whoever is upgraded has shown the token, in the query only where that is allowed; or
\* the server, without a token, listens on the loopback interface alone.  Whoever shows
\* the token in the header is upgraded, but from a page of an origin that is not listed.
OnlyHoldersUpgraded ==
    Served =>
        LET token == env["AGENT_API_TOKEN"]
            listed == StringDefault(env["AGENT_ALLOWED_ORIGINS"], {})
        IN  \A r \in UpgradeRequest :
                /\ Upgrades(r) =>
                    \/ Given(token) /\ token \in {r.bearer, r.cookie}
                    \/ /\ Given(token) /\ token = r.query
                       /\ env["AGENT_ALLOW_QUERY_TOKEN"] = "yes"
                    \/ ~Given(token) /\ env["AGENT_HOST"] = "localhost"
                /\ Given(token) /\ token = r.bearer /\ r.origin \in listed \cup {Blank}
                    => Upgrades(r)

\* The server does not listen before the models are loaded: as long as nobody has
\* changed the file, the first turn gets the model it names.
ServesConfiguredModel ==
    Served /\ saves = 0 /\ readFaults = 0 /\ Parses(file.text)
        => current.model = Resolve(file.text)

\* When the server listens, the registry is complete.
RegistryComplete == Served /\ endpoints # Unset => RegisteredIffReachable(Getenv)

\* The tools the registry has recorded can be invoked with its tokens.
RegisteredToolsRun == OfferedToolsRun(Getenv)

\* The program gets to listen or ends, unless an endpoint never answers.
StartupEnds == <>[](phase \in {"serving", "exited"} \/ Blocked)

=============================================================================
