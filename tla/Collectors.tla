----------------------------- MODULE Collectors -----------------------------
(***************************************************************************)
(* The collectors and the registry that discovers them: the collector      *)
(* program (cmd/collector, internal/collectorapp), one process per         *)
(* collector, and the single pass over collectors.toml that the agent      *)
(* server makes before it listens (internal/collector/registry.go).        *)
(*                                                                         *)
(* The registry asks one endpoint after the other and waits for each       *)
(* answer without a timeout.  At an endpoint's address there may be no     *)
(* collector yet, a collector, another program that answers with an error  *)
(* or with some JSON object, or one that never answers.                    *)
(***************************************************************************)
EXTENDS Integers, Sequences

CONSTANTS
    Collector,      \* the collectors, each at an address of its own
    Token,          \* the tokens that can be configured
    Unset           \* no value: no token, no file, no reply

Endpoint == [id : Collector, enabled : BOOLEAN,
             token : Token \cup {Unset}, fromEnv : BOOLEAN]

CollectorConfig == [complete : BOOLEAN, mode : {"", "static-token", "mutual-tls"},
                    token : Token \cup {Unset}, env : Token \cup {Unset},
                    enabled : SUBSET {"system.info", "files.read"}]

Registration == [endpoint : Endpoint, tools : SUBSET {"system.info"}]

VARIABLES
    config,         \* config[c]: the collector.toml and the token variable of c
    peer,           \* peer[c]: what is at the address of c
    endpoints,      \* collectors.toml, Unset when there is none or it is no TOML
    next,           \* the endpoint readManifest asks, 0 before and after the pass
    found,          \* the registrations of the pass so far
    registrations,  \* Registry.registrations
    early           \* history: the collectors that have served since the pass began

collectorVars == <<config, peer, endpoints, next, found, registrations, early>>

Peer == {"absent", "serving", "stopped", "exited", "error", "json", "silent"}

-----------------------------------------------------------------------------
(* The collector program *)

\* Config.AuthToken: the token, or none, which ends the program.
AuthToken(c) ==
    IF config[c].mode \notin {"", "static-token"} THEN Unset
    ELSE IF config[c].token # Unset THEN config[c].token ELSE config[c].env

\* main: LoadConfig and NewServer, then it listens, if the port is free.
StartCollector(c) ==
    /\ peer[c] = "absent"
    /\ \E to \in {"serving", "exited"} :
        /\ to = "serving" => config[c].complete /\ AuthToken(c) # Unset
        /\ peer' = [peer EXCEPT ![c] = to]
    /\ UNCHANGED <<config, endpoints, next, found, registrations, early>>

StopCollector(c) ==
    /\ peer[c] = "serving" /\ peer' = [peer EXCEPT ![c] = "stopped"]
    /\ early' = early \ {c}
    /\ UNCHANGED <<config, endpoints, next, found, registrations>>

Authorized(c, credential) == credential # Unset /\ credential = AuthToken(c)

\* toolEnabled: an empty list enables every tool there is.
ToolEnabled(c, tool) == config[c].enabled = {} \/ tool \in config[c].enabled

Tools_Unfiltered(c) == {"system.info"}
Tools(c) == {tool \in {"system.info"} : ToolEnabled(c, tool)}

\* The statuses of GET /v1/manifest and POST /v1/tools/<tool>/invoke.
ManifestStatus(c, credential) == IF Authorized(c, credential) THEN 200 ELSE 401

InvokeStatus(c, credential, tool) ==
    IF ~Authorized(c, credential) THEN 401
    ELSE IF tool # "system.info" \/ ~ToolEnabled(c, tool) THEN 404 ELSE 200

-----------------------------------------------------------------------------
(* The registry.  getenv is what os.Getenv yields for the endpoint's variable. *)

ResolveToken(e, getenv) ==
    IF e.token # Unset THEN e.token ELSE IF e.fromEnv THEN getenv ELSE Unset

RegistryInit == next = 0 /\ found = << >> /\ registrations = << >> /\ early = {}

BeginPass ==
    /\ endpoints # Unset
    /\ next' = 1
    /\ early' = {c \in Collector : peer[c] = "serving"}
    /\ UNCHANGED <<config, peer, endpoints, found, registrations>>

Asking == next \in DOMAIN endpoints
Asked == endpoints[next]

AfterFailure_GivesUp == Len(endpoints) + 1
AfterFailure_Retries == next
AfterFailure == next + 1

Skip ==
    /\ Asking /\ ~Asked.enabled
    /\ next' = next + 1
    /\ UNCHANGED <<config, peer, endpoints, found, registrations, early>>

\* The tools of the manifest that comes from an endpoint, if one comes; any JSON object
\* passes for a manifest, whatever tools it names.
Answers(e, getenv) ==
    IF peer[e.id] = "json" THEN SUBSET {"system.info"}
    ELSE IF peer[e.id] = "serving" /\ ManifestStatus(e.id, ResolveToken(e, getenv)) = 200
    THEN {Tools(e.id)} ELSE {}

\* readManifest returns a manifest ...
Discover(getenv) ==
    /\ Asking /\ Asked.enabled
    /\ \E tools \in Answers(Asked, getenv) :
        found' = Append(found, [endpoint |-> Asked, tools |-> tools])
    /\ next' = next + 1
    /\ UNCHANGED <<config, peer, endpoints, registrations, early>>

\* ... or an error, which concerns no other endpoint.
DiscoveryFails(getenv) ==
    /\ Asking /\ Asked.enabled
    /\ peer[Asked.id] # "silent" /\ Answers(Asked, getenv) = {}
    /\ next' = AfterFailure
    /\ UNCHANGED <<config, peer, endpoints, found, registrations, early>>

EndPass ==
    /\ next > Len(endpoints)
    /\ registrations' = found /\ next' = 0
    /\ UNCHANGED <<config, peer, endpoints, found, early>>

\* The registry waits for an answer that does not come.
Blocked == next # 0 /\ Asking /\ Asked.enabled /\ peer[Asked.id] = "silent"

-----------------------------------------------------------------------------
(* Properties *)

\* Types of the collectors' and the registry's state.
CollectorsTypeOK ==
    /\ config \in [Collector -> CollectorConfig] /\ peer \in [Collector -> Peer]
    /\ endpoints \in Seq(Endpoint) \cup {Unset} /\ next \in Nat
    /\ found \in Seq(Registration) /\ registrations \in Seq(Registration)
    /\ early \subseteq Collector

\* The token a registered endpoint resolves to is good for every tool in its manifest,
\* as the collector answers invocations, unless another program has answered for it:
\* registry, authorisation, manifest and invoke of two programs agree.
OfferedToolsRun(getenv) ==
    \A i \in DOMAIN registrations :
        LET e == registrations[i].endpoint
        IN  peer[e.id] # "json" => \A tool \in registrations[i].tools :
                InvokeStatus(e.id, ResolveToken(e, getenv), tool) = 200

\* After the pass an enabled endpoint is registered if its collector takes its token and
\* has served all along, and only if it takes it and has served at all, or another
\* program has answered for it: a failing or disabled endpoint costs no other its place.
RegisteredIffReachable(getenv) ==
    \A i \in DOMAIN endpoints :
        LET e == endpoints[i]
            agreed == Authorized(e.id, ResolveToken(e, getenv))
            registered == \E k \in DOMAIN registrations : registrations[k].endpoint = e
        IN  /\ registered =>
                /\ e.enabled
                /\ peer[e.id] = "json" \/ (agreed /\ peer[e.id] \in {"serving", "stopped"})
            /\ e.enabled /\ agreed /\ e.id \in early => registered

=============================================================================
