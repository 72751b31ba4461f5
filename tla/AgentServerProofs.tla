-------------------------- MODULE AgentServerProofs --------------------------
(***************************************************************************)
(* Proofs about AgentServer, for any configuration files, environments,    *)
(* collectors and edits: types, the refinement of ModelSnapshots, whom the *)
(* server upgrades, the model it serves first, and what the registry holds *)
(* when it does.                                                           *)
(***************************************************************************)
EXTENDS AgentServer, TLAPS

-----------------------------------------------------------------------------
(* Types *)

LEMMA ResolveTyped ==
    ASSUME NEW text \in RawConfig
    PROVE  Resolve(text) \in Model
<1>1. OrDefault(text.openai, DefaultOpenAI) \in Setting
  BY ManagerAssumption DEF OrDefault, RawConfig
<1>2. OrDefault(text.ollama, DefaultOllama) \in Setting
  BY ManagerAssumption DEF OrDefault, RawConfig
<1>3. QED
  BY <1>1, <1>2 DEF Resolve, Model

\* What an action of the model manager, or of the people who edit the file, may do.
ManagerStep == Start \/ Reloads \/ Stat \/ ReadFails \/ Stop \/ Edits

LEMMA ManagerTypesKept ==
    ASSUME ManagerTypeOK, ManagerStep, watch' \in BOOLEAN
    PROVE  ManagerTypeOK'
<1> USE ManagerAssumption DEF ManagerTypeOK
<1>0. EmptyText \in RawConfig
  BY DEF EmptyText, RawConfig
<1>1. CASE Start
  BY <1>1 DEF Start, Goto, Place, editor, snapshot
<1>2. CASE Read
  <2>1. raw' \in RawConfig
    BY <1>2 DEF Read, Parses
  <2>2. QED
    BY <1>2, <2>1 DEF Read, Goto, Place, editor, snapshot
<1>3. CASE Keep
  BY <1>3 DEF Keep, Goto, Place, AfterBoot, editor, snapshot
<1>4. CASE Publish
  <2>1. current' \in [version : Nat, model : Model] /\ version' \in Nat
    BY <1>4, ResolveTyped DEF Publish, NextVersion
  <2>2. QED
    BY <1>4, <2>1 DEF Publish, Goto, Place, AfterBoot, editor
<1>5. CASE Stat
  <2>1. lastMod' \in Nat
    BY <1>5 DEF Stat, Noted
  <2>2. QED
    BY <1>5, <2>1 DEF Stat, Goto, Place, editor, snapshot
<1>6. CASE ReadFails
  BY <1>6 DEF ReadFails, Goto, Place, AfterBoot, editor, snapshot
<1>7. CASE Stop
  BY <1>7 DEF Stop, Place, editor, snapshot
<1>8. ASSUME NEW text \in RawConfig \cup {NoFile, BadText}, NEW mtime \in Nat,
             Becomes(text, mtime), saves' \in Nat, saving' \in Text \cup {BadText, NoFile}
      PROVE  ManagerTypeOK'
  <2>1. file' \in [text : RawConfig \cup {NoFile, BadText}, mtime : Nat]
    BY <1>8 DEF Becomes
  <2>2. peak' \in Nat /\ fresh' \in BOOLEAN
    BY <1>8 DEF Becomes
  <2>3. QED
    BY <1>8, <2>1, <2>2 DEF Becomes, snapshot
<1>9. CASE Edits
  <2>1. ASSUME NEW text \in Text \cup {BadText}, Truncate(text) PROVE ManagerTypeOK'
    BY <1>0, <1>8, <2>1 DEF Truncate, Save
  <2>2. ASSUME NEW text \in Text \cup {BadText}, Replace(text) PROVE ManagerTypeOK'
    BY <1>8, <2>2 DEF Replace, Save
  <2>3. CASE Fill
    BY <1>8, <2>3 DEF Fill
  <2>4. CASE Remove
    BY <1>8, <2>4 DEF Remove, Save
  <2>5. CASE Tick
    BY <2>5 DEF Tick, snapshot
  <2>6. QED
    BY <1>9, <2>1, <2>2, <2>3, <2>4, <2>5 DEF Edits
<1>10. QED
  BY <1>1, <1>2, <1>3, <1>4, <1>5, <1>6, <1>7, <1>9 DEF ManagerStep, Reloads

\* What an action of the collectors or of the registry may do.
CollectorsStep ==
    \/ /\ endpoints # Unset
       /\ BeginPass \/ Skip \/ Discover(Getenv) \/ DiscoveryFails(Getenv) \/ EndPass
    \/ \E c \in Collector : StartCollector(c) \/ StopCollector(c)

LEMMA CollectorsTypesKept ==
    ASSUME CollectorsTypeOK, CollectorsStep
    PROVE  CollectorsTypeOK'
<1> USE DEF CollectorsTypeOK
<1>1. CASE BeginPass
  BY <1>1 DEF BeginPass
<1>2. CASE Skip
  BY <1>2 DEF Skip
<1>3. CASE endpoints # Unset /\ Discover(Getenv)
  <2>1. Asked \in Endpoint
    BY <1>3 DEF Discover, Asking, Asked
  <2>2. PICK tools \in Answers(Asked, Getenv) :
            found' = Append(found, [endpoint |-> Asked, tools |-> tools])
    BY <1>3 DEF Discover
  <2>3. tools \in SUBSET {"system.info"}
    BY DEF Answers, Tools
  <2>4. QED
    BY <1>3, <2>1, <2>2, <2>3 DEF Discover, Registration
<1>4. CASE DiscoveryFails(Getenv)
  BY <1>4 DEF DiscoveryFails, AfterFailure
<1>5. CASE EndPass
  BY <1>5 DEF EndPass
<1>6. ASSUME NEW c \in Collector, StartCollector(c) PROVE CollectorsTypeOK'
  BY <1>6 DEF StartCollector, Peer
<1>7. ASSUME NEW c \in Collector, StopCollector(c) PROVE CollectorsTypeOK'
  BY <1>7 DEF StopCollector, Peer
<1>8. QED
  BY <1>1, <1>2, <1>3, <1>4, <1>5, <1>6, <1>7 DEF CollectorsStep

-----------------------------------------------------------------------------
(* Where main stands *)

\* The program has not gone beyond what it has done: before the configuration nothing is
\* loaded, the models are loaded before the pass over the collectors, and the pass is
\* over before the server opens its port.
Ordered ==
    /\ phase = "configuring" => at = "new"
    /\ phase \in {"discovering", "opening", "serving"} => Started
    /\ phase = "discovering" => endpoints # Unset
    /\ phase \in {"loading", "discovering", "opening", "serving"} => Valid(LoadConfig(env))

Types == TypeOK /\ Ordered

\* Each step of the server is one of the manager, of the collectors, or of both.
LEMMA TypesStep ==
    ASSUME Types, [Next]_vars
    PROVE  Types'
<1> USE DEF Types, TypeOK
<1>1. ManagerTypeOK'
  <2>1. CASE Configure
    <3>1. watch' \in BOOLEAN
      BY <2>1 DEF Configure, LoadConfig, BoolDefault
    <3>2. QED
      BY <2>1, <3>1, ManagerTypesKept DEF Configure, ManagerStep
  <2>2. ASSUME ManagerStep, watch' = watch PROVE ManagerTypeOK'
    BY <2>2, ManagerTypesKept DEF ManagerTypeOK
  <2>3. ASSUME UNCHANGED managerVars PROVE ManagerTypeOK'
    BY <2>3 DEF managerVars, editor, snapshot, ManagerTypeOK
  <2>4. CASE Reloading \/ Editing \/ ListenFails \/ Interrupt
    BY <2>2, <2>4 DEF Reloading, Editing, ListenFails, Interrupt, ManagerStep, Reloads,
           Read, Keep, Publish, Stat, ReadFails, Edits, Truncate, Replace, Fill, Remove,
           Becomes, Tick
  <2>5. CASE RefuseToStart \/ DiscoverCollectors \/ AskNext \/ EndDiscovery \/ Listen
                \/ Collecting \/ UNCHANGED vars
    BY <2>3, <2>5 DEF RefuseToStart, DiscoverCollectors, AskNext, EndDiscovery, Listen,
           Collecting, vars
  <2>6. QED
    BY <2>1, <2>4, <2>5 DEF Next, Main
<1>2. CollectorsTypeOK'
  <2>1. ASSUME UNCHANGED collectorVars PROVE CollectorsTypeOK'
    BY <2>1 DEF collectorVars, CollectorsTypeOK
  <2>2. CASE DiscoverCollectors
    BY <2>1, <2>2, CollectorsTypesKept DEF DiscoverCollectors, CollectorsStep
  <2>3. CASE AskNext \/ EndDiscovery \/ Collecting
    BY <2>3, CollectorsTypesKept
       DEF AskNext, EndDiscovery, Collecting, CollectorsStep, Proceeds, Ordered
  <2>4. CASE Configure \/ RefuseToStart \/ Listen \/ ListenFails \/ Interrupt
                \/ Reloading \/ Editing \/ UNCHANGED vars
    BY <2>1, <2>4 DEF Configure, RefuseToStart, Listen, ListenFails, Interrupt, Reloading,
           Editing, vars
  <2>5. QED
    BY <2>2, <2>3, <2>4 DEF Next, Main
<1>3. /\ DOMAIN env' = Variable
      /\ phase' \in {"configuring", "loading", "discovering", "opening", "serving", "exited"}
  <2>1. CASE Configure
    BY <2>1 DEF Configure, Loaded, Proceeds
  <2>2. CASE RefuseToStart \/ DiscoverCollectors \/ EndDiscovery \/ Listen \/ ListenFails
                \/ Interrupt
    BY <2>2 DEF RefuseToStart, DiscoverCollectors, EndDiscovery, Listen, ListenFails,
           Interrupt, Proceeds
  <2>3. CASE AskNext \/ Reloading \/ Editing \/ Collecting \/ UNCHANGED vars
    BY <2>3 DEF AskNext, Reloading, Editing, Collecting, serverVars, vars
  <2>4. QED
    BY <2>1, <2>2, <2>3 DEF Next, Main
<1>4. Ordered'
  <2>1. CASE Configure
    BY <2>1 DEF Configure, Proceeds, Ordered
  <2>2. CASE RefuseToStart \/ ListenFails \/ Interrupt
    BY <2>2 DEF RefuseToStart, ListenFails, Interrupt, Proceeds, Ordered
  <2>3. CASE DiscoverCollectors \/ EndDiscovery \/ Listen \/ AskNext \/ Collecting
                \/ UNCHANGED vars
    <3>1. UNCHANGED <<at, env>> /\ (phase' = phase \/ phase' # "configuring")
      BY <2>3 DEF DiscoverCollectors, EndDiscovery, Listen, AskNext, Collecting, Proceeds,
             serverVars, managerVars, vars
    <3>2. endpoints' = endpoints
      BY <2>3 DEF DiscoverCollectors, EndDiscovery, Listen, AskNext, Collecting,
             BeginPass, EndPass, Skip, Discover, DiscoveryFails, StartCollector,
             StopCollector, collectorVars, vars
    <3>3. /\ phase' \in {"discovering", "opening", "serving"} => Started
          /\ phase' = "discovering" => endpoints # Unset
          /\ phase' \in {"loading", "discovering", "opening", "serving"} =>
                 Valid(LoadConfig(env))
      BY <2>3 DEF DiscoverCollectors, EndDiscovery, Listen, AskNext, Collecting, Proceeds,
             StartRegistry, BeginPass, serverVars, vars, Ordered
    <3>4. LoadConfig(env)' = LoadConfig(env) /\ Started' = Started
      BY <3>1 DEF LoadConfig, Started
    <3>5. QED
      BY <3>1, <3>2, <3>3, <3>4 DEF Ordered
  <2>4. CASE Reloading \/ Editing
    <3>1. UNCHANGED <<env, phase, endpoints>>
      BY <2>4 DEF Reloading, Editing, serverVars, collectorVars
    <3>2. (at = "new" => at' = "new") /\ (Started => Started')
      BY <2>4 DEF Reloading, Editing, Reloads, Read, Keep, Publish, Stat, ReadFails, Edits,
             Truncate, Replace, Fill, Remove, Becomes, Tick, Goto, AfterBoot, Started
    <3>3. Valid(LoadConfig(env))' = Valid(LoadConfig(env))
      BY <3>1 DEF LoadConfig, Valid
    <3>4. QED
      BY <3>1, <3>2, <3>3 DEF Ordered
  <2>5. QED
    BY <2>1, <2>2, <2>3, <2>4 DEF Next, Main
<1>5. QED
  BY <1>1, <1>2, <1>3, <1>4

LEMMA TypesHold == Spec => []Types
<1>1. Init => Types
  <2> SUFFICES ASSUME Init PROVE Types
    OBVIOUS
  <2>1. PICK s \in Setup :
            /\ env = s.env /\ config = s.config /\ peer = s.peer /\ endpoints = s.endpoints
    BY DEF Init
  <2>2. CollectorsTypeOK /\ DOMAIN env = Variable
    BY <2>1, SetupAssumption DEF Init, RegistryInit, CollectorsTypeOK
  <2>3. ManagerTypeOK
    BY ManagerAssumption
       DEF Init, ManagerInit, ManagerTypeOK, Place, EmptyText, RawConfig, Model, DefaultModel
  <2>4. Ordered
    BY DEF Init, ManagerInit, Ordered
  <2>5. QED
    BY <2>2, <2>3, <2>4 DEF Types, TypeOK, Init
<1>2. Types /\ [Next]_vars => Types'
  BY TypesStep
<1>3. QED
  BY <1>1, <1>2, PTL DEF Spec

\* The file, the snapshot, the registry and the configuration keep their types, whatever
\* the files and the collectors hold.
THEOREM TypeCorrect == Spec => []TypeOK
BY TypesHold, PTL DEF Types

-----------------------------------------------------------------------------
(* Models *)

\* The snapshot is changed by the step of reload that publishes, and by no other.
LEMMA SnapshotSteps ==
    ASSUME [Next]_vars
    PROVE  Publish \/ UNCHANGED <<current, version>>
<1>1. CASE Reloading \/ Editing
  BY <1>1 DEF Reloading, Editing, Reloads, Read, Keep, Stat, ReadFails, Edits, Truncate,
         Replace, Fill, Remove, Becomes, Tick, snapshot
<1>2. CASE Main \/ Interrupt \/ Collecting \/ UNCHANGED vars
  BY <1>2 DEF Main, Configure, RefuseToStart, DiscoverCollectors, AskNext, EndDiscovery,
         Listen, ListenFails, Interrupt, Collecting, Start, Stop, vars, managerVars, snapshot
<1>3. QED
  BY <1>1, <1>2 DEF Next

\* The next version follows the current one.
NextFollows == version = current.version + 1

\* Whoever takes snapshots from the manager takes them from ModelSnapshots: the versions
\* count up and each belongs to one model, for any number of reloads and failures.
THEOREM ImplementsModelSnapshotsHolds == Spec => ImplementsModelSnapshots
<1>1. Init => Snapshots!Init /\ NextFollows
  BY DEF Init, ManagerInit, Snapshots!Init, NextFollows
<1>2. Types /\ NextFollows /\ [Next]_vars => NextFollows' /\ [Snapshots!Next]_current
  <2> SUFFICES ASSUME Types, NextFollows, [Next]_vars
               PROVE  NextFollows' /\ (Snapshots!Next \/ UNCHANGED current)
    OBVIOUS
  <2>1. CASE Publish
    <3>1. raw \in RawConfig
      BY DEF Types, TypeOK, ManagerTypeOK
    <3>2. /\ current' = [version |-> version, model |-> Resolve(raw)]
          /\ version' = version + 1
      BY <2>1 DEF Publish, NextVersion
    <3>3. Snapshots!Publish(Resolve(raw))
      BY <3>2 DEF Snapshots!Publish, NextFollows
    <3>4. Snapshots!Next
      BY <3>1, <3>3, ResolveTyped DEF Snapshots!Next
    <3>5. QED
      BY <3>2, <3>4 DEF NextFollows
  <2>2. CASE UNCHANGED <<current, version>>
    BY <2>2 DEF NextFollows
  <2>3. QED
    BY <2>1, <2>2, SnapshotSteps
<1>3. QED
  BY <1>1, <1>2, TypesHold, PTL DEF Spec, ImplementsModelSnapshots, Snapshots!Spec

\* As long as the file is as it was at the start, what was read is what it holds, and the
\* first load is not skipped.
Loads ==
    saves = 0 /\ readFaults = 0 /\ phase # "exited" =>
        /\ saving = NoFile
        /\ at \in {"bootRead", "read"} => raw = file.text
        /\ Started /\ Parses(file.text) => current.model = Resolve(file.text)

LEMMA LoadsStep ==
    ASSUME Types, Loads, [Next]_vars
    PROVE  Loads'
<1> SUFFICES ASSUME saves' = 0, readFaults' = 0, phase' # "exited"
             PROVE  /\ saving' = NoFile
                    /\ at' \in {"bootRead", "read"} => raw' = file'.text
                    /\ Started' /\ Parses(file'.text) => current'.model = Resolve(file'.text)
  BY DEF Loads, Parses, Resolve, OrDefault
<1>0. saves \in Nat /\ readFaults \in Nat
  BY DEF Types, TypeOK, ManagerTypeOK
<1>1. CASE Configure
  BY <1>1 DEF Configure, Start, Goto, Proceeds, editor, snapshot, Started, Loads
<1>2. CASE RefuseToStart \/ ListenFails \/ Interrupt
  BY <1>2 DEF RefuseToStart, ListenFails, Interrupt, Proceeds
<1>3. ASSUME UNCHANGED managerVars, phase # "exited" PROVE Loads'
  BY <1>3 DEF managerVars, editor, snapshot, Loads, Started, Parses, Resolve
<1>4. CASE DiscoverCollectors \/ AskNext \/ EndDiscovery \/ Listen \/ Collecting
              \/ UNCHANGED vars
  <2>1. UNCHANGED managerVars /\ phase # "exited"
    BY <1>4 DEF DiscoverCollectors, AskNext, EndDiscovery, Listen, Collecting, Proceeds,
           vars, serverVars
  <2>2. QED
    BY <1>3, <2>1 DEF Loads, Parses, Resolve, OrDefault
<1>5. CASE Reloading /\ phase # "exited"
  BY <1>5 DEF Reloading, Reloads, Read, Keep, Publish, Stat, Goto, AfterBoot, editor,
         snapshot, serverVars, Loads, Started
<1>6. CASE Editing /\ phase # "exited"
  <2>1. ~ReadFails
    BY <1>0 DEF ReadFails
  <2>2. saves = 0 => ~Fill
    BY <1>0, <1>6 DEF Fill, Loads, Editing, Edits, ReadFails, Becomes, Tick, Truncate,
           Replace, Remove
  <2>3. ~Save
    BY <1>0 DEF Save
  <2>4. Tick \/ Fill
    BY <1>6, <2>1, <2>3 DEF Editing, Edits, Truncate, Replace, Remove
  <2>5. Tick
    BY <2>2, <2>4 DEF Fill
  <2>6. QED
    BY <1>6, <2>5 DEF Tick, snapshot, Loads, Started
<1>7. QED
  BY <1>1, <1>2, <1>4, <1>5, <1>6 DEF Next, Main, Loads

\* A server that listens has loaded the models: the first turn does not get the defaults
\* instead of the model the file names.
THEOREM ServesConfiguredModelHolds == Spec => []ServesConfiguredModel
<1>1. Init => Loads
  BY DEF Init, ManagerInit, Loads, Started
<1>2. Types /\ Loads /\ [Next]_vars => Loads'
  BY LoadsStep
<1>3. Types /\ Loads => ServesConfiguredModel
  BY DEF Types, Ordered, Loads, ServesConfiguredModel, Served
<1>4. QED
  BY <1>1, <1>2, <1>3, TypesHold, PTL DEF Spec

-----------------------------------------------------------------------------
(* Upgrades *)

\* Whatever the environment and .env hold, who is upgraded has shown the token, or the
\* server has none and listens on the loopback interface alone.
THEOREM OnlyHoldersUpgradedHolds == Spec => []OnlyHoldersUpgraded
<1>1. Types => OnlyHoldersUpgraded
  <2> SUFFICES ASSUME Types, Served PROVE OnlyHoldersUpgraded
    BY DEF OnlyHoldersUpgraded
  <2> DEFINE c == LoadConfig(env)
             token == env["AGENT_API_TOKEN"]
             listed == StringDefault(env["AGENT_ALLOWED_ORIGINS"], {})
  <2>1. Valid(c)
    BY DEF Types, Ordered, Served
  <2>2. /\ c.token = IF Given(token) THEN token ELSE Blank
        /\ c.dev = (env["AGENT_ALLOW_INSECURE_DEV"] = "yes")
        /\ c.query = (env["AGENT_ALLOW_QUERY_TOKEN"] = "yes")
        /\ c.host = StringDefault(env["AGENT_HOST"], "0.0.0.0")
        /\ c.origins = listed \ {Malformed}
    BY DEF LoadConfig, StringDefault, BoolValue, ParseOrigins
  <2> HIDE DEF c
  <2>3. ASSUME NEW r \in UpgradeRequest, Authenticated(r, c)
        PROVE  \/ Given(token) /\ token \in {r.bearer, r.cookie}
               \/ /\ Given(token) /\ token = r.query
                  /\ env["AGENT_ALLOW_QUERY_TOKEN"] = "yes"
               \/ ~Given(token) /\ env["AGENT_HOST"] = "localhost"
    <3>1. CASE ~Given(token)
      BY <2>1, <2>2, <3>1 DEF Valid, IsLoopbackHost, StringDefault
    <3>2. CASE Given(token)
      BY <2>2, <2>3, <3>2 DEF Authenticated, Credential, Given
    <3>3. QED
      BY <3>1, <3>2
  <2>4. ASSUME NEW r \in UpgradeRequest, Given(token), token = r.bearer,
               r.origin \in listed \cup {Blank}
        PROVE  Authenticated(r, c) /\ OriginAllowed(r, c)
    <3>1. Authenticated(r, c)
      BY <2>2, <2>4 DEF Authenticated, Credential, Given
    <3>2. r.origin \in Origin \cup {Blank}
      BY DEF UpgradeRequest
    <3>3. QED
      BY <2>2, <2>4, <3>1, <3>2, SetupAssumption DEF OriginAllowed
  <2>5. QED
    BY <2>3, <2>4 DEF OnlyHoldersUpgraded, Upgrades, c
<1>2. QED
  BY <1>1, TypesHold, PTL

-----------------------------------------------------------------------------
(* The registry *)

\* What the registry may record of an endpoint, and what it may not have missed.
Agreed(e) == Authorized(e.id, ResolveToken(e, Getenv))

Recordable(e) ==
    /\ e.enabled
    /\ peer[e.id] = "json" \/ (Agreed(e) /\ peer[e.id] \in {"serving", "stopped"})

Honest(r) ==
    /\ r \in Registration /\ Recordable(r.endpoint)
    /\ peer[r.endpoint.id] # "json" => \A tool \in r.tools :
           InvokeStatus(r.endpoint.id, ResolveToken(r.endpoint, Getenv), tool) = 200

Due(e) == e.enabled /\ Agreed(e) /\ e.id \in early

Recorded(list, e) == \E k \in DOMAIN list : list[k].endpoint = e

Pass ==
    /\ \A c \in early : peer[c] = "serving"
    /\ phase \in {"configuring", "loading"} => found = << >>
    /\ phase \in {"configuring", "loading", "discovering"} => registrations = << >>
    /\ \A k \in DOMAIN found : Honest(found[k])
    /\ registrations # << >> => registrations = found
    /\ phase = "discovering" =>
           /\ next >= 1
           /\ \A i \in DOMAIN endpoints : i < next /\ Due(endpoints[i]) =>
                  Recorded(found, endpoints[i])
    /\ phase \in {"opening", "serving"} /\ endpoints # Unset =>
           /\ registrations = found
           /\ \A i \in DOMAIN endpoints : Due(endpoints[i]) => Recorded(found, endpoints[i])

\* What was recorded stays true when a collector starts or stops.
LEMMA HonestKept ==
    ASSUME Types, Types', UNCHANGED <<config, env>>,
           \A c \in Collector : peer[c] \in {"json", "serving", "stopped"} =>
               \/ peer'[c] = peer[c]
               \/ peer[c] = "serving" /\ peer'[c] = "stopped",
           NEW r, Honest(r)
    PROVE  Honest(r)'
<1>1. r.endpoint.id \in Collector
  BY DEF Honest, Registration, Endpoint
<1>2. \A e : Agreed(e)' = Agreed(e)
  BY DEF Agreed, Authorized, AuthToken, ResolveToken, Getenv
<1>3. Recordable(r.endpoint)'
  BY <1>1, <1>2 DEF Honest, Recordable
<1>4. peer'[r.endpoint.id] # "json" => \A tool \in r.tools :
          InvokeStatus(r.endpoint.id, ResolveToken(r.endpoint, Getenv), tool)' = 200
  <2>1. \A e, tool : InvokeStatus(e.id, ResolveToken(e, Getenv), tool)'
                      = InvokeStatus(e.id, ResolveToken(e, Getenv), tool)
    BY DEF InvokeStatus, Authorized, AuthToken, ResolveToken, ToolEnabled, Getenv,
           StringDefault, Given
  <2>2. peer[r.endpoint.id] = "json" => peer'[r.endpoint.id] = "json"
    BY <1>1
  <2>3. QED
    BY <2>1, <2>2 DEF Honest
<1>5. QED
  BY <1>3, <1>4 DEF Honest

\* A manifest comes from a program that takes anything, or from the collector that takes
\* the endpoint's token.
LEMMA AnswersHonest ==
    ASSUME Types, NEW e \in Endpoint, e.enabled, NEW tools \in Answers(e, Getenv)
    PROVE  Honest([endpoint |-> e, tools |-> tools])
<1> DEFINE r == [endpoint |-> e, tools |-> tools]
<1>1. r \in Registration /\ r.endpoint = e /\ r.tools = tools
  BY DEF Registration, Answers, Tools
<1> HIDE DEF r
<1>2. CASE peer[e.id] = "json"
  BY <1>1, <1>2 DEF Honest, Recordable, r
<1>3. CASE peer[e.id] # "json"
  <2>1. /\ peer[e.id] = "serving" /\ tools = Tools(e.id)
        /\ ManifestStatus(e.id, ResolveToken(e, Getenv)) = 200
    BY <1>3 DEF Answers
  <2>2. Agreed(e)
    BY <2>1 DEF ManifestStatus, Agreed
  <2>3. \A tool \in tools : InvokeStatus(e.id, ResolveToken(e, Getenv), tool) = 200
    BY <2>1, <2>2 DEF Tools, InvokeStatus, Agreed
  <2>4. QED
    BY <1>1, <2>1, <2>2, <2>3 DEF Honest, Recordable, r
<1>4. QED
  BY <1>2, <1>3

LEMMA PassStep ==
    ASSUME Types, Types', Pass, [Next]_vars
    PROVE  Pass'
<1>0. \A e : /\ (UNCHANGED <<config, env>> => Agreed(e)' = Agreed(e))
             /\ (UNCHANGED <<config, env, early>> => Due(e)' = Due(e))
  BY DEF Agreed, Due, Authorized, AuthToken, ResolveToken, Getenv
<1>1. ASSUME UNCHANGED collectorVars, env' = env, phase' = phase \/ phase' = "exited"
             \/ (phase = "opening" /\ phase' = "serving")
             \/ (phase = "loading" /\ phase' = "opening" /\ endpoints = Unset)
      PROVE  Pass'
  <2>1. \A k \in DOMAIN found : Honest(found[k])'
    BY <1>1, HonestKept DEF collectorVars, Pass
  <2>2. QED
    BY <1>0, <1>1, <2>1 DEF collectorVars, Pass, Recorded
<1>2. CASE Configure
  <2>1. found = << >> /\ phase = "configuring" /\ phase' = "loading" /\ UNCHANGED collectorVars
    BY <1>2 DEF Configure, Proceeds, Pass
  <2>2. QED
    BY <2>1 DEF collectorVars, Pass
<1>3. CASE DiscoverCollectors /\ endpoints # Unset
  <2>1. /\ phase = "loading" /\ phase' = "discovering" /\ next' = 1 /\ env' = env
        /\ early' = {c \in Collector : peer[c] = "serving"}
        /\ UNCHANGED <<config, peer, endpoints, found, registrations>>
    BY <1>3 DEF DiscoverCollectors, Proceeds, BeginPass
  <2>2. \A i \in DOMAIN endpoints : ~(i < 1)
    BY <1>3 DEF Types, TypeOK, CollectorsTypeOK
  <2>3. QED
    BY <2>1, <2>2 DEF Pass
<1>4. CASE AskNext
  <2>0. /\ endpoints # Unset /\ phase = "discovering" /\ phase' = "discovering"
        /\ UNCHANGED <<config, peer, endpoints, registrations, early, env>>
        /\ next' = next + 1 /\ next \in DOMAIN endpoints /\ next \in Nat
    BY <1>4 DEF AskNext, Types, Ordered, TypeOK, CollectorsTypeOK, serverVars, Skip,
           Discover, DiscoveryFails, AfterFailure, Asking
  <2>1. Asked \in Endpoint
    BY <2>0 DEF Asked, Types, TypeOK, CollectorsTypeOK
  <2>2. ASSUME found' = found, ~Due(Asked) PROVE Pass'
    <3>1. \A k \in DOMAIN found : Honest(found[k])'
      BY <2>0, <2>2, HonestKept DEF Pass
    <3>2. \A i \in DOMAIN endpoints : i < next + 1 /\ Due(endpoints[i]) =>
              Recorded(found, endpoints[i])
      <4>1. \A i \in DOMAIN endpoints : i \in Nat
        BY <2>0 DEF Types, TypeOK, CollectorsTypeOK
      <4>2. QED
        BY <2>0, <2>2, <4>1 DEF Pass, Asked
    <3>3. QED
      BY <1>0, <2>0, <2>2, <3>1, <3>2 DEF Pass, Recorded
  <2>3. CASE Skip
    BY <2>2, <2>3 DEF Skip, Due
  <2>4. CASE Discover(Getenv)
    <3>1. PICK tools \in Answers(Asked, Getenv) :
              found' = Append(found, [endpoint |-> Asked, tools |-> tools])
      BY <2>4 DEF Discover
    <3>2. Honest([endpoint |-> Asked, tools |-> tools])
      BY <2>1, <2>4, <3>1, AnswersHonest DEF Discover
    <3> DEFINE r == [endpoint |-> Asked, tools |-> tools]
    <3>3. /\ DOMAIN found' = DOMAIN found \cup {Len(found) + 1}
          /\ \A k \in DOMAIN found : found'[k] = found[k]
          /\ found'[Len(found) + 1] = r /\ r.endpoint = Asked
      <4>1. r \in Registration /\ found \in Seq(Registration)
        BY <3>2 DEF Honest, Types, TypeOK, CollectorsTypeOK
      <4>2. QED
        BY <3>1, <4>1
    <3> HIDE DEF r
    <3>4. PICK list : list = found'
      OBVIOUS
    <3>5. \A k \in DOMAIN list : Honest(list[k])
      BY <3>2, <3>3, <3>4 DEF Pass, r
    <3>6. \A k \in DOMAIN list : Honest(list[k])'
      BY <2>0, <3>5, HonestKept
    <3>7. \A k \in DOMAIN found' : Honest(found[k])'
      BY <3>4, <3>6
    <3>8. \A i \in DOMAIN endpoints : i < next + 1 /\ Due(endpoints[i]) =>
              Recorded(found', endpoints[i])
      <4> SUFFICES ASSUME NEW i \in DOMAIN endpoints, i < next + 1, Due(endpoints[i])
                   PROVE  Recorded(found', endpoints[i])
        OBVIOUS
      <4>1. i \in Nat
        BY <2>0 DEF Types, TypeOK, CollectorsTypeOK
      <4>2. CASE i < next
        BY <2>0, <3>3, <4>2 DEF Pass, Recorded
      <4>3. CASE i = next
        BY <3>3, <4>3 DEF Recorded, Asked
      <4>4. QED
        BY <2>0, <4>1, <4>2, <4>3
    <3>9. registrations = << >>
      BY <2>0 DEF Pass
    <3>10. QED
      BY <1>0, <2>0, <3>7, <3>8, <3>9 DEF Pass, Recorded
  <2>5. CASE DiscoveryFails(Getenv)
    <3>1. ~Due(Asked)
      BY <2>1, <2>5 DEF DiscoveryFails, Due, Agreed, Answers, ManifestStatus, Pass
    <3>2. QED
      BY <2>2, <2>5, <3>1 DEF DiscoveryFails
  <2>6. QED
    BY <1>4, <2>3, <2>4, <2>5 DEF AskNext
<1>5. CASE EndDiscovery
  <2>1. /\ phase = "discovering" /\ phase' = "opening" /\ next > Len(endpoints)
        /\ registrations' = found /\ endpoints # Unset
        /\ UNCHANGED <<config, peer, endpoints, found, early, env>>
    BY <1>5 DEF EndDiscovery, Proceeds, EndPass, Types, Ordered
  <2>2. \A k \in DOMAIN found : Honest(found[k])'
    BY <2>1, HonestKept DEF Pass
  <2>3. \A i \in DOMAIN endpoints : i < next
    BY <2>1 DEF Types, TypeOK, CollectorsTypeOK
  <2>4. QED
    BY <1>0, <2>1, <2>2, <2>3 DEF Pass, Recorded
<1>6. CASE Collecting
  <2>1. PICK c \in Collector : StartCollector(c) \/ StopCollector(c)
    BY <1>6 DEF Collecting
  <2>2. /\ UNCHANGED <<config, endpoints, next, found, registrations, env, phase>>
        /\ early' \subseteq early /\ early \subseteq Collector
    BY <1>6, <2>1 DEF Collecting, StartCollector, StopCollector, serverVars, Types, TypeOK,
           CollectorsTypeOK
  <2>3. /\ \A d \in Collector : peer[d] \in {"json", "serving", "stopped"} =>
               \/ peer'[d] = peer[d]
               \/ peer[d] = "serving" /\ peer'[d] = "stopped"
        /\ \A d \in early' : peer'[d] = "serving"
    BY <2>1, <2>2 DEF StartCollector, StopCollector, Types, TypeOK, CollectorsTypeOK, Pass
  <2>4. \A k \in DOMAIN found : Honest(found[k])'
    BY <2>2, <2>3, HonestKept DEF Pass
  <2>5. \A e : Due(e)' => Due(e)
    BY <1>0, <2>2 DEF Due
  <2>6. QED
    BY <2>2, <2>3, <2>4, <2>5 DEF Pass, Recorded
<1>7. CASE RefuseToStart \/ Listen \/ ListenFails \/ Interrupt \/ Reloading \/ Editing
              \/ UNCHANGED vars
  BY <1>1, <1>7 DEF RefuseToStart, Listen, ListenFails, Interrupt, Reloading, Editing,
         Proceeds, vars, serverVars
<1>8. CASE DiscoverCollectors /\ endpoints = Unset
  BY <1>1, <1>8 DEF DiscoverCollectors, Proceeds
<1>9. QED
  BY <1>2, <1>3, <1>4, <1>5, <1>6, <1>7, <1>8 DEF Next, Main

LEMMA PassHolds == Spec => []Pass
<1>1. Init => Pass
  BY DEF Init, RegistryInit, Pass
<1>2. Types /\ Types' /\ Pass /\ [Next]_vars => Pass'
  BY PassStep
<1>3. QED
  BY <1>1, <1>2, TypesHold, PTL DEF Spec

\* For any list of endpoints and any collectors that come and go: when the server listens,
\* an endpoint is registered if its collector took its token all along, and only if it
\* took it at all, or another program has answered for it.
THEOREM RegistryCompleteHolds == Spec => []RegistryComplete
<1>1. Types /\ Pass => RegistryComplete
  <2> SUFFICES ASSUME Types, Pass, Served, endpoints # Unset, NEW i \in DOMAIN endpoints
               PROVE  /\ Recorded(registrations, endpoints[i]) => Recordable(endpoints[i])
                      /\ Due(endpoints[i]) => Recorded(registrations, endpoints[i])
    BY DEF RegistryComplete, RegisteredIffReachable, Recorded, Recordable, Due, Agreed
  <2>1. /\ registrations = found
        /\ Due(endpoints[i]) => Recorded(found, endpoints[i])
    BY DEF Pass, Served
  <2>2. QED
    BY <2>1 DEF Pass, Recorded, Honest
<1>2. QED
  BY <1>1, TypesHold, PassHolds, PTL

\* A tool the registry lists can be invoked with the token the registry would use, unless
\* another program than the collector has listed it.
THEOREM RegisteredToolsRunHolds == Spec => []RegisteredToolsRun
<1>1. Pass => RegisteredToolsRun
  BY DEF Pass, Honest, RegisteredToolsRun, OfferedToolsRun
<1>2. QED
  BY <1>1, PassHolds, PTL

=============================================================================
