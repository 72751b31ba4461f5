---------------------------- MODULE MCAgentServer ---------------------------
(***************************************************************************)
(* Small instances of AgentServer: environments that are complete, split   *)
(* between the process and .env, and refused; two collectors that agree or *)
(* disagree with collectors.toml about the token.                          *)
(***************************************************************************)
EXTENDS AgentServer, TLC

CONSTANTS A, B, o1, o2, c1, c2, s1, s2

OpenAI == [provider |-> "openai", ollama |-> s2, openai |-> Blank]
Odd    == [provider |-> "unknown", ollama |-> s2, openai |-> Blank]

Texts == {OpenAI, Odd}

Vars(f) == [v \in Variable |-> IF v \in DOMAIN f THEN f[v] ELSE Unset]

WithToken == Vars("AGENT_API_TOKEN" :> A @@ "AGENT_ALLOWED_ORIGINS" :> {o1, Malformed})

Agreeing == [c \in Collector |->
    IF c = c1 THEN [complete |-> TRUE, mode |-> "", token |-> A, env |-> Unset,
                    enabled |-> {"files.read"}]
              ELSE [complete |-> TRUE, mode |-> "static-token", token |-> Unset,
                    env |-> B, enabled |-> {}]]
Refusing == [c \in Collector |->
    IF c = c1 THEN [complete |-> TRUE, mode |-> "", token |-> B, env |-> A,
                    enabled |-> {}]
              ELSE [complete |-> TRUE, mode |-> "mutual-tls", token |-> B,
                    env |-> B, enabled |-> {}]]

Listed == << [id |-> c1, enabled |-> TRUE, token |-> A, fromEnv |-> TRUE],
             [id |-> c2, enabled |-> TRUE, token |-> Unset, fromEnv |-> TRUE] >>
FirstDisabled == [Listed EXCEPT ![1].enabled = FALSE]

Gone == [c \in Collector |-> "exited"]

NoCollectors == [peer |-> Gone, config |-> Agreeing, endpoints |-> Unset]

\* models.toml is changed, and the rest is in order.
Edited ==
    { [env |-> WithToken, dotenv |-> NoFile, text |-> text, saves |-> 0] @@ NoCollectors :
        text \in Texts \cup {NoFile, BadText} }

\* The environment and .env vary.
Environments ==
    { e @@ [text |-> OpenAI, saves |-> MaxSaves] @@ NoCollectors :
      e \in
        { [env |-> WithToken, dotenv |-> Unreadable],
          \* The token comes from .env ...
          [env |-> Vars("AGENT_ALLOW_QUERY_TOKEN" :> "yes"), dotenv |-> WithToken],
          \* ... but not when the process has set it to nothing, or to another one.
          [env |-> Vars("AGENT_API_TOKEN" :> Blank), dotenv |-> WithToken],
          [env |-> Vars("AGENT_API_TOKEN" :> B @@ "AGENT_MODEL_CONFIG_WATCH" :> "no"),
           dotenv |-> WithToken],
          [env |-> Vars("AGENT_ALLOW_INSECURE_DEV" :> "yes"), dotenv |-> NoFile],
          [env |-> Vars("AGENT_ALLOW_INSECURE_DEV" :> "yes"
                            @@ "AGENT_HOST" :> "localhost"), dotenv |-> NoFile] } }

\* The collectors vary.
Pods ==
    [env : {Vars("AGENT_API_TOKEN" :> A @@ "AGENT_MODEL_CONFIG_WATCH" :> "no"
                    @@ "DIOR_COLLECTOR_TOKEN" :> B)},
     dotenv : {NoFile}, peer : [Collector -> {"absent", "serving", "error", "json", "silent"}],
     config : {Agreeing, Refusing}, endpoints : {Listed, FirstDisabled},
     text : {OpenAI}, saves : {MaxSaves}]

Situations == Edited \cup Environments \cup Pods

=============================================================================
