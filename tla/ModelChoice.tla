----------------------------- MODULE ModelChoice -----------------------------
(***************************************************************************)
(* Which models answer a client.  An operator switches providers and       *)
(* models (src/src/app/models.rs, application/models.rs); a server keeps   *)
(* the choice it started with; Claude Code is told an alias and a context  *)
(* window when it is set up (application/integration.rs,                   *)
(* client_config.rs, app/mod.rs) and asks by that alias until it is set up *)
(* again; handlers/messages.rs, handlers/openai, api_key/types.rs and      *)
(* opencode/retry/policy.rs make the list of models that may answer.       *)
(*                                                                         *)
(* A model's name is what the code looks at: an identifier, one for each   *)
(* way of being recognised, and whether "opencode/" stands before it.  A   *)
(* list of models is the first and the set of all: their order after the   *)
(* first is not looked at here.                                            *)
(***************************************************************************)
EXTENDS Naturals

CONSTANTS
  Chosen,     \* names the operator chooses from
  Typed,      \* names clients choose on their own
  Fallbacks,  \* sets of names that model_fallbacks may be
  Policies    \* policies of managed keys

VARIABLES
  config,     \* upstream and model in the configuration file
  server,     \* the same, as the running server loaded it
  retry,      \* model_fallbacks and enable_default_fallbacks
  told,       \* what a client was set up with
  request     \* a request whose models were chosen

vars == <<config, server, retry, told, request>>

-----------------------------------------------------------------------------
(* Names and what is known of them.                                        *)

Free == {"x-preview-f-free", "muse-spark-1.3-contributor-free",
         "deepseek-v4-flash-free", "mimo-v2.5-free", "nemotron-3-ultra-free"}
Cline == {"z-ai/glm-5.3-flash", "nvidia/nemotron-3.5-lightning:free"}
Api == {"deepseek-v4-flash", "glm-5.3-flash", "qwen3.8-flash"}
Claude == {"claude-opus-5", "claude-sonnet-5", "claude-3-5-sonnet"}
Id == Free \cup Cline \cup Api \cup Claude
        \cup {"sonnet[1m]", "deepseek-r1", "gpt-5.2", "llama", ""}

Name == [id : Id, prefixed : BOOLEAN]
Plain(id) == [id |-> id, prefixed |-> FALSE]
Prefixed(id) == [id |-> id, prefixed |-> TRUE]
Unset == Plain("")
Given(m) == m.id # ""

Upstream == {"zen", "cline", "other"}
Config == [upstream : Upstream, model : Name]

\* In thousands of tokens.
Window(m) ==
  CASE m.id = "muse-spark-1.3-contributor-free" -> 1048
    [] m.id \in {"x-preview-f-free", "deepseek-v4-flash-free", "z-ai/glm-5.3-flash",
                 "deepseek-v4-flash", "glm-5.3-flash", "sonnet[1m]", "deepseek-r1"} -> 1000
    [] m.id = "gpt-5.2" -> 400
    [] m.id \in {"mimo-v2.5-free", "nvidia/nemotron-3.5-lightning:free"} -> 256
    [] m.id \in Claude -> 200
    [] OTHER -> 128

OneMillion(m) == Window(m) >= 1000

\* The name Claude Code is told instead.
Alias(m) ==
  CASE OneMillion(m) -> Plain("sonnet[1m]")
    [] m.id \in Claude -> Plain("claude-opus-5")
    [] OTHER -> Plain("claude-sonnet-5")

-----------------------------------------------------------------------------
(* The models of a request.                                                *)

\* Names as Zen knows them; other upstreams are sent what was chosen.
Canonical(id) ==
  CASE id = "deepseek-v4-flash" -> "deepseek-v4-flash-free"
    [] id \in Claude \cup {"sonnet[1m]"} -> "x-preview-f-free"
    [] OTHER -> id
Mapped(c, m) == IF c.upstream = "zen" THEN Plain(Canonical(m.id)) ELSE m

DefaultModel == Plain("claude-3-5-sonnet")

\* How a server treats names: as the upstream has them, or as the prefix of
\* its model says.
Kind(c) == IF c.model.prefixed THEN "zen" ELSE c.upstream

Large(c) ==
  CASE Kind(c) = "zen" -> Prefixed("x-preview-f-free")
    [] Kind(c) = "cline" -> Plain("z-ai/glm-5.3-flash")
    [] OTHER -> Plain("glm-5.3-flash")
Small(c) ==
  CASE Kind(c) = "zen" -> Prefixed("mimo-v2.5-free")
    [] Kind(c) = "cline" -> Plain("z-ai/glm-5.3-flash")
    [] OTHER -> Plain("qwen3.8-flash")
Curated(c, m) ==
  CASE Kind(c) = "zen" -> m.id \in Free
    [] Kind(c) = "cline" -> m \in {Plain(id) : id \in Cline}
    [] OTHER -> m \in {Plain(id) : id \in Api}

\* A request without a key, or with the key of the integration.
ResolveAnonymous(c, m) ==
  IF m.id \in {"sonnet[1m]", "claude-opus-5"} THEN
    IF Given(c.model) /\ OneMillion(c.model) THEN c.model ELSE Large(c)
  ELSE IF m.id \in {"claude-sonnet-5", "claude-3-5-sonnet"} THEN
    IF Given(c.model) /\ (OneMillion(c.model) => Kind(c) = "cline")
    THEN c.model ELSE Small(c)
  ELSE IF Given(m) /\ Curated(c, m) THEN m
  ELSE IF Given(c.model) THEN c.model
  ELSE IF Given(m) THEN m
  ELSE IF c.upstream = "cline" THEN Plain("z-ai/glm-5.3-flash") ELSE DefaultModel

\* A request with a managed key: what its policy selects, if it allows that.
Selected(policy, c, m) ==
  IF policy.override /\ Given(m) THEN m
  ELSE IF Given(policy.default) THEN policy.default
  ELSE IF Given(c.model) THEN c.model ELSE DefaultModel
Allows(policy, m) ==
  policy.allowed # {} => \E a \in policy.allowed : Canonical(a.id) = Canonical(m.id)

\* The policy of the integration's key, which chat completions go by.
DefaultPolicy == [override |-> TRUE, default |-> Unset, allowed |-> {}]

\* Faulty: every configured fallback may answer for a model of a million tokens.
OthersUnpruned(first, stream) ==
  IF retry.fallbacks # {} THEN {Mapped(server, m) : m \in retry.fallbacks}
  ELSE IF retry.defaults THEN {Plain("deepseek-v4-flash-free")} ELSE {}

\* The models after first, a name as it is sent.
Others(first, stream) ==
  LET configured == {Mapped(server, m) : m \in retry.fallbacks}
      large == {m \in configured : OneMillion(m)}
      spare == {Plain("deepseek-v4-flash-free"), Plain("nemotron-3-ultra-free")}
  IN IF configured # {} THEN IF OneMillion(first) /\ large # {} THEN large ELSE configured
     ELSE IF ~retry.defaults \/ (stream /\ first.id = "deepseek-r1") THEN {}
     ELSE IF OneMillion(first) THEN {Plain("deepseek-v4-flash-free")}
     ELSE IF first.id = "nemotron-3-ultra-free" THEN spare ELSE {}

-----------------------------------------------------------------------------
NoRequest == [asked |-> Unset, by |-> "nobody", first |-> Unset, models |-> {}]
Nobody == [model |-> Unset, of |-> {}, by |-> "nobody"]

Init ==
  /\ config = [upstream |-> "zen", model |-> Unset]
  /\ server = config
  /\ retry \in [fallbacks : Fallbacks, defaults : BOOLEAN]
  /\ retry.fallbacks # {} => retry.defaults    \* which is not looked at then
  /\ told = Nobody
  /\ request = NoRequest

\* Between requests.
Quiet == request = NoRequest /\ UNCHANGED <<retry, request>>

Save(upstream, m) ==
  /\ Quiet
  /\ config' = [upstream |-> upstream, model |-> m]
  /\ UNCHANGED <<server, told>>

cmd_provider_opencode(m) == m.id \in Free /\ Save("zen", Prefixed(m.id))
cmd_provider_cline(m) ==
  /\ Given(m)
  /\ Save("cline", IF m = Plain("glm-5.3-flash") THEN Plain("z-ai/glm-5.3-flash") ELSE m)
cmd_provider_api(m) == Given(m) /\ Save("other", m)
cmd_upstream_set(upstream) == Save(upstream, config.model)
cmd_upstream_reset == Save("zen", config.model)
cmd_model_set(m) == Save(config.upstream, m)
select_free_model(m) == m.id \in Free /\ Save(config.upstream, m)

Restart == Quiet /\ server' = config /\ UNCHANGED <<config, told>>

Tell(m, of, by) ==
  /\ Quiet
  /\ told' = [model |-> m, of |-> of, by |-> by]
  /\ UNCHANGED <<config, server>>

\* A server that is started with a model on its command line.
Started(m) == [config EXCEPT !.model = m]

\* opencode2api without a command starts Claude Code, and a server if none runs.
Launch ==
  LET default == CASE config.upstream = "zen" -> Prefixed("mimo-v2.5-free")
                   [] config.upstream = "cline" -> Plain("z-ai/glm-5.3-flash")
                   [] OTHER -> Plain("glm-5.3-flash")
      m == IF Given(config.model) THEN config.model ELSE default
  IN /\ Quiet
     /\ server' \in {server, Started(m)}
     /\ told' = [model |-> m, of |-> {config, Started(m)}, by |-> "launch"]
     /\ UNCHANGED config

Effective(c) == IF Given(c.model) THEN c.model ELSE Prefixed("x-preview-f-free")

\* Exports for a shell, of the file or of what the server runs.
Export(c) == Tell(Effective(c), {c}, "exports")

\* The dashboard writes settings for the alias it would export, as if that was
\* the model, or for a name that is given.
ClientConfig(m) ==
  IF Given(m) THEN Tell(m, {}, "name")
              ELSE Tell(Alias(Effective(server)), {server}, "settings")

\* The models that may answer, the first one chosen.
Choose(asked, by, first, stream) ==
  /\ request = NoRequest
  /\ request' = [asked |-> asked, by |-> by, first |-> Mapped(server, first),
                 models |-> {Mapped(server, first)}
                              \cup Others(Mapped(server, first), stream)]
  /\ UNCHANGED <<config, server, retry, told>>

AskMessages(asked, stream) ==
  Choose(asked, "anonymous", ResolveAnonymous(server, asked), stream)
AskChat(asked, stream) ==
  /\ Given(server.model) \/ Given(asked)
  /\ Choose(asked, "chat", IF Given(server.model) THEN server.model ELSE asked, stream)
AskManaged(asked, policy, stream) ==
  LET m == Selected(policy, server, asked)
  IN /\ Allows(policy, m)
     /\ Choose(asked, IF policy.override THEN "key" ELSE "policy", m, stream)

End == request # NoRequest /\ request' = NoRequest
       /\ UNCHANGED <<config, server, retry, told>>

Next ==
  \/ \E m \in Chosen :
       \/ cmd_provider_opencode(m) \/ cmd_provider_cline(m) \/ cmd_provider_api(m)
       \/ cmd_model_set(m) \/ select_free_model(m) \/ ClientConfig(m)
  \/ \E upstream \in Upstream : cmd_upstream_set(upstream)
  \/ cmd_upstream_reset
  \/ Restart \/ Launch \/ Export(config) \/ Export(server) \/ ClientConfig(Unset)
  \/ \E asked \in Typed \cup {Alias(told.model)}, stream \in BOOLEAN :
       \/ AskMessages(asked, stream) \/ AskChat(asked, stream)
       \/ \E policy \in Policies \cup {DefaultPolicy} : AskManaged(asked, policy, stream)
  \/ End

-----------------------------------------------------------------------------
TypeOK ==
  /\ config \in Config /\ server \in Config
  /\ retry.fallbacks \in Fallbacks /\ retry.defaults \in BOOLEAN
  /\ told.model \in Name
  /\ request.asked \in Name /\ request.first \in Name /\ request.models \subseteq Name

\* A request of the client by the alias it was told.
AsTold == request # NoRequest /\ told # Nobody /\ request.asked = Alias(told.model)

(* A client is answered as it was told to expect.  One that was told of a
   window of a million tokens, and asks by that alias, gets only models of a
   million tokens, whatever was switched since; unless fallbacks are configured
   and none of them is.  As long as the server runs what the client was set up
   for, no model that may answer has a smaller window than the client was told
   of (up to a million), if no fallbacks are configured; and the first is the
   configured one, if it is no model of Claude. *)
ServedAsTold ==
  AsTold =>
    LET large == \E m \in retry.fallbacks : OneMillion(Mapped(server, m))
    IN /\ /\ OneMillion(told.model) /\ request.by \in {"anonymous", "key"}
          /\ retry.fallbacks = {} \/ large
          => \A m \in request.models : OneMillion(m)
       /\ server \in told.of /\ request.by = "anonymous" =>
            /\ retry.fallbacks = {} =>
                 \A m \in request.models : OneMillion(m) \/ Window(m) >= Window(told.model)
            /\ told.by # "settings" /\ Given(server.model) /\ server.model.id \notin Claude
                 => request.first = Mapped(server, server.model)
=============================================================================
