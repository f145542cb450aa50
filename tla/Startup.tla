------------------------------- MODULE Startup -------------------------------
(***************************************************************************)
(* What the program makes of its flags, its environment and its TOML file  *)
(* (src/src/config/), and what becomes of that when the dashboard changes  *)
(* the file (src/src/management/config_apply.rs).                          *)
(*                                                                         *)
(* "CLI overrides environment variables, environment variables override    *)
(* TOML, and TOML overrides defaults", but what counts as saying something *)
(* differs from setting to setting, and the dashboard judges the file      *)
(* alone.  Settings that are resolved alike stand for one another: port    *)
(* for the plain ones, limit for those with bounds, history for those the  *)
(* dashboard does not know, search for the addresses of search providers.  *)
(***************************************************************************)
EXTENDS Naturals, Sequences

CONSTANTS MaxChanges, MaxSaid \* bounds: changes, and things said outside the file

VARIABLES
  flag, env, \* what the command line and the environment say, by setting
  files,     \* the documents, by place
  last,      \* the last change of the file and the answer it got
  changes

startupVars == <<flag, env, files, last, changes>>

Settings == {"host", "port", "policy", "tokens", "admin", "limit", "history",
             "budget", "mode", "primary", "proxies", "exits", "fallback",
             "base", "max", "url", "key", "keys",
             "search", "searxng", "private", "reasoning"}

\* A document says something of some settings.  "port" has a name of schema 0,
\* and there are keys nobody knows.
Silence == [k \in {} |-> "unset"]
Missing == <<>>
Document(version, body) == [sound |-> TRUE, version |-> version, body |-> body]
Blank == Document(0, Silence)

NoFiles == [p \in {"local", "home"} |-> Missing]

Said(source, k) == IF k \in DOMAIN source THEN source[k] ELSE "unset"

\* What is said of a setting, or else what comes after it.
Else(v, next) == IF v = "unset" THEN next ELSE v

\* The command line, the environment, the file.
First(k, d) == Else(Said(flag, k), Else(Said(env, k), Said(d, k)))

-----------------------------------------------------------------------------
(* Reading the file.                                                       *)

\* migrate_value: an older document that has a setting under both names is in
\* error, and so is a newer one.
Migratable(doc) ==
  /\ doc.version <= 1
  /\ doc.version = 0 => ~({"bridge_port", "port"} \subseteq DOMAIN doc.body)

\* Old names are replaced and retired settings dropped.
Migrated(doc) ==
  LET body == doc.body
      old  == doc.version = 0 /\ "bridge_port" \in DOMAIN body
      kept == DOMAIN body \ ({"retired"} \cup IF old THEN {"bridge_port"} ELSE {})
  IN  Document(1, [k \in kept \cup (IF old THEN {"port"} ELSE {}) |->
                     IF old /\ k = "port" THEN body["bridge_port"] ELSE body[k]])

\* The types of TomlConfig.
Typed(body) == \A k \in DOMAIN body \cap Settings : body[k] # "mistyped"

\* from_file: a document in error counts for nothing, as a whole; what it says
\* of unknown keys is skipped.
InError(doc) == ~doc.sound \/ ~Migratable(doc) \/ ~Typed(Migrated(doc).body)
FromFile(doc) ==
  IF doc = Missing \/ InError(doc) THEN Silence ELSE Migrated(doc).body

\* The first file there is, or the place of the first.
ConfigPath ==
  IF files["local"] = Missing /\ files["home"] # Missing THEN "home" ELSE "local"

-----------------------------------------------------------------------------
(* The loader.  Each operator takes the body of the document.              *)

\* env_parse, env_bool: a value that does not parse is not there.
Parsed(k) == IF Said(env, k) = "bad" THEN "unset" ELSE Said(env, k)

\* Lists without an element say nothing.
Full(v) == IF v = "empty" THEN "unset" ELSE v

\* resolve_host: whoever speaks first is believed or nobody is.
Host(d) ==
  LET v == First("host", d) IN IF v \in {"unset", "bad"} THEN "loopback" ELSE v

Port(d) == Else(Said(flag, "port"), Else(Parsed("port"), Else(Said(d, "port"), "default")))

\* resolve_shell_policy
Policy(d) ==
  LET v == First("policy", d) IN IF v \in {"unset", "bad"} THEN "disabled" ELSE v

Tokens(d) == Else(Full(Said(env, "tokens")), Full(Said(d, "tokens")))

\* Limits and sizes; zero is a value like any other.
Limit(d) == Else(Parsed("limit"), Else(Said(d, "limit"), "some"))

\* secret_option of the variable or else the file.
Admin(d) == Else(Said(env, "admin"), Said(d, "admin"))

History(d) == Else(Parsed("history"), Else(Said(d, "history"), "off"))

\* The search budget: zero is refused wherever it comes from.
Budget(d) ==
  LET v == Else(Parsed("budget"), Said(d, "budget"))
  IN  IF v \in {"unset", "zero"} THEN "default" ELSE v

\* primary_proxies before proxies within a source, the environment before the
\* file.
FileProxies(d) ==
  IF Full(Said(d, "primary")) # "unset" THEN "unset" ELSE Full(Said(d, "proxies"))
NamedPool(d) ==
  Else(Full(Said(env, "primary")),
       Else(Full(Said(env, "proxies")), Else(Full(Said(d, "primary")), FileProxies(d))))

Mode(d) ==
  LET v == First("mode", d) IN IF v \in {"unset", "bad"} THEN "hybrid" ELSE v

Exits(d) == Else(Parsed("exits"), Else(Said(d, "exits"), "one"))
Fallback(d) == Else(Parsed("fallback"), Else(Said(d, "fallback"), "no"))

Base(d) == Else(Parsed("base"), Else(Said(d, "base"), "low"))
Max(d) == Else(Parsed("max"), Else(Said(d, "max"), "high"))

Url(d) == Else(First("url", d), "https")

\* The address of a search provider, that of SearXNG, and whether the latter may be
\* a private one (allow_private_searxng).
Search(d) == Else(Said(env, "search"), Else(Said(d, "search"), "https"))
SearxNG(d) == First("searxng", d)
Private(d) == Else(Parsed("private"), Else(Said(d, "private"), "no"))

\* min_reasoning_stream_tokens: whoever speaks first is heard, but for a zero.
Reasoning(d) ==
  LET v == Else(Parsed("reasoning"), Said(d, "reasoning"))
  IN  IF v \in {"unset", "zero"} THEN "default" ELSE v

\* The single key and, from the file only, the pool behind it.
Cleared == "clear" \in DOMAIN flag
Keys(d) == IF Cleared THEN "unset" ELSE Said(d, "keys")
Key(d) == IF Cleared THEN "unset" ELSE Else(First("key", d), Keys(d))

\* load: the program's configuration.
Load(d) ==
  [host |-> Host(d), port |-> Port(d), policy |-> Policy(d),
   tokens |-> Tokens(d), admin |-> Admin(d), limit |-> Limit(d),
   history |-> History(d), budget |-> Budget(d), mode |-> Mode(d),
   primary |-> Else(NamedPool(d), "builtin"), proxies |-> FileProxies(d),
   exits |-> Exits(d), fallback |-> Fallback(d), base |-> Base(d),
   max |-> Max(d), url |-> Url(d), key |-> Key(d), keys |-> Keys(d),
   search |-> Search(d), searxng |-> SearxNG(d), private |-> Private(d),
   reasoning |-> Reasoning(d), explicit |-> NamedPool(d) # "unset"]

\* What the file the program reads says.
Heeded == FromFile(files[ConfigPath])

-----------------------------------------------------------------------------
(* What the program refuses to start with: the first complaint, or "none". *)

Later(base, max) == (base = "above" /\ max # "top") \/ max = "below"

\* validate_upstream_transport
Transport(url, keyed) ==
  CASE url = "bad" -> "url"
    [] url = "http" /\ keyed -> "transport"
    [] OTHER -> "none"

Refusal(c) ==
  IF Transport(c.url, c.key # "unset") # "none" THEN Transport(c.url, c.key # "unset")
  ELSE IF c.limit = "zero" THEN "limit"
  ELSE IF Later(c.base, c.max) THEN "backoff"
  ELSE IF c.search = "bad" \/ c.searxng = "bad" THEN "search"
  ELSE IF c.searxng = "private" /\ c.private # "yes" THEN "private"
  ELSE IF c.mode = "proxy" /\ ~c.explicit THEN "pool"
  ELSE IF c.mode = "proxy" /\ c.exits \in {"zero", "many"} THEN "exits"
  ELSE IF c.mode = "proxy" /\ c.fallback = "yes" THEN "fallback"
  ELSE IF c.host = "loopback" THEN "none"
  ELSE IF c.admin # "strong" THEN "admin"
  ELSE IF c.tokens # "strong" THEN "tokens"
  ELSE IF c.policy = "unrestricted" THEN "shell" ELSE "none"

-----------------------------------------------------------------------------
(* The dashboard.                                                          *)

\* KNOWN_ROOT_KEYS
Known == Settings \ {"history", "budget"}

\* Faulty: what has the wrong type is left to the loader.
AcceptableUntyped(body) == DOMAIN body \subseteq Known

\* validate_document
Acceptable(body) ==
  /\ DOMAIN body \subseteq Known
  /\ Typed(body)
  /\ Said(body, "port") # "zero"
  /\ Said(body, "host") # "bad"
  /\ Said(body, "policy") # "bad"
  /\ Said(body, "limit") # "zero"
  /\ Said(body, "exits") # "zero"
  /\ "url" \in DOMAIN body => Transport(body.url, "key" \in DOMAIN body) = "none"
  /\ {"base", "max"} \subseteq DOMAIN body => ~Later(body.base, body.max)

\* merge_values
Merge(into, from) ==
  [k \in DOMAIN into \cup DOMAIN from |-> IF k \in DOMAIN from THEN from[k] ELSE into[k]]

\* preview_config and apply_config: the two documents are migrated, merged key
\* by key and judged as a whole.
Apply(k, v) ==
  LET path == ConfigPath
      existing == IF files[path] = Missing THEN Blank ELSE files[path]
      incoming == Migrated(Document(0, [j \in {k} |-> v])).body
      merged == Merge(Migrated(existing).body, incoming)
      fine == /\ DOMAIN incoming \subseteq Known
              /\ existing.sound /\ Migratable(existing)
              /\ Acceptable(merged)
  IN  /\ files' = IF fine
                  THEN [files EXCEPT ![path] = Document(1, merged)] ELSE files
      /\ last' = [key |-> IF k = "bridge_port" THEN "port" ELSE k, value |-> v,
                  answer |-> IF fine THEN "ok" ELSE "refused"]

-----------------------------------------------------------------------------
(* What may be said.                                                       *)

FlagValues ==
  [host |-> {"public", "bad"}, port |-> {"p1"}, policy |-> {"unrestricted", "bad"},
   mode |-> {"proxy", "bad"}, url |-> {"http"}, key |-> {"k1"}, searxng |-> {"private"},
   clear |-> {"yes"}]

EnvValues ==
  [host |-> {"public", "bad"}, port |-> {"p1", "bad"}, policy |-> {"unrestricted"},
   tokens |-> {"strong", "weak", "empty"}, admin |-> {"strong", "weak"},
   limit |-> {"other", "zero", "bad"}, history |-> {"on", "bad"},
   budget |-> {"other", "zero"}, mode |-> {"proxy", "bad"},
   primary |-> {"list1", "empty"}, proxies |-> {"list2", "empty"},
   exits |-> {"many", "zero"}, fallback |-> {"yes"}, base |-> {"above"},
   max |-> {"below", "top"}, url |-> {"local", "http", "bad"}, key |-> {"k1"},
   search |-> {"bad"}, searxng |-> {"public"}, private |-> {"yes", "bad"},
   reasoning |-> {"other", "zero"}]

FileValues ==
  [host |-> {"loopback", "public", "bad"}, port |-> {"p2", "zero"},
   policy |-> {"unrestricted", "bad"}, tokens |-> {"strong", "weak", "empty"},
   admin |-> {"strong", "weak"}, limit |-> {"other", "zero", "mistyped"},
   history |-> {"on"}, budget |-> {"other", "zero"},
   mode |-> {"direct", "proxy", "bad"}, primary |-> {"list1", "empty"},
   proxies |-> {"list2", "empty"}, exits |-> {"many", "zero"},
   fallback |-> {"yes"}, base |-> {"above"}, max |-> {"below", "top"},
   url |-> {"local", "http", "bad"}, key |-> {"k2"}, keys |-> {"k3"},
   search |-> {"other", "bad"}, searxng |-> {"public", "private", "bad"},
   private |-> {"yes"}, reasoning |-> {"other", "zero"},
   bridge_port |-> {"p3"}, retired |-> {"yes"}, unknown |-> {"yes"}]

Entries(values) == UNION {{[j \in {k} |-> v] : v \in values[k]} : k \in DOMAIN values}

\* A server that listens to the network, one behind proxies, and one with
\* nothing but its defaults.
PublicServer == [host |-> "public", tokens |-> "strong", admin |-> "strong"]
ProxiedServer == [mode |-> "proxy", primary |-> "list1"]

\* Somebody edits the file by hand.
Edit(k, v) ==
  LET path == ConfigPath
      doc == IF files[path] = Missing THEN Blank ELSE files[path]
  IN  /\ files' = [files EXCEPT ![path] = [doc EXCEPT !.body = Merge(@, [j \in {k} |-> v])]]
      /\ last' = [key |-> k, value |-> v, answer |-> "none"]

\* A typo, or a file of a later release.
Spoil ==
  LET path == ConfigPath IN
  /\ files[path] # Missing
  /\ \E doc \in {[files[path] EXCEPT !.sound = FALSE], [files[path] EXCEPT !.version = 2]} :
       files' = [files EXCEPT ![path] = doc]
  /\ last' = [key |-> "port", value |-> "unset", answer |-> "none"]

StartupInit ==
  /\ flag \in {Silence} \cup Entries(FlagValues)
  /\ env \in {Silence} \cup Entries(EnvValues)
  /\ changes = Len(SelectSeq(<<flag, env>>, LAMBDA s : s # Silence))
  /\ changes <= MaxSaid
  /\ files \in {NoFiles} \cup
       {[NoFiles EXCEPT ![place] = Document(0, body)] :
          body \in {PublicServer, ProxiedServer}, place \in DOMAIN NoFiles}
  /\ last = [key |-> "port", value |-> "unset", answer |-> "none"]

StartupNext ==
  /\ changes < MaxChanges /\ changes' = changes + 1
  /\ UNCHANGED <<flag, env>>
  /\ \/ \E k \in DOMAIN FileValues : \E v \in FileValues[k] : Apply(k, v) \/ Edit(k, v)
     \/ Spoil

StartupSpec == StartupInit /\ [][StartupNext]_startupVars

-----------------------------------------------------------------------------
\* What a setting is resolved together with.
Related(k) ==
  CASE k \in {"primary", "proxies"} -> {"primary", "proxies", "explicit"}
    [] k \in {"key", "keys"} -> {"key", "keys"}
    [] OTHER -> {k}

\* The flags or the environment speak of a setting, or of one that decides it.
Shadowed(k) ==
  \/ Said(flag, k) # "unset" \/ Full(Parsed(k)) # "unset"
  \/ k \in {"host", "mode", "policy", "url", "search", "searxng"} /\ Said(env, k) # "unset"
  \/ k \in {"primary", "proxies"} /\ NamedPool(Silence) # "unset"
  \/ k \in {"key", "keys"} /\ Cleared

\* What the dashboard accepts although it comes to nothing: a retired setting,
\* a mode there is not, an empty list, no tokens at all for reasoning, and the older list of proxies beside the
\* newer.
Idle(k, v, body) ==
  \/ k = "retired"
  \/ k = "mode" /\ v = "bad"
  \/ k = "reasoning" /\ v = "zero"
  \/ v = "empty"
  \/ k = "proxies" /\ Full(Said(body, "primary")) # "unset"

\* How a setting shows in the configuration.
Shows(c, k) == IF k = "proxies" THEN c.primary ELSE c[k]

\* A refusal the dashboard could not foresee: it does not look at the flags and
\* the environment, at defaults, at the pool of keys, at where searches go, nor at what takes a
\* public address or proxies.
Unforeseen(reason, body) ==
  CASE reason \in {"url", "limit"} -> Shadowed(reason)
    [] reason = "transport" -> Shadowed("url") \/ Shadowed("key") \/ "keys" \in DOMAIN body
    [] reason = "backoff" ->
         \/ Shadowed("base") \/ Shadowed("max")
         \/ ~({"base", "max"} \subseteq DOMAIN body)
    [] OTHER -> TRUE

\* A change the dashboard accepts is in effect after the restart it asks for,
\* unless the flags or the environment speak of the same setting; whatever
\* older document it is merged into, it changes nothing else, except that it
\* may mend a document that counted for nothing; and the program does not refuse
\* to start for what the dashboard has checked.
AppliedAsMeant ==
  [][last'.answer = "ok" /\ changes' # changes =>
       \E d \in {Heeded}, e \in {Heeded'} : \E before \in {Load(d)}, after \in {Load(e)} :
         LET k == last'.key
             v == last'.value
             body == files'[ConfigPath'].body
         IN  /\ \/ files[ConfigPath] # Missing /\ InError(files[ConfigPath])
                \/ \A j \in DOMAIN before \ Related(k) : after[j] = before[j]
             /\ ~Shadowed(k) /\ ~Idle(k, v, body) => Shows(after, k) = v
             /\ Refusal(after) # "none" => Unforeseen(Refusal(after), body)]_startupVars
=============================================================================
