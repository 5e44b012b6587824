------------------------------ MODULE Configuration ------------------------------
(******************************************************************************)
(* What the environment of a host configures: the children and the services   *)
(* of a profile, the listeners, the target of the migrations, and the rules   *)
(* by which the settings are refused. A group of numbers under one rule is a  *)
(* set, a URL or a secret is the class the rules tell apart.                  *)
(******************************************************************************)
EXTENDS Integers

Profile   == {"read", "full", "langbot"}
Component == {"worker", "beat", "mcp", "gateway"}
Service   == {"postgres", "redis", "minio"}
Variable  == {"ZHIPU_API_KEY", "DATABASE_URL", "POSTGRES_PASSWORD", "MINIO_ROOT_USER",
              "MINIO_ROOT_PASSWORD", "CHANNEL_GATEWAY_SECRET", "MIGRATION_DATABASE_URL",
              "NOTEBOOK_AGENT_ALLOW_NON_LOOPBACK"}

--------------------------------------------------------------------------------
(* Settings *)

\* The limits of ingestion and the agent; a composer gets part of the output budget.
RuntimeSettings ==
    [mode : {"development", "production", "other"}, logsContent : BOOLEAN,
     proxy : {"none", "loopback", "other"}, limits : SUBSET Int,
     composer : Int, output : Int]

\* The purge, the publisher and the notification poller with its LangBot endpoint.
SweepSettings ==
    [durations : SUBSET Int, batches : SUBSET Int, interval : Int, sweep : Int,
     retryBase : Int, retryMax : Int, langbot : {"https", "loopback", "other"}]

WebSettings ==
    [path : BOOLEAN, port : Int, loopback : BOOLEAN, prefix : BOOLEAN,
     proxies : {"listed", "any", "none"}, secret : {"none", "short", "long"},
     limits : SUBSET Int, loginLimits : SUBSET Int, window : Int, retention : Int,
     origin : {"none", "https", "loopback", "other"},
     email : BOOLEAN, publicOrigin : {"https", "other"},
     provider : {"none", "resend", "smtp", "other"}, complete : BOOLEAN,
     companions : SUBSET {"exact", "wildcard", "malformed"}]

Settings == [run : RuntimeSettings, sweep : SweepSettings, web : WebSettings]

Positive(limits) == \A n \in limits : n > 0
IsPort(n) == n \in 1..65535

\* Mode, paths and the limits of Web authentication.
RuntimeRefused(s) ==
    \/ s.run.mode = "other" \/ (s.run.logsContent /\ s.run.mode # "development")
    \/ ~s.web.path \/ ~s.web.prefix \/ ~Positive(s.web.limits)

\* Every extension may ask only on a development server on loopback.
CompanionRefused(s) ==
    \/ "malformed" \in s.web.companions
    \/ /\ "wildcard" \in s.web.companions
       /\ s.run.mode # "development" \/ ~s.web.loopback

EmailRefused(s) ==
    /\ s.web.email
    /\ \/ s.web.publicOrigin # "https" \/ s.web.secret # "long"
       \/ s.web.provider = "other"
       \/ s.run.mode = "production" /\ s.web.provider = "none"
       \/ s.web.provider # "none" /\ ~s.web.complete

\* A sweep of the poller ends before the next one is due.
SweepRefused(s) ==
    \/ ~Positive(s.run.limits \union s.sweep.durations)
    \/ ~(s.sweep.batches \subseteq 1..100)
    \/ s.sweep.sweep >= s.sweep.interval \/ s.sweep.retryBase > s.sweep.retryMax
    \/ s.run.composer > s.run.output

UrlRefused(s) == s.sweep.langbot = "other" \/ s.run.proxy = "other"

SettingsRefused(s) ==
    \/ RuntimeRefused(s) \/ CompanionRefused(s) \/ EmailRefused(s)
    \/ SweepRefused(s) \/ UrlRefused(s)

\* What the channel-approved Web login asks for when it has a secret.
LoginRefused(s) ==
    \/ s.web.secret = "short" \/ ~Positive(s.web.loginLimits)
    \/ s.web.retention < s.web.window \/ ~IsPort(s.web.port)
    \/ s.web.proxies # "listed" \/ s.web.origin = "other"

--------------------------------------------------------------------------------
(* Environments *)

\* A database target: where it is, its name, and how it is reached.
Database == [host : STRING, name : STRING, pooled : BOOLEAN, tls : BOOLEAN]

\* local: the endpoints on a loopback host, with the scheme and the port they need.
HostEnv ==
    [profile : Profile, given : SUBSET Variable, local : SUBSET (Service \union Component),
     malformed : BOOLEAN, longSecret : BOOLEAN, port : [{"mcp", "gateway"} -> Int],
     runtime : Database, migration : Database, settings : Settings]

Components(env) ==
    CASE env.profile = "read"    -> {"mcp"}
      [] env.profile = "full"    -> {"worker", "beat", "mcp", "gateway"}
      [] env.profile = "langbot" -> {"worker", "beat", "gateway"}

\* Compose runs what the environment expects on this host.
Services(env) ==
    (IF "DATABASE_URL" \in env.given THEN {} ELSE env.local \intersect {"postgres"})
    \union (IF env.profile = "read" THEN {} ELSE env.local \intersect {"redis", "minio"})

Missing(env) ==
    ({"ZHIPU_API_KEY"}
     \union (IF "DATABASE_URL" \in env.given THEN {} ELSE {"POSTGRES_PASSWORD"})
     \union (IF env.profile = "read" THEN {}
             ELSE {"MINIO_ROOT_USER", "MINIO_ROOT_PASSWORD", "CHANNEL_GATEWAY_SECRET"}))
    \ env.given

Listeners(env) == Components(env) \intersect {"mcp", "gateway"}

ListenersRefused(env) ==
    \/ \E c \in Listeners(env) : ~IsPort(env.port[c])
    \/ \E c, d \in Listeners(env) : c # d /\ env.port[c] = env.port[d]
    \/ "gateway" \in Listeners(env) /\ ("gateway" \notin env.local \/ ~env.longSecret)
    \/ /\ "mcp" \in Listeners(env) \ env.local
       /\ "NOTEBOOK_AGENT_ALLOW_NON_LOOPBACK" \notin env.given

\* Migrations go to the runtime's database, past its pooler.
MigrationRefused(env) ==
    LET pooled == "DATABASE_URL" \in env.given /\ env.runtime.pooled
    IN  \/ pooled /\ ~env.runtime.tls
        \/ pooled /\ "MIGRATION_DATABASE_URL" \notin env.given
        \/ /\ "MIGRATION_DATABASE_URL" \in env.given
           /\ \/ "DATABASE_URL" \notin env.given \/ env.migration.pooled
              \/ env.migration.name # env.runtime.name
              \/ env.migration.host # env.runtime.host
              \/ pooled /\ ~env.migration.tls

\* The static checks: nothing was touched when one refuses.
Refused(env) ==
    \/ env.malformed \/ Missing(env) # {}
    \/ ListenersRefused(env) \/ MigrationRefused(env)
    \/ SettingsRefused(env.settings)

\* The gateway composes the Web login as soon as there is a secret for it.
Opens(env, c) ==
    c = "gateway" /\ env.settings.web.secret # "none" => ~LoginRefused(env.settings)

================================================================================
