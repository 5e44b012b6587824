------------------------------ MODULE MCDeployment ------------------------------
(* Two start commands of different profiles and a stop command; and the rules of   *)
(* Configuration on environments of which each breaks one.                         *)
EXTENDS Deployment

CONSTANTS l1, l2

Plain ==
    [run   |-> [mode |-> "production", logsContent |-> FALSE, proxy |-> "none",
                limits |-> {1, 30}, composer |-> 1000, output |-> 2000],
     sweep |-> [durations |-> {8, 300}, batches |-> {20}, interval |-> 10, sweep |-> 8,
                retryBase |-> 5, retryMax |-> 300, langbot |-> "loopback"],
     web   |-> [path |-> TRUE, port |-> 8000, loopback |-> TRUE, prefix |-> TRUE,
                proxies |-> "listed", secret |-> "none", limits |-> {5, 600},
                loginLimits |-> {3, 60}, window |-> 60, retention |-> 86400,
                origin |-> "none", email |-> FALSE, publicOrigin |-> "other",
                provider |-> "none", complete |-> FALSE, companions |-> {"exact"}]]

Here   == [host |-> "db", name |-> "kb", pooled |-> FALSE, tls |-> TRUE]
Pooled == [Here EXCEPT !.pooled = TRUE]

Local(profile) ==
    [profile |-> profile, given |-> Variable \ {"DATABASE_URL", "MIGRATION_DATABASE_URL"},
     local |-> Service \union {"mcp", "gateway"}, malformed |-> FALSE, longSecret |-> TRUE,
     port |-> [mcp |-> 8000, gateway |-> 8765], runtime |-> Here, migration |-> Here,
     settings |-> Plain]

Keyless == [Local("full") EXCEPT !.given = @ \ {"ZHIPU_API_KEY"}]

MCEnv == [l \in Start |-> IF l = l1 THEN Local("langbot") ELSE Local("read")]

--------------------------------------------------------------------------------
\* The environments of the defaults are accepted, and each of these changes is refused.
Hosted  == [Local("full") EXCEPT !.given = @ \union {"DATABASE_URL", "MIGRATION_DATABASE_URL"}]

Faulty ==
    {Keyless, [Local("read") EXCEPT !.malformed = TRUE],
     [Local("full") EXCEPT !.port["mcp"] = 8765], [Local("read") EXCEPT !.port["mcp"] = 0],
     [Local("langbot") EXCEPT !.longSecret = FALSE],
     [Local("full") EXCEPT !.local = @ \ {"gateway"}],
     [Local("read") EXCEPT !.local = @ \ {"mcp"}, !.given = {"ZHIPU_API_KEY", "POSTGRES_PASSWORD"}],
     [Hosted EXCEPT !.runtime = Pooled, !.given = @ \ {"MIGRATION_DATABASE_URL"}],
     [Hosted EXCEPT !.migration = Pooled], [Hosted EXCEPT !.migration.name = "other"],
     [Local("read") EXCEPT !.settings.sweep.sweep = 10],
     [Local("read") EXCEPT !.settings.web.companions = {"wildcard"}],
     [Local("read") EXCEPT !.settings.web.email = TRUE],
     [Local("read") EXCEPT !.settings.run.logsContent = TRUE],
     [Local("read") EXCEPT !.settings.sweep.langbot = "other"]}

ASSUME \A p \in Profile : Local(p) \in HostEnv /\ ~Refused(Local(p))
ASSUME ~Refused(Hosted) /\ ~Refused([Hosted EXCEPT !.runtime = Pooled])
ASSUME \A env \in Faulty : env \in HostEnv /\ Refused(env)
ASSUME ~Opens([Local("full") EXCEPT !.settings.web.secret = "short"], "gateway")
================================================================================
