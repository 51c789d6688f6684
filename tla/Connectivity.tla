---------------------------- MODULE Connectivity ----------------------------
(***************************************************************************)
(* test_connection: the ladder of checks the tester climbs for a source,   *)
(* and what a run's node meets in the same surroundings.                   *)
(*                                                                         *)
(* A host resolves to a sequence of addresses (none: the lookup fails).    *)
(* An address is reachable or not and lies in a public range, a private    *)
(* one, or a private one that an allow_hosts entry covers.  What a server  *)
(* answers is an HTTP status class, or "broken" when the request fails in  *)
(* transport.  An outage may begin between any two checks.                 *)
(***************************************************************************)
EXTENDS Integers, Sequences

CONSTANT Resolutions    \* what a lookup may give: any number of addresses

VARIABLES
    source,   \* [type, refs, valid, secret, network]
    world,    \* the surroundings, with the fields of Calm
    checks,   \* ladder.checks: [name, status]
    rung      \* the next check; "end" once the report is made

probeVars == <<source, world, checks, rung>>

Sources ==
    [type : {"api_source", "db_source", "other"}, refs : BOOLEAN, valid : BOOLEAN,
     secret : {"none", "given", "missing"}, network : BOOLEAN]

Answers == {"ok", "denied", "error", "broken"}    \* < 400, 401 or 403, other, none
Addresses == [up : BOOLEAN, range : {"public", "private", "listed"}]
Guards == {"off", "on", "named"}                  \* named: allow_hosts has the host

ASSUME ResolutionsAssumption == Resolutions \subseteq Seq(Addresses)

Calm ==
    [addrs |-> <<[up |-> TRUE, range |-> "public"]>>, guard |-> "on", tls |-> "plain",
     hop |-> "none", bare |-> "ok", authed |-> "ok", login |-> TRUE, query |-> TRUE,
     outage |-> FALSE]

Rungs ==
    [api_source |-> <<"dns", "ssrf_policy", "tcp", "tls", "http", "auth">>,
     db_source |-> <<"dns", "ssrf_policy", "tcp", "connect", "query">>]

ProbeTypeOK ==
    /\ source \in Sources
    /\ DOMAIN world = DOMAIN Calm
    /\ rung \in {"config", "dns", "ssrf_policy", "tcp", "tls", "http", "auth",
                 "connect", "query", "end"}
    /\ Len(checks) <= 6
    /\ \A k \in 1..Len(checks) : checks[k].status \in {"passed", "failed", "skipped"}

\* What a source does not meet is fixed.
ApiWorlds ==
    [addrs : Resolutions, guard : Guards, tls : {"plain", "good", "bad"},
     hop : {"none", "allowed", "blocked"}, bare : Answers, authed : Answers,
     login : {TRUE}, query : {TRUE}, outage : {FALSE}]
DbWorlds ==
    [addrs : Resolutions, guard : Guards, tls : {"plain"}, hop : {"none"},
     bare : {"ok"}, authed : {"ok"}, login : BOOLEAN, query : BOOLEAN, outage : {FALSE}]

ProbeInit ==
    /\ checks = <<>> /\ rung = "config"
    /\ source \in Sources
    /\ source.type # "db_source" => source.network
    /\ world \in IF source.type = "other" \/ source.refs \/ ~source.valid THEN {Calm}
                 ELSE IF source.type = "db_source" THEN DbWorlds ELSE ApiWorlds
    /\ source.secret # "given" => world.authed = world.bare

-----------------------------------------------------------------------------
(* The network policy.                                                     *)

\* _is_blocked_address, unless a network of allow_hosts holds the address.
Blocked(address) == address.range = "private"

\* find_blocked: one blocked address is enough.
FindBlocked ==
    world.guard = "on" /\ \E k \in DOMAIN world.addrs : Blocked(world.addrs[k])

\* ensure_url_allowed and ensure_db_host_allowed: "dns" and "blocked" are the
\* exceptions.  The name is only looked up when the policy needs addresses.
EnsureAllowed ==
    IF world.guard # "on" THEN "allowed"
    ELSE IF world.addrs = <<>> THEN "dns"
    ELSE IF FindBlocked THEN "blocked" ELSE "allowed"

\* A connection by name tries every address; one by address that address.
Up(k) == ~world.outage /\ world.addrs[k].up
Connects == \E k \in DOMAIN world.addrs : Up(k)

\* client.request: the request hook checks each hop, then the client
\* connects, over TLS if so configured, and gets the server's answer.
Request(answer) ==
    IF EnsureAllowed # "allowed" \/ ~Connects \/ world.tls = "bad" THEN "broken"
    ELSE IF world.hop = "blocked" /\ world.guard # "off" THEN "broken"
    ELSE answer

-----------------------------------------------------------------------------
(* _Ladder.                                                                *)

Check(name, status) == [name |-> name, status |-> status]

\* skip_rest
SkipRest(names) == [k \in 1..Len(names) |-> Check(names[k], "skipped")]

Climb(name, status, next) ==
    /\ checks' = Append(checks, Check(name, status))
    /\ rung' = next
    /\ UNCHANGED <<source, world>>

\* A failed check ends the ladder: the rest is skipped and the report made.
StopAt(name, rest) ==
    /\ checks' = Append(checks, Check(name, "failed")) \o SkipRest(rest)
    /\ rung' = "end"
    /\ UNCHANGED <<source, world>>

Testing(type, name) == source.type = type /\ rung = name

\* One check: its outcome, where a success leads and what a failure skips.
Test(holds, name, next, rest) ==
    IF holds THEN Climb(name, "passed", next) ELSE StopAt(name, rest)

-----------------------------------------------------------------------------
\* The configuration is not a check of its own: only its failure is listed.
Configured ==
    /\ source.type # "other" /\ ~source.refs /\ source.valid
    /\ source.type = "db_source" => source.secret # "missing"

UnsupportedType == rung = "config" /\ source.type = "other" /\ StopAt("config", <<>>)

ApiConfig ==
    /\ Testing("api_source", "config")
    /\ IF Configured THEN rung' = "dns" /\ UNCHANGED <<source, world, checks>>
       ELSE StopAt("config", <<>>)

DbConfig ==
    /\ Testing("db_source", "config")
    /\ IF ~Configured THEN StopAt("config", <<>>)
       ELSE IF source.network THEN rung' = "dns" /\ UNCHANGED <<source, world, checks>>
       ELSE /\ checks' = SkipRest(<<"dns", "ssrf_policy", "tcp">>)
            /\ rung' = "connect"
            /\ UNCHANGED <<source, world>>

\* A lookup that fails skips the rest; for an api_source without the policy.
ApiDns ==
    /\ Testing("api_source", "dns")
    /\ Test(world.addrs # <<>>, "dns", "ssrf_policy", <<"tcp", "tls", "http", "auth">>)

DbDns ==
    /\ Testing("db_source", "dns")
    /\ Test(world.addrs # <<>>, "dns", "ssrf_policy", <<"ssrf_policy", "tcp", "connect", "query">>)

PolicyRung(rest) ==
    IF world.guard = "off" THEN Climb("ssrf_policy", "skipped", "tcp")
    ELSE Test(~FindBlocked, "ssrf_policy", "tcp", rest)

ApiPolicy == Testing("api_source", "ssrf_policy") /\ PolicyRung(<<"tcp", "tls", "http", "auth">>)
DbPolicy == Testing("db_source", "ssrf_policy") /\ PolicyRung(<<"tcp", "connect", "query">>)

\* Only the first address is tried.
ApiTcp == Testing("api_source", "tcp") /\ Test(Up(1), "tcp", "tls", <<"tls", "http", "auth">>)
DbTcp == Testing("db_source", "tcp") /\ Test(Up(1), "tcp", "connect", <<"connect", "query">>)

TlsRung ==
    /\ Testing("api_source", "tls")
    /\ IF world.tls = "plain" THEN Climb("tls", "skipped", "http")
       ELSE Test(Connects /\ world.tls = "good", "tls", "http", <<"http", "auth">>)

\* Any answer will do.
HttpRung ==
    /\ Testing("api_source", "http")
    /\ Test(Request(world.bare) # "broken", "http", "auth", <<"auth">>)

\* Mutant: the credentials are not tried.
AuthRungUntried ==
    /\ Testing("api_source", "auth")
    /\ IF source.secret = "none" THEN Climb("auth", "skipped", "end")
       ELSE Test(source.secret = "given", "auth", "end", <<>>)

AuthRung ==
    /\ Testing("api_source", "auth")
    /\ IF source.secret = "none" THEN Climb("auth", "skipped", "end")
       ELSE Test(/\ source.secret = "given"
                 /\ Request(world.authed) \notin {"broken", "denied"}, "auth", "end", <<>>)

Logs == world.login /\ (source.network => Connects)

\* Mutant: a connection that fails is tried again.
ConnectRungRetries ==
    /\ Testing("db_source", "connect")
    /\ IF Logs THEN Climb("connect", "passed", "query") ELSE Climb("connect", "failed", "connect")

ConnectRung == Testing("db_source", "connect") /\ Test(Logs, "connect", "query", <<"query">>)

\* SELECT 1 on the connection of the check before.
QueryRung == Testing("db_source", "query") /\ Test(~world.outage, "query", "end", <<>>)

\* The network goes away while the ladder is climbed.
Outage ==
    /\ rung \notin {"config", "end"} /\ ~world.outage
    /\ world' = [world EXCEPT !.outage = TRUE]
    /\ UNCHANGED <<source, checks, rung>>

ProbeStep ==
    \/ UnsupportedType \/ ApiConfig \/ DbConfig \/ ApiDns \/ DbDns \/ ApiPolicy \/ DbPolicy
    \/ ApiTcp \/ DbTcp \/ TlsRung \/ HttpRung \/ AuthRung \/ ConnectRung \/ QueryRung
    \/ Outage

ProbeSpec == ProbeInit /\ [][ProbeStep]_probeVars

ProbeDone == rung = "end"

-----------------------------------------------------------------------------
(* What a run's node does with the same source in the same surroundings.   *)

\* ApiSourceNode.run: the policy, the credential, then the request.
ApiRun ==
    IF EnsureAllowed # "allowed" THEN EnsureAllowed
    ELSE IF source.secret = "missing" THEN "secret"
    ELSE Request(IF source.secret = "given" THEN world.authed ELSE world.bare)

\* DbSourceNode.run: the password, the policy, then run_query.
DbRun ==
    IF source.secret = "missing" THEN "secret"
    ELSE IF source.network /\ EnsureAllowed # "allowed" THEN EnsureAllowed
    ELSE IF ~Logs THEN "broken"
    ELSE IF world.query THEN "ok" ELSE "error"

RunMeets == IF source.type = "api_source" THEN ApiRun ELSE DbRun

-----------------------------------------------------------------------------
(* Properties.                                                             *)

Passed == \A k \in 1..Len(checks) : checks[k].status # "failed"    \* _Ladder.ok

\* A report lists every check once, in the order of the ladder: some that
\* hold or do not apply, then at most one that failed, then only skipped
\* ones.  The one exception is the code's: an api_source whose lookup fails
\* has no entry for the policy.
LadderShape ==
    LET names == [k \in 1..Len(checks) |-> checks[k].name]
        lost == source.type = "api_source" /\ world.addrs = <<>>
    IN  /\ ~Configured => checks = <<Check("config", "failed")>>
        /\ Configured => names = IF lost THEN <<"dns", "tcp", "tls", "http", "auth">>
                                 ELSE Rungs[source.type]
        /\ \A j, k \in 1..Len(checks) :
              checks[j].status = "failed" /\ j < k => checks[k].status = "skipped"

\* "What the tester exercises is exactly what a run would do", made exact.
\* In surroundings that did not change, a report without a failed check means
\* that a run reaches the server, passes the policy and is not turned away
\* with its credentials; a report with one means that a run fails too, unless
\* the first address alone is down or only the request without credentials
\* breaks.  Whatever happens meanwhile, the report has its shape.  The tester
\* sends a GET: the source is taken to be answered as a GET is, whatever its
\* method.
ReportAgreesWithRun ==
    rung = "end" =>
        /\ LadderShape
        /\ Configured /\ ~world.outage =>
              /\ Passed => /\ RunMeets \in {"ok", "denied", "error"}
                           /\ RunMeets = "denied" => source.secret = "none"
              /\ ~Passed => \/ RunMeets # "ok"
                            \/ Connects /\ ~Up(1)
                            \/ source.type = "api_source" /\ world.bare = "broken"
=============================================================================
