---------------------------- MODULE Nodes_proofs ----------------------------
(***************************************************************************)
(* Proofs about Connectivity, for any number of addresses, about Records,  *)
(* for any records, lists of them and number of nodes, and about the node  *)
(* library that MCNodes puts together.                                     *)
(***************************************************************************)
EXTENDS MCNodes, Sinks_proofs, NaturalsInduction

-----------------------------------------------------------------------------
(* Connectivity: the inductive invariant.                                  *)

Statuses == {"passed", "failed", "skipped"}
CheckNames ==
    {"config", "dns", "ssrf_policy", "tcp", "tls", "http", "auth", "connect", "query"}
CheckType == [name : CheckNames, status : Statuses]

WorldType ==
    [addrs : Seq(Addresses), guard : Guards, tls : {"plain", "good", "bad"},
     hop : {"none", "allowed", "blocked"}, bare : Answers, authed : Answers,
     login : BOOLEAN, query : BOOLEAN, outage : BOOLEAN]

Climbing == rung \notin {"config", "end"}

\* While the ladder is climbed, what is listed is what lies below the rung,
\* and none of it failed.
ClimbInv ==
    /\ rung = "config" => checks = <<>>
    /\ Climbing =>
          /\ Configured
          /\ Len(checks) < Len(Rungs[source.type])
          /\ rung = Rungs[source.type][Len(checks) + 1]
          /\ \A k \in 1..Len(checks) :
                checks[k].name = Rungs[source.type][k] /\ checks[k].status # "failed"

\* What the checks passed so far say of the surroundings, unless they changed.
MetInv ==
    Climbing =>
        /\ source.network /\ rung # "dns" => world.addrs # <<>>
        /\ source.network /\ rung \notin {"dns", "ssrf_policy"} => EnsureAllowed = "allowed"
        /\ ~source.network => rung \in {"connect", "query"} /\ source.type = "db_source"
        /\ ~world.outage /\ rung \in {"tls", "http", "auth"} => Up(1)
        /\ rung \in {"http", "auth"} => world.tls # "bad"
        /\ ~world.outage /\ rung = "auth" => Request(world.bare) # "broken"
        /\ ~world.outage /\ rung = "query" => Logs

\* What a source does not meet, and what it has no use for.
WorldInv ==
    /\ source.type # "db_source" => source.network
    /\ source.secret # "given" => world.authed = world.bare

ProbeInv ==
    /\ source \in Sources /\ world \in WorldType
    /\ rung \in CheckNames \cup {"end"}
    /\ checks \in Seq(CheckType) /\ Len(checks) <= 6
    /\ WorldInv /\ ClimbInv /\ MetInv
    /\ ReportAgreesWithRun

-----------------------------------------------------------------------------
(* Lemmas about the ladder.                                                *)

LEMMA ApiLadder ==
  LET r == Rungs["api_source"]
  IN  /\ r \in Seq(CheckNames) /\ Len(r) = 6
      /\ r[1] = "dns" /\ r[2] = "ssrf_policy" /\ r[3] = "tcp"
      /\ r[4] = "tls" /\ r[5] = "http" /\ r[6] = "auth"
<1> DEFINE r == <<"dns", "ssrf_policy", "tcp", "tls", "http", "auth">>
<1>1. Rungs["api_source"] = r
  BY DEF Rungs
<1>2. /\ r[1] = "dns" /\ r[2] = "ssrf_policy" /\ r[3] = "tcp"
      /\ r[4] = "tls" /\ r[5] = "http" /\ r[6] = "auth"
  OBVIOUS
<1>3. r \in Seq(CheckNames) /\ Len(r) = 6
  BY DEF CheckNames
<1> QED BY <1>1, <1>2, <1>3

LEMMA DbLadder ==
  LET r == Rungs["db_source"]
  IN  /\ r \in Seq(CheckNames) /\ Len(r) = 5
      /\ r[1] = "dns" /\ r[2] = "ssrf_policy" /\ r[3] = "tcp"
      /\ r[4] = "connect" /\ r[5] = "query"
<1> DEFINE r == <<"dns", "ssrf_policy", "tcp", "connect", "query">>
<1>1. Rungs["db_source"] = r
  BY DEF Rungs
<1>2. /\ r[1] = "dns" /\ r[2] = "ssrf_policy" /\ r[3] = "tcp"
      /\ r[4] = "connect" /\ r[5] = "query"
  OBVIOUS
<1>3. r \in Seq(CheckNames) /\ Len(r) = 5
  BY DEF CheckNames
<1> QED BY <1>1, <1>2, <1>3

\* What both ladders begin with.
LEMMA FirstRungs ==
  ASSUME NEW type, type = "api_source" \/ type = "db_source"
  PROVE  /\ Len(Rungs[type]) \in Nat /\ Len(Rungs[type]) >= 5
         /\ Rungs[type][1] = "dns" /\ Rungs[type][2] = "ssrf_policy" /\ Rungs[type][3] = "tcp"
<1>1. CASE type = "api_source"
  BY <1>1, ApiLadder
<1>2. CASE type = "db_source"
  BY <1>2, DbLadder
<1> QED BY <1>1, <1>2

\* A check that does not fail extends the list by itself.
LEMMA ClimbShape ==
  ASSUME checks \in Seq(CheckType), NEW name \in CheckNames, NEW status \in Statuses,
         checks' = Append(checks, Check(name, status))
  PROVE  /\ checks' \in Seq(CheckType) /\ Len(checks') = Len(checks) + 1
         /\ \A k \in 1..Len(checks) : checks'[k] = checks[k]
         /\ checks'[Len(checks) + 1].name = name
         /\ checks'[Len(checks) + 1].status = status
<1> DEFINE c == Check(name, status)
<1>1. c \in CheckType /\ c.name = name /\ c.status = status
  BY DEF Check, CheckType
<1>2. checks' = Append(checks, c)
  OBVIOUS
<1> HIDE DEF c
<1> QED BY <1>1, <1>2, AppendProperties

\* A check that fails is the only one that failed, and the last one that was
\* not skipped.
Stopped(name, rest) ==
    /\ checks' \in Seq(CheckType) /\ Len(checks') = Len(checks) + 1 + Len(rest)
    /\ \A k \in 1..Len(checks) : checks'[k] = checks[k]
    /\ checks'[Len(checks) + 1].name = name /\ checks'[Len(checks) + 1].status = "failed"
    /\ \A k \in 1..Len(rest) : checks'[Len(checks) + 1 + k].name = rest[k]
    /\ \A j, k \in 1..Len(checks') :
          checks'[j].status = "failed" /\ j < k => checks'[k].status = "skipped"

LEMMA StopShape ==
  ASSUME checks \in Seq(CheckType), NEW name \in CheckNames, NEW rest \in Seq(CheckNames),
         \A k \in 1..Len(checks) : checks[k].status # "failed",
         checks' = Append(checks, Check(name, "failed")) \o SkipRest(rest)
  PROVE  Stopped(name, rest)
<1> DEFINE c == Check(name, "failed")
           t == Append(checks, c)
           r == SkipRest(rest)
           n == Len(checks)
           m == Len(rest)
<1>1. c \in CheckType /\ c.name = name /\ c.status = "failed"
  BY DEF Check, CheckType, Statuses
<1>2. n \in Nat /\ m \in Nat
  BY LenProperties
<1>3. /\ t \in Seq(CheckType) /\ Len(t) = n + 1
      /\ \A k \in 1..n : t[k] = checks[k]
      /\ t[n + 1] = c
  <2> HIDE DEF c
  <2> QED BY <1>1, AppendProperties
<1>4. /\ r \in Seq(CheckType) /\ Len(r) = m
      /\ \A k \in 1..m : r[k].name = rest[k] /\ r[k].status = "skipped"
  <2>1. \A k \in 1..m : rest[k] \in CheckNames
    BY ElementOfSeq
  <2>2. r = [k \in 1..m |-> Check(rest[k], "skipped")]
    BY DEF SkipRest
  <2>3. \A k \in 1..m : /\ Check(rest[k], "skipped") \in CheckType
                        /\ Check(rest[k], "skipped").name = rest[k]
                        /\ Check(rest[k], "skipped").status = "skipped"
    BY <2>1 DEF Check, CheckType, Statuses
  <2> HIDE DEF r, m
  <2>4. r \in [1..m -> CheckType]
    BY <2>2, <2>3
  <2>5. r \in Seq(CheckType) /\ Len(r) = m
    BY ONLY <2>4, <1>2
  <2> QED BY <2>2, <2>3, <2>5
<1> HIDE DEF c, t, r
<1>5. /\ checks' = t \o r
      /\ checks' \in Seq(CheckType) /\ Len(checks') = (n + 1) + m
      /\ \A k \in 1..(n + 1) : checks'[k] = t[k]
      /\ \A k \in 1..m : checks'[(n + 1) + k] = r[k]
  <2>1. checks' = t \o r
    BY DEF t, r, c
  <2> HIDE DEF n, m
  <2>2. t \o r \in Seq(CheckType) /\ Len(t \o r) = Len(t) + Len(r)
    BY <1>3, <1>4, ConcatProperties
  <2>3. \A k \in 1..(Len(t) + Len(r)) : (t \o r)[k] = IF k <= Len(t) THEN t[k] ELSE r[k - Len(t)]
    BY <1>3, <1>4, ConcatProperties
  <2>4. \A k \in 1..(n + 1) : k \in 1..(Len(t) + Len(r)) /\ k <= Len(t)
    BY <1>2, <1>3, <1>4
  <2>5. \A k \in 1..(n + 1) : (t \o r)[k] = t[k]
    BY <2>3, <2>4
  <2>6. ASSUME NEW k \in 1..m
        PROVE  (t \o r)[(n + 1) + k] = r[k]
    <3> DEFINE p == (n + 1) + k
    <3>1. p \in 1..(Len(t) + Len(r)) /\ ~(p <= Len(t)) /\ p - Len(t) = k
      BY <1>2, <1>3, <1>4
    <3> HIDE DEF p
    <3>2. (t \o r)[p] = r[p - Len(t)]
      BY <2>3, <3>1
    <3> QED BY <3>1, <3>2 DEF p
  <2>7. Len(t \o r) = (n + 1) + m
    BY <2>2, <1>3, <1>4
  <2> QED BY <2>1, <2>2, <2>5, <2>6, <2>7
<1>6. \A k \in 1..n : checks'[k] = checks[k]
  <2> HIDE DEF n, m
  <2>1. \A k \in 1..n : k \in 1..(n + 1)
    BY <1>2
  <2> QED BY <2>1, <1>3, <1>5
<1>7. checks'[n + 1] = c
  <2> HIDE DEF n, m
  <2>1. n + 1 \in 1..(n + 1)
    BY <1>2
  <2> QED BY <2>1, <1>3, <1>5
<1>8. ASSUME NEW j \in 1..Len(checks'), NEW k \in 1..Len(checks'),
             checks'[j].status = "failed", j < k
      PROVE  checks'[k].status = "skipped"
  <2> HIDE DEF n, m
  <2>1. ~(j \in 1..n)
    BY <1>6, <1>8 DEF n
  <2>2. k \in (n + 2)..((n + 1) + m)
    BY <2>1, <1>2, <1>5, <1>8
  <2>3. k - (n + 1) \in 1..m /\ (n + 1) + (k - (n + 1)) = k
    BY <2>2, <1>2
  <2>4. PICK i \in 1..m : k = (n + 1) + i
    BY ONLY <2>3
  <2> QED BY <2>4, <1>4, <1>5
<1>9. \A k \in 1..m : /\ checks'[(n + 1) + k].name = rest[k]
                      /\ checks'[(n + 1) + k].status = "skipped"
  BY <1>4, <1>5
<1> QED BY <1>1, <1>5, <1>6, <1>7, <1>8, <1>9 DEF Stopped

\* The rung tells how many checks were made.
LEMMA Height ==
  ASSUME ProbeInv, Climbing
  PROVE  /\ source.type = "api_source" \/ source.type = "db_source"
         /\ rung = "dns" <=> Len(checks) = 0
         /\ rung = "ssrf_policy" <=> Len(checks) = 1
         /\ rung = "tcp" <=> Len(checks) = 2
         /\ source.type = "api_source" =>
               /\ rung = "tls" <=> Len(checks) = 3
               /\ rung = "http" <=> Len(checks) = 4
               /\ rung = "auth" <=> Len(checks) = 5
         /\ source.type = "db_source" =>
               /\ rung = "connect" <=> Len(checks) = 3
               /\ rung = "query" <=> Len(checks) = 4
<1> DEFINE n == Len(checks)
<1>1. n \in Nat
  BY LenProperties DEF ProbeInv
<1>2. /\ Configured /\ n < Len(Rungs[source.type]) /\ rung = Rungs[source.type][n + 1]
      /\ source \in Sources
  BY DEF ProbeInv, ClimbInv
<1>3. source.type = "api_source" \/ source.type = "db_source"
  BY <1>2 DEF Configured, Sources
<1> HIDE DEF n
<1>4. CASE source.type = "api_source"
  <2>1. n = 0 \/ n = 1 \/ n = 2 \/ n = 3 \/ n = 4 \/ n = 5
    BY ONLY <1>1, <1>2, <1>4, ApiLadder
  <2>2. /\ (n = 0 => rung = "dns") /\ (n = 1 => rung = "ssrf_policy")
        /\ (n = 2 => rung = "tcp") /\ (n = 3 => rung = "tls")
        /\ (n = 4 => rung = "http") /\ (n = 5 => rung = "auth")
    BY <1>2, <1>4, ApiLadder
  <2> QED BY <2>1, <2>2, <1>4 DEF n
<1>5. CASE source.type = "db_source"
  <2>1. n = 0 \/ n = 1 \/ n = 2 \/ n = 3 \/ n = 4
    BY ONLY <1>1, <1>2, <1>5, DbLadder
  <2>2. /\ (n = 0 => rung = "dns") /\ (n = 1 => rung = "ssrf_policy")
        /\ (n = 2 => rung = "tcp") /\ (n = 3 => rung = "connect")
        /\ (n = 4 => rung = "query")
    BY <1>2, <1>5, DbLadder
  <2> QED BY <2>1, <2>2, <1>5 DEF n
<1> QED BY <1>3, <1>4, <1>5

\* What a run meets when the report says that it works, and when it does not.
Welcome ==
    /\ RunMeets \in {"ok", "denied", "error"}
    /\ RunMeets = "denied" => source.secret = "none"

Excused ==
    \/ RunMeets # "ok"
    \/ Connects /\ ~Up(1)
    \/ source.type = "api_source" /\ world.bare = "broken"

LEMMA SameWorld ==
  ASSUME UNCHANGED <<source, world>>
  PROVE  /\ Configured' <=> Configured
         /\ EnsureAllowed' = EnsureAllowed
         /\ Up(1)' <=> Up(1)
         /\ Logs' <=> Logs
         /\ Request(world.bare)' = Request(world.bare)
         /\ Welcome' <=> Welcome
         /\ Excused' <=> Excused
<1>1. /\ EnsureAllowed' = EnsureAllowed
      /\ Connects' <=> Connects
      /\ Up(1)' <=> Up(1)
  BY DEF EnsureAllowed, FindBlocked, Blocked, Connects, Up
<1>2. /\ Request(world.bare)' = Request(world.bare)
      /\ Request(world.authed)' = Request(world.authed)
  BY <1>1 DEF Request
<1>3. Logs' <=> Logs
  BY <1>1 DEF Logs
<1>4. RunMeets' = RunMeets
  BY <1>1, <1>2, <1>3 DEF RunMeets, ApiRun, DbRun
<1>5. Configured' <=> Configured
  BY DEF Configured
<1> QED BY <1>1, <1>2, <1>3, <1>4, <1>5 DEF Welcome, Excused

\* What a step leaves of the invariant when it only moves along the ladder.
LEMMA SameWorldInv ==
  ASSUME ProbeInv, UNCHANGED <<source, world>>
  PROVE  source' \in Sources /\ world' \in WorldType /\ WorldInv'
BY DEF ProbeInv, WorldInv

-----------------------------------------------------------------------------
(* Connectivity: every step keeps the invariant.                           *)

LEMMA LadderLength ==
  ASSUME NEW type \in {"api_source", "db_source"}
  PROVE  Rungs[type] \in Seq(CheckNames) /\ Len(Rungs[type]) \in Nat /\ Len(Rungs[type]) <= 6
<1>1. CASE type = "api_source"
  BY <1>1, ApiLadder
<1>2. CASE type = "db_source"
  BY <1>2, DbLadder
<1> QED BY <1>1, <1>2

\* A check that does not fail, below the last one.
LEMMA ClimbOn ==
  ASSUME ProbeInv, Climbing,
         NEW status \in {"passed", "skipped"}, NEW next \in CheckNames \ {"config"},
         Climb(rung, status, next),
         Len(checks) + 1 < Len(Rungs[source.type]),
         next = Rungs[source.type][Len(checks) + 2],
         MetInv'
  PROVE  ProbeInv'
<1> DEFINE n == Len(checks)
           r == Rungs[source.type]
<1>1. /\ source.type \in {"api_source", "db_source"} /\ Configured
      /\ checks \in Seq(CheckType) /\ n \in Nat
      /\ rung \in CheckNames /\ rung = r[n + 1]
      /\ \A k \in 1..n : checks[k].name = r[k] /\ checks[k].status # "failed"
  BY Height, LenProperties DEF ProbeInv, ClimbInv, Climbing
<1>2. /\ UNCHANGED <<source, world>> /\ rung' = next
      /\ checks' = Append(checks, Check(rung, status))
  BY DEF Climb
<1>3. /\ checks' \in Seq(CheckType) /\ Len(checks') = n + 1
      /\ \A k \in 1..n : checks'[k] = checks[k]
      /\ checks'[n + 1].name = rung /\ checks'[n + 1].status = status
  <2>1. status \in Statuses
    BY DEF Statuses
  <2> QED BY <1>1, <1>2, <2>1, ClimbShape
<1>4. source' \in Sources /\ world' \in WorldType /\ WorldInv' /\ Configured'
  BY <1>1, <1>2, SameWorld, SameWorldInv
<1>5. r \in Seq(CheckNames) /\ Len(r) \in Nat /\ Len(r) <= 6 /\ r' = r
  BY <1>1, <1>2, LadderLength DEF Rungs
<1> HIDE DEF n, r
<1>6. Len(checks') < Len(r') /\ rung' = r'[Len(checks') + 1] /\ Len(checks') <= 6
  BY <1>1, <1>2, <1>3, <1>5 DEF n, r
<1>7. ASSUME NEW k \in 1..Len(checks')
      PROVE  checks'[k].name = r'[k] /\ checks'[k].status # "failed"
  <2>1. k \in 1..n \/ k = n + 1
    BY <1>1, <1>3
  <2> QED BY <2>1, <1>1, <1>3, <1>5
<1>8. ClimbInv'
  BY <1>2, <1>4, <1>6, <1>7 DEF ClimbInv, r, CheckNames
<1>9. ReportAgreesWithRun'
  BY <1>2 DEF ReportAgreesWithRun, CheckNames
<1> QED BY <1>2, <1>3, <1>4, <1>6, <1>8, <1>9 DEF ProbeInv

\* The last check, when it does not fail.
LEMMA ClimbOut ==
  ASSUME ProbeInv, Climbing,
         NEW status \in {"passed", "skipped"}, Climb(rung, status, "end"),
         Len(checks) + 1 = Len(Rungs[source.type]),
         source.type = "api_source" => world.addrs # <<>>,
         ~world.outage => Welcome
  PROVE  ProbeInv'
<1> DEFINE n == Len(checks)
           r == Rungs[source.type]
<1>1. /\ source.type \in {"api_source", "db_source"} /\ Configured
      /\ checks \in Seq(CheckType) /\ n \in Nat
      /\ rung \in CheckNames /\ rung = r[n + 1]
      /\ \A k \in 1..n : checks[k].name = r[k] /\ checks[k].status # "failed"
  BY Height, LenProperties DEF ProbeInv, ClimbInv, Climbing
<1>2. /\ UNCHANGED <<source, world>> /\ rung' = "end"
      /\ checks' = Append(checks, Check(rung, status))
  BY DEF Climb
<1>3. /\ checks' \in Seq(CheckType) /\ Len(checks') = n + 1
      /\ \A k \in 1..n : checks'[k] = checks[k]
      /\ checks'[n + 1].name = rung /\ checks'[n + 1].status = status
  <2>1. status \in Statuses
    BY DEF Statuses
  <2> QED BY <1>1, <1>2, <2>1, ClimbShape
<1>4. source' \in Sources /\ world' \in WorldType /\ WorldInv' /\ Configured'
  BY <1>1, <1>2, SameWorld, SameWorldInv
<1>5. r \in Seq(CheckNames) /\ Len(r) \in Nat /\ Len(r) <= 6 /\ r' = r
  BY <1>1, <1>2, LadderLength DEF Rungs
<1> HIDE DEF n, r
<1>6. ASSUME NEW k \in 1..Len(checks')
      PROVE  checks'[k].name = r[k] /\ checks'[k].status # "failed"
  <2>1. k \in 1..n \/ k = n + 1
    BY <1>1, <1>3
  <2> QED BY <2>1, <1>1, <1>3
<1>7. [k \in 1..Len(checks') |-> checks'[k].name] = r
  <2>1. Len(checks') = Len(r)
    BY <1>3 DEF n, r
  <2>2. r = [k \in 1..Len(r) |-> r[k]]
    BY <1>5
  <2> QED BY <2>1, <2>2, <1>6
<1>8. LadderShape' /\ Passed'
  BY <1>2, <1>4, <1>5, <1>6, <1>7 DEF LadderShape, Passed, r
<1>9. ~world.outage' => Welcome'
  BY <1>2, SameWorld
<1>10. ReportAgreesWithRun'
  BY <1>8, <1>9 DEF ReportAgreesWithRun, Welcome
<1>11. ClimbInv' /\ MetInv'
  BY <1>2 DEF ClimbInv, MetInv, Climbing
<1> QED BY <1>2, <1>3, <1>4, <1>5, <1>10, <1>11 DEF ProbeInv, n, r

\* A check that fails, unless it is the lookup of an api_source.
LEMMA StopOn ==
  ASSUME ProbeInv, Climbing, NEW rest \in Seq(CheckNames), StopAt(rung, rest),
         Len(checks) + 1 + Len(rest) = Len(Rungs[source.type]),
         \A k \in 1..Len(rest) : rest[k] = Rungs[source.type][Len(checks) + 1 + k],
         source.type = "api_source" => world.addrs # <<>>,
         ~world.outage => Excused
  PROVE  ProbeInv'
<1> DEFINE n == Len(checks)
           m == Len(rest)
           r == Rungs[source.type]
<1>1. /\ source.type \in {"api_source", "db_source"} /\ Configured
      /\ checks \in Seq(CheckType) /\ n \in Nat /\ m \in Nat
      /\ rung \in CheckNames /\ rung = r[n + 1]
      /\ \A k \in 1..n : checks[k].name = r[k] /\ checks[k].status # "failed"
  BY Height, LenProperties DEF ProbeInv, ClimbInv, Climbing
<1>2. /\ UNCHANGED <<source, world>> /\ rung' = "end"
      /\ checks' = Append(checks, Check(rung, "failed")) \o SkipRest(rest)
  BY DEF StopAt
<1>3. /\ checks' \in Seq(CheckType) /\ Len(checks') = n + 1 + m
      /\ \A k \in 1..n : checks'[k] = checks[k]
      /\ checks'[n + 1].name = rung /\ checks'[n + 1].status = "failed"
      /\ \A k \in 1..m : checks'[n + 1 + k].name = rest[k]
      /\ \A j, k \in 1..Len(checks') :
            checks'[j].status = "failed" /\ j < k => checks'[k].status = "skipped"
  <2>1. Stopped(rung, rest)
    BY <1>1, <1>2, StopShape
  <2> QED BY <2>1 DEF Stopped
<1>4. source' \in Sources /\ world' \in WorldType /\ WorldInv' /\ Configured'
  BY <1>1, <1>2, SameWorld, SameWorldInv
<1>5. r \in Seq(CheckNames) /\ Len(r) \in Nat /\ Len(r) <= 6 /\ r' = r /\ n + 1 + m = Len(r)
  BY <1>1, <1>2, LadderLength DEF Rungs
<1>6. \A k \in 1..m : rest[k] = r[n + 1 + k]
  OBVIOUS
<1> HIDE DEF n, m, r
<1>7. ASSUME NEW k \in 1..Len(checks')
      PROVE  checks'[k].name = r[k]
  <2>1. CASE k \in 1..n
    BY <2>1, <1>1, <1>3
  <2>2. CASE k = n + 1
    BY <2>2, <1>1, <1>3
  <2>3. CASE k \in (n + 2)..(n + 1 + m)
    <3>1. PICK i \in 1..m : k = n + 1 + i
      <4>1. k - (n + 1) \in 1..m /\ k = n + 1 + (k - (n + 1))
        BY <2>3, <1>1
      <4> QED BY <4>1
    <3> QED BY <3>1, <1>3, <1>6
  <2> QED BY <2>1, <2>2, <2>3, <1>1, <1>3
<1>8. [k \in 1..Len(checks') |-> checks'[k].name] = r
  <2>1. r = [k \in 1..Len(r) |-> r[k]]
    BY <1>5
  <2> QED BY <2>1, <1>3, <1>5, <1>7
<1>9. LadderShape' /\ ~Passed'
  <2>1. n + 1 \in 1..Len(checks')
    BY <1>1, <1>3
  <2>2. ~Passed'
    BY <2>1, <1>3 DEF Passed
  <2>3. LadderShape'
    BY <1>2, <1>3, <1>4, <1>5, <1>8 DEF LadderShape, r
  <2> QED BY <2>2, <2>3
<1>10. ~world.outage' => Excused'
  BY <1>2, SameWorld
<1>11. ReportAgreesWithRun'
  BY <1>9, <1>10 DEF ReportAgreesWithRun, Excused
<1>12. ClimbInv' /\ MetInv'
  BY <1>2 DEF ClimbInv, MetInv, Climbing
<1>13. Len(checks') <= 6
  BY <1>3, <1>5
<1> QED BY <1>2, <1>3, <1>4, <1>11, <1>12, <1>13 DEF ProbeInv

\* The lookup of an api_source, when it fails: the policy has no entry.
LEMMA StopLost ==
  ASSUME ProbeInv, rung = "dns", source.type = "api_source", world.addrs = <<>>,
         StopAt("dns", <<"tcp", "tls", "http", "auth">>)
  PROVE  ProbeInv'
<1> DEFINE rest == <<"tcp", "tls", "http", "auth">>
           lost == <<"dns", "tcp", "tls", "http", "auth">>
<1>1. checks \in Seq(CheckType) /\ Len(checks) = 0 /\ Configured
  BY Height DEF ProbeInv, ClimbInv, Climbing
<1>2. rest \in Seq(CheckNames) /\ Len(rest) = 4 /\ "dns" \in CheckNames
  BY DEF CheckNames
<1>3. /\ UNCHANGED <<source, world>> /\ rung' = "end"
      /\ checks' = Append(checks, Check("dns", "failed")) \o SkipRest(rest)
  BY DEF StopAt
<1>4. /\ rest[1] = "tcp" /\ rest[2] = "tls" /\ rest[3] = "http" /\ rest[4] = "auth"
  OBVIOUS
<1> HIDE DEF rest
<1>5. /\ checks' \in Seq(CheckType) /\ Len(checks') = Len(checks) + 1 + Len(rest)
      /\ checks'[Len(checks) + 1].name = "dns" /\ checks'[Len(checks) + 1].status = "failed"
      /\ \A k \in 1..Len(rest) : checks'[Len(checks) + 1 + k].name = rest[k]
      /\ \A j, k \in 1..Len(checks') :
            checks'[j].status = "failed" /\ j < k => checks'[k].status = "skipped"
  <2>1. \A k \in 1..Len(checks) : checks[k].status # "failed"
    BY <1>1
  <2>2. Stopped("dns", rest)
    BY <2>1, <1>1, <1>2, <1>3, StopShape
  <2> QED BY <2>2 DEF Stopped
<1>6. /\ Len(checks') = 5 /\ checks'[1].name = "dns" /\ checks'[1].status = "failed"
      /\ checks'[2].name = "tcp" /\ checks'[3].name = "tls"
      /\ checks'[4].name = "http" /\ checks'[5].name = "auth"
  BY <1>1, <1>2, <1>4, <1>5
<1>7. [k \in 1..Len(checks') |-> checks'[k].name] = lost
  BY <1>6
<1>8. source' \in Sources /\ world' \in WorldType /\ WorldInv' /\ Configured'
  BY <1>1, <1>3, SameWorld, SameWorldInv
<1>9. LadderShape' /\ ~Passed'
  <2>1. ~Passed'
    BY <1>6 DEF Passed
  <2>2. source'.type = "api_source" /\ world'.addrs = <<>>
    BY <1>3
  <2> QED BY ONLY <2>1, <2>2, <1>5, <1>7, <1>8 DEF LadderShape
<1>10. Excused
  <2>1. ~Connects
    BY DEF Connects
  <2> QED BY <2>1 DEF Excused, RunMeets, ApiRun, EnsureAllowed, Request
<1>11. ReportAgreesWithRun'
  <2>1. Excused'
    BY <1>3, <1>10, SameWorld
  <2> QED BY <2>1, <1>9 DEF ReportAgreesWithRun, Excused
<1>12. ClimbInv' /\ MetInv'
  BY <1>3 DEF ClimbInv, MetInv, Climbing
<1> QED BY <1>3, <1>5, <1>6, <1>8, <1>11, <1>12 DEF ProbeInv

\* A configuration that is refused is the whole report.
LEMMA ConfigFails ==
  ASSUME ProbeInv, rung = "config", ~Configured, StopAt("config", <<>>)
  PROVE  ProbeInv'
<1> DEFINE c == Check("config", "failed")
<1>1. checks = <<>>
  BY DEF ProbeInv, ClimbInv
<1>2. c \in CheckType
  BY DEF Check, CheckType, CheckNames, Statuses
<1>3. UNCHANGED <<source, world>> /\ rung' = "end" /\ checks' = Append(checks, c) \o SkipRest(<<>>)
  BY DEF StopAt
<1>4. SkipRest(<<>>) = <<>>
  BY DEF SkipRest
<1> HIDE DEF c
<1>5. checks' = <<c>> /\ checks' \in Seq(CheckType) /\ Len(checks') = 1
  <2>1. Append(<<>>, c) = <<c>>
    OBVIOUS
  <2>2. <<c>> \in Seq(CheckType) /\ Len(<<c>>) = 1
    BY <1>2
  <2>3. <<c>> \o <<>> = <<c>>
    BY <2>2, ConcatEmptySeq
  <2> QED BY <2>1, <2>2, <2>3, <1>1, <1>3, <1>4
<1>6. source' \in Sources /\ world' \in WorldType /\ WorldInv' /\ ~Configured'
  BY <1>3, SameWorld, SameWorldInv
<1>7. ReportAgreesWithRun'
  BY <1>5, <1>6 DEF ReportAgreesWithRun, LadderShape, c
<1>8. ClimbInv' /\ MetInv'
  BY <1>3 DEF ClimbInv, MetInv, Climbing
<1> QED BY <1>3, <1>5, <1>6, <1>7, <1>8 DEF ProbeInv

\* A configuration that is accepted is not listed.
LEMMA ConfigHolds ==
  ASSUME ProbeInv, rung = "config", Configured, source.network,
         rung' = "dns", UNCHANGED <<source, world, checks>>
  PROVE  ProbeInv'
<1>1. checks = <<>> /\ checks' = <<>> /\ source.type \in {"api_source", "db_source"}
  BY DEF ProbeInv, ClimbInv, Configured, Sources
<1>2. source' \in Sources /\ world' \in WorldType /\ WorldInv' /\ Configured'
  BY SameWorld, SameWorldInv
<1>3. Len(Rungs[source'.type]) > 0 /\ Rungs[source'.type][1] = "dns"
  <2>1. source'.type = "api_source" \/ source'.type = "db_source"
    BY <1>1
  <2> QED BY ONLY <2>1, FirstRungs
<1>4. ClimbInv'
  BY <1>1, <1>2, <1>3 DEF ClimbInv
<1>5. MetInv' /\ ReportAgreesWithRun'
  BY DEF MetInv, ReportAgreesWithRun
<1> QED BY <1>1, <1>2, <1>4, <1>5 DEF ProbeInv, CheckNames

\* A database that is a file has nothing to look up.
LEMMA ConfigSkips ==
  ASSUME ProbeInv, rung = "config", Configured, source.type = "db_source", ~source.network,
         checks' = SkipRest(<<"dns", "ssrf_policy", "tcp">>), rung' = "connect",
         UNCHANGED <<source, world>>
  PROVE  ProbeInv'
<1> DEFINE names == <<"dns", "ssrf_policy", "tcp">>
<1>1. names[1] = "dns" /\ names[2] = "ssrf_policy" /\ names[3] = "tcp" /\ Len(names) = 3
  OBVIOUS
<1> HIDE DEF names
<1>2. checks' = [k \in 1..3 |-> Check(names[k], "skipped")]
  BY <1>1 DEF SkipRest, names
<1>3. \A k \in 1..3 : /\ Check(names[k], "skipped") \in CheckType
                      /\ Check(names[k], "skipped").name = names[k]
                      /\ Check(names[k], "skipped").status = "skipped"
  <2>1. \A k \in 1..3 : names[k] \in CheckNames
    BY <1>1 DEF CheckNames
  <2> QED BY <2>1 DEF Check, CheckType, Statuses
<1>4. checks' \in Seq(CheckType) /\ Len(checks') = 3
  <2>1. checks' \in [1..3 -> CheckType]
    BY <1>2, <1>3
  <2> QED BY <2>1
<1>5. \A k \in 1..3 : checks'[k].name = names[k] /\ checks'[k].status = "skipped"
  BY <1>2, <1>3
<1>6. source' \in Sources /\ world' \in WorldType /\ WorldInv' /\ Configured'
  BY SameWorld, SameWorldInv
<1>7. ClimbInv'
  <2>1. \A k \in 1..3 : names[k] = Rungs["db_source"][k]
    BY <1>1, DbLadder
  <2>2. /\ Len(checks') < Len(Rungs[source'.type])
        /\ rung' = Rungs[source'.type][Len(checks') + 1]
    <3> DEFINE n == Len(checks')
    <3>1. n = 3 /\ source'.type = "db_source" /\ rung' = "connect"
      BY <1>4
    <3> HIDE DEF n
    <3>2. n < Len(Rungs["db_source"]) /\ rung' = Rungs["db_source"][n + 1]
      BY ONLY <3>1, DbLadder
    <3> QED BY ONLY <3>1, <3>2 DEF n
  <2>3. \A k \in 1..Len(checks') :
           checks'[k].name = Rungs[source'.type][k] /\ checks'[k].status # "failed"
    BY <2>1, <1>4, <1>5
  <2> QED BY <2>2, <2>3, <1>6 DEF ClimbInv
<1>8. MetInv' /\ ReportAgreesWithRun'
  BY DEF MetInv, ReportAgreesWithRun
<1>9. rung' \in CheckNames \cup {"end"}
  BY DEF CheckNames
<1>10. Len(checks') <= 6
  <2> DEFINE n == Len(checks')
  <2>1. n = 3
    BY <1>4
  <2> HIDE DEF n
  <2> QED BY ONLY <2>1 DEF n
<1> QED BY <1>4, <1>6, <1>7, <1>8, <1>9, <1>10 DEF ProbeInv

LEMMA DnsStep ==
  ASSUME ProbeInv, ApiDns \/ DbDns
  PROVE  ProbeInv'
<1>1. /\ rung = "dns" /\ Climbing /\ Len(checks) = 0 /\ source.network
      /\ source.type = "api_source" \/ source.type = "db_source"
  <2>1. rung = "dns" /\ Climbing
    BY DEF ApiDns, DbDns, Testing, Climbing
  <2> QED BY <2>1, Height DEF ProbeInv, MetInv, Sources
<1>2. CASE Climb("dns", "passed", "ssrf_policy") /\ world.addrs # <<>>
  <2>1. MetInv'
    BY <1>1, <1>2 DEF Climb, MetInv
  <2>2. /\ Len(checks) + 1 < Len(Rungs[source.type])
        /\ "ssrf_policy" = Rungs[source.type][Len(checks) + 2]
    BY ONLY <1>1, FirstRungs
  <2>3. "ssrf_policy" \in CheckNames \ {"config"}
    BY DEF CheckNames
  <2> QED BY <1>1, <1>2, <2>1, <2>2, <2>3, ClimbOn
<1>3. CASE /\ source.type = "api_source" /\ world.addrs = <<>>
           /\ StopAt("dns", <<"tcp", "tls", "http", "auth">>)
  BY <1>1, <1>3, StopLost
<1>4. CASE /\ source.type = "db_source" /\ world.addrs = <<>>
           /\ StopAt("dns", <<"ssrf_policy", "tcp", "connect", "query">>)
  <2> DEFINE rest == <<"ssrf_policy", "tcp", "connect", "query">>
  <2>1. /\ rest \in Seq(CheckNames) /\ Len(rest) = 4
        /\ rest[1] = "ssrf_policy" /\ rest[2] = "tcp" /\ rest[3] = "connect" /\ rest[4] = "query"
    BY DEF CheckNames
  <2>2. StopAt(rung, rest)
    BY <1>1, <1>4
  <2>3. Excused
    <3>1. ~Connects
      BY <1>4 DEF Connects
    <3> QED BY <3>1, <1>1, <1>4 DEF Excused, RunMeets, DbRun, EnsureAllowed, Logs
  <2> HIDE DEF rest
  <2>4. /\ Len(checks) + 1 + Len(rest) = Len(Rungs[source.type])
        /\ \A k \in 1..Len(rest) : rest[k] = Rungs[source.type][Len(checks) + 1 + k]
    BY ONLY <1>1, <1>4, <2>1, DbLadder
  <2> QED BY ONLY ProbeInv, <1>1, <1>4, <2>1, <2>2, <2>3, <2>4, StopOn
<1> QED BY <1>2, <1>3, <1>4 DEF ApiDns, DbDns, Test, Testing

LEMMA PolicyStep ==
  ASSUME ProbeInv, ApiPolicy \/ DbPolicy
  PROVE  ProbeInv'
<1>1. /\ rung = "ssrf_policy" /\ Climbing /\ Len(checks) = 1
      /\ source.network /\ world.addrs # <<>>
      /\ source.type = "api_source" \/ source.type = "db_source"
  <2>1. rung = "ssrf_policy" /\ Climbing
    BY DEF ApiPolicy, DbPolicy, Testing, Climbing
  <2> QED BY <2>1, Height DEF ProbeInv, MetInv, Sources
<1>2. CASE \/ Climb("ssrf_policy", "skipped", "tcp") /\ world.guard = "off"
           \/ Climb("ssrf_policy", "passed", "tcp") /\ ~FindBlocked
  <2>1. UNCHANGED <<source, world>> /\ rung' = "tcp"
    BY <1>2 DEF Climb
  <2>2. EnsureAllowed = "allowed"
    BY <1>1, <1>2 DEF EnsureAllowed
  <2>3. MetInv'
    BY <1>1, <2>1, <2>2, SameWorld DEF MetInv
  <2>4. /\ Len(checks) + 1 < Len(Rungs[source.type])
        /\ "tcp" = Rungs[source.type][Len(checks) + 2]
    BY ONLY <1>1, FirstRungs
  <2>5. "tcp" \in CheckNames \ {"config"}
    BY DEF CheckNames
  <2> QED BY <1>1, <1>2, <2>3, <2>4, <2>5, ClimbOn
<1>3. ASSUME FindBlocked
      PROVE  Excused
  <2>1. world.guard = "on" /\ EnsureAllowed = "blocked"
    BY <1>1, <1>3 DEF EnsureAllowed, FindBlocked
  <2> QED BY <2>1, <1>1 DEF Excused, RunMeets, ApiRun, DbRun
<1>4. CASE /\ source.type = "api_source" /\ FindBlocked
           /\ StopAt("ssrf_policy", <<"tcp", "tls", "http", "auth">>)
  <2> DEFINE rest == <<"tcp", "tls", "http", "auth">>
  <2>1. /\ rest \in Seq(CheckNames) /\ Len(rest) = 4
        /\ rest[1] = "tcp" /\ rest[2] = "tls" /\ rest[3] = "http" /\ rest[4] = "auth"
    BY DEF CheckNames
  <2>2. StopAt(rung, rest)
    BY <1>1, <1>4
  <2> HIDE DEF rest
  <2>3. /\ Len(checks) + 1 + Len(rest) = Len(Rungs[source.type])
        /\ \A k \in 1..Len(rest) : rest[k] = Rungs[source.type][Len(checks) + 1 + k]
    BY ONLY <1>1, <1>4, <2>1, ApiLadder
  <2> QED BY ONLY ProbeInv, <1>1, <1>3, <1>4, <2>1, <2>2, <2>3, StopOn
<1>5. CASE /\ source.type = "db_source" /\ FindBlocked
           /\ StopAt("ssrf_policy", <<"tcp", "connect", "query">>)
  <2> DEFINE rest == <<"tcp", "connect", "query">>
  <2>1. /\ rest \in Seq(CheckNames) /\ Len(rest) = 3
        /\ rest[1] = "tcp" /\ rest[2] = "connect" /\ rest[3] = "query"
    BY DEF CheckNames
  <2>2. StopAt(rung, rest)
    BY <1>1, <1>5
  <2> HIDE DEF rest
  <2>3. /\ Len(checks) + 1 + Len(rest) = Len(Rungs[source.type])
        /\ \A k \in 1..Len(rest) : rest[k] = Rungs[source.type][Len(checks) + 1 + k]
    BY ONLY <1>1, <1>5, <2>1, DbLadder
  <2> QED BY ONLY ProbeInv, <1>1, <1>3, <1>5, <2>1, <2>2, <2>3, StopOn
<1> QED BY <1>2, <1>4, <1>5 DEF ApiPolicy, DbPolicy, PolicyRung, Test, Testing

LEMMA TcpStep ==
  ASSUME ProbeInv, ApiTcp \/ DbTcp
  PROVE  ProbeInv'
<1>1. /\ rung = "tcp" /\ Climbing /\ Len(checks) = 2
      /\ source.network /\ world.addrs # <<>> /\ EnsureAllowed = "allowed"
      /\ source.type = "api_source" \/ source.type = "db_source"
  <2>1. rung = "tcp" /\ Climbing
    BY DEF ApiTcp, DbTcp, Testing, Climbing
  <2> QED BY <2>1, Height DEF ProbeInv, MetInv, Sources
<1>2. CASE \/ source.type = "api_source" /\ Climb("tcp", "passed", "tls") /\ Up(1)
           \/ source.type = "db_source" /\ Climb("tcp", "passed", "connect") /\ Up(1)
  <2>1. /\ UNCHANGED <<source, world>>
        /\ rung' = IF source.type = "api_source" THEN "tls" ELSE "connect"
    BY <1>2 DEF Climb
  <2>2. MetInv'
    BY <1>1, <1>2, <2>1, SameWorld DEF MetInv
  <2>3. /\ Len(checks) + 1 < Len(Rungs[source.type])
        /\ rung' = Rungs[source.type][Len(checks) + 2]
    BY ONLY <1>1, <2>1, ApiLadder, DbLadder
  <2>4. "tls" \in CheckNames \ {"config"} /\ "connect" \in CheckNames \ {"config"}
    BY DEF CheckNames
  <2>5. Climb("tcp", "passed", rung') /\ rung' \in CheckNames \ {"config"}
    BY <1>2, <2>1, <2>4
  <2> QED BY <1>1, <2>2, <2>3, <2>5, ClimbOn
<1>3. ASSUME ~Up(1), ~world.outage
      PROVE  Excused
  <2>1. CASE Connects
    BY <2>1, <1>3 DEF Excused
  <2>2. CASE ~Connects
    BY <2>2, <1>1 DEF Excused, RunMeets, ApiRun, DbRun, Request, Logs
  <2> QED BY <2>1, <2>2
<1>4. CASE source.type = "api_source" /\ ~Up(1) /\ StopAt("tcp", <<"tls", "http", "auth">>)
  <2> DEFINE rest == <<"tls", "http", "auth">>
  <2>1. /\ rest \in Seq(CheckNames) /\ Len(rest) = 3
        /\ rest[1] = "tls" /\ rest[2] = "http" /\ rest[3] = "auth"
    BY DEF CheckNames
  <2>2. StopAt(rung, rest)
    BY <1>1, <1>4
  <2> HIDE DEF rest
  <2>3. /\ Len(checks) + 1 + Len(rest) = Len(Rungs[source.type])
        /\ \A k \in 1..Len(rest) : rest[k] = Rungs[source.type][Len(checks) + 1 + k]
    BY ONLY <1>1, <1>4, <2>1, ApiLadder
  <2> QED BY ONLY ProbeInv, <1>1, <1>3, <1>4, <2>1, <2>2, <2>3, StopOn
<1>5. CASE source.type = "db_source" /\ ~Up(1) /\ StopAt("tcp", <<"connect", "query">>)
  <2> DEFINE rest == <<"connect", "query">>
  <2>1. /\ rest \in Seq(CheckNames) /\ Len(rest) = 2
        /\ rest[1] = "connect" /\ rest[2] = "query"
    BY DEF CheckNames
  <2>2. StopAt(rung, rest)
    BY <1>1, <1>5
  <2> HIDE DEF rest
  <2>3. /\ Len(checks) + 1 + Len(rest) = Len(Rungs[source.type])
        /\ \A k \in 1..Len(rest) : rest[k] = Rungs[source.type][Len(checks) + 1 + k]
    BY ONLY <1>1, <1>5, <2>1, DbLadder
  <2> QED BY ONLY ProbeInv, <1>1, <1>3, <1>5, <2>1, <2>2, <2>3, StopOn
<1> QED BY <1>2, <1>4, <1>5 DEF ApiTcp, DbTcp, Test, Testing

\* From the fourth rung on, an api_source has passed the policy and connects.
LEMMA ApiUp ==
  ASSUME ProbeInv, Climbing, rung \in {"tls", "http", "auth"}
  PROVE  /\ source.network /\ world.addrs # <<>> /\ EnsureAllowed = "allowed"
         /\ ~world.outage => Up(1) /\ Connects
<1>1. /\ source.network /\ world.addrs # <<>> /\ EnsureAllowed = "allowed"
      /\ ~world.outage => Up(1)
  BY DEF ProbeInv, MetInv, Sources
<1>2. 1 \in DOMAIN world.addrs
  <2>1. world.addrs \in Seq(Addresses)
    BY DEF ProbeInv, WorldType
  <2> QED BY <1>1, <2>1, EmptySeq, LenProperties
<1> QED BY <1>1, <1>2 DEF Connects

LEMMA TlsStep ==
  ASSUME ProbeInv, TlsRung
  PROVE  ProbeInv'
<1>1. rung = "tls" /\ Climbing /\ source.type = "api_source" /\ Len(checks) = 3
  <2>1. rung = "tls" /\ Climbing /\ source.type = "api_source"
    BY DEF TlsRung, Testing, Climbing
  <2> QED BY <2>1, Height
<1>2. CASE \/ Climb("tls", "skipped", "http") /\ world.tls = "plain"
           \/ Climb("tls", "passed", "http") /\ world.tls = "good"
  <2>1. UNCHANGED <<source, world>> /\ rung' = "http"
    BY <1>2 DEF Climb
  <2>2. MetInv'
    BY <1>1, <1>2, <2>1, ApiUp, SameWorld DEF MetInv
  <2>3. /\ Len(checks) + 1 < Len(Rungs[source.type])
        /\ "http" = Rungs[source.type][Len(checks) + 2]
    BY <1>1, ApiLadder
  <2>4. "http" \in CheckNames \ {"config"}
    BY DEF CheckNames
  <2> QED BY <1>1, <1>2, <2>2, <2>3, <2>4, ClimbOn
<1>3. CASE /\ world.tls # "plain" /\ ~(Connects /\ world.tls = "good")
           /\ StopAt("tls", <<"http", "auth">>)
  <2> DEFINE rest == <<"http", "auth">>
  <2>1. /\ rest \in Seq(CheckNames) /\ Len(rest) = 2
        /\ rest[1] = "http" /\ rest[2] = "auth"
    BY DEF CheckNames
  <2>2. StopAt(rung, rest)
    BY <1>1, <1>3
  <2>3. ~world.outage => Excused
    <3>1. ~world.outage => world.tls = "bad"
      BY <1>1, <1>3, ApiUp DEF ProbeInv, WorldType
    <3> QED BY <3>1, <1>1, ApiUp DEF Excused, RunMeets, ApiRun, Request
  <2> HIDE DEF rest
  <2>4. /\ Len(checks) + 1 + Len(rest) = Len(Rungs[source.type])
        /\ \A k \in 1..Len(rest) : rest[k] = Rungs[source.type][Len(checks) + 1 + k]
    BY ONLY <1>1, <2>1, ApiLadder
  <2> QED BY ONLY ProbeInv, <1>1, <2>1, <2>2, <2>3, <2>4, ApiUp, StopOn
<1> QED BY <1>2, <1>3 DEF TlsRung, Test

LEMMA HttpStep ==
  ASSUME ProbeInv, HttpRung
  PROVE  ProbeInv'
<1>1. rung = "http" /\ Climbing /\ source.type = "api_source" /\ Len(checks) = 4
  <2>1. rung = "http" /\ Climbing /\ source.type = "api_source"
    BY DEF HttpRung, Testing, Climbing
  <2> QED BY <2>1, Height
<1>2. CASE Climb("http", "passed", "auth") /\ Request(world.bare) # "broken"
  <2>1. UNCHANGED <<source, world>> /\ rung' = "auth"
    BY <1>2 DEF Climb
  <2>2. world.tls # "bad"
    BY <1>1 DEF ProbeInv, MetInv
  <2>3. MetInv'
    BY <1>1, <1>2, <2>1, <2>2, ApiUp, SameWorld DEF MetInv
  <2>4. /\ Len(checks) + 1 < Len(Rungs[source.type])
        /\ "auth" = Rungs[source.type][Len(checks) + 2]
    BY <1>1, ApiLadder
  <2>5. "auth" \in CheckNames \ {"config"}
    BY DEF CheckNames
  <2> QED BY <1>1, <1>2, <2>3, <2>4, <2>5, ClimbOn
<1>3. CASE Request(world.bare) = "broken" /\ StopAt("http", <<"auth">>)
  <2> DEFINE rest == <<"auth">>
  <2>1. rest \in Seq(CheckNames) /\ Len(rest) = 1 /\ rest[1] = "auth"
    BY DEF CheckNames
  <2>2. StopAt(rung, rest)
    BY <1>1, <1>3
  <2>3. Excused
    <3>1. CASE world.bare = "broken"
      BY <3>1, <1>1 DEF Excused
    <3>2. CASE world.bare # "broken"
      <4>1. Request(world.authed) = "broken"
        BY <3>2, <1>3 DEF Request
      <4> QED BY <4>1, <1>1, <1>3, ApiUp DEF Excused, RunMeets, ApiRun
    <3> QED BY <3>1, <3>2
  <2> HIDE DEF rest
  <2>4. /\ Len(checks) + 1 + Len(rest) = Len(Rungs[source.type])
        /\ \A k \in 1..Len(rest) : rest[k] = Rungs[source.type][Len(checks) + 1 + k]
    BY ONLY <1>1, <2>1, ApiLadder
  <2> QED BY ONLY ProbeInv, <1>1, <2>1, <2>2, <2>3, <2>4, ApiUp, StopOn
<1> QED BY <1>2, <1>3 DEF HttpRung, Test

LEMMA EmptyRest ==
  <<>> \in Seq(CheckNames) /\ Len(<<>>) = 0
OBVIOUS

LEMMA AuthStep ==
  ASSUME ProbeInv, AuthRung
  PROVE  ProbeInv'
<1>1. rung = "auth" /\ Climbing /\ source.type = "api_source" /\ Len(checks) = 5
  <2>1. rung = "auth" /\ Climbing /\ source.type = "api_source"
    BY DEF AuthRung, Testing, Climbing
  <2> QED BY <2>1, Height
<1>2. Len(checks) + 1 = Len(Rungs[source.type])
  BY <1>1, ApiLadder
<1>3. /\ \A a : Request(a) = "broken" \/ Request(a) = a
      /\ world.bare \in Answers /\ world.authed \in Answers
      /\ ~world.outage => Request(world.bare) # "broken"
  <2>1. \A a : Request(a) = "broken" \/ Request(a) = a
    BY DEF Request
  <2> QED BY <2>1, <1>1 DEF ProbeInv, MetInv, WorldType
<1>4. CASE Climb("auth", "skipped", "end") /\ source.secret = "none"
  <2>1. ~world.outage => Welcome
    BY <1>1, <1>3, <1>4, ApiUp DEF Welcome, RunMeets, ApiRun, Answers
  <2> QED BY <1>1, <1>2, <1>4, <2>1, ApiUp, ClimbOut
<1>5. CASE /\ source.secret = "given" /\ Request(world.authed) \notin {"broken", "denied"}
           /\ Climb("auth", "passed", "end")
  <2>1. Welcome
    BY <1>1, <1>3, <1>5, ApiUp DEF Welcome, RunMeets, ApiRun, Answers
  <2> QED BY <1>1, <1>2, <1>5, <2>1, ApiUp, ClimbOut
<1>6. CASE /\ source.secret # "none"
           /\ ~(source.secret = "given" /\ Request(world.authed) \notin {"broken", "denied"})
           /\ StopAt("auth", <<>>)
  <2>1. Excused
    BY <1>1, <1>6, ApiUp DEF ProbeInv, Sources, Excused, RunMeets, ApiRun
  <2> DEFINE rest == <<>>
  <2>2. rest \in Seq(CheckNames) /\ Len(rest) = 0 /\ StopAt(rung, rest)
    BY <1>1, <1>6, EmptyRest
  <2> HIDE DEF rest
  <2>3. /\ Len(checks) + 1 + Len(rest) = Len(Rungs[source.type])
        /\ \A k \in 1..Len(rest) : rest[k] = Rungs[source.type][Len(checks) + 1 + k]
    BY ONLY <1>1, <1>2, <2>2
  <2> QED BY ONLY ProbeInv, <1>1, <2>1, <2>2, <2>3, ApiUp, StopOn
<1> QED BY <1>4, <1>5, <1>6 DEF AuthRung, Test

LEMMA ConnectStep ==
  ASSUME ProbeInv, ConnectRung
  PROVE  ProbeInv'
<1>1. rung = "connect" /\ Climbing /\ source.type = "db_source" /\ Len(checks) = 3
  <2>1. rung = "connect" /\ Climbing /\ source.type = "db_source"
    BY DEF ConnectRung, Testing, Climbing
  <2> QED BY <2>1, Height
<1>2. source.network => EnsureAllowed = "allowed" /\ world.addrs # <<>>
  BY <1>1 DEF ProbeInv, MetInv
<1>3. CASE Climb("connect", "passed", "query") /\ Logs
  <2>1. UNCHANGED <<source, world>> /\ rung' = "query"
    BY <1>3 DEF Climb
  <2>2. MetInv'
    BY <1>1, <1>2, <1>3, <2>1, SameWorld DEF MetInv
  <2>3. /\ Len(checks) + 1 < Len(Rungs[source.type])
        /\ "query" = Rungs[source.type][Len(checks) + 2]
    BY <1>1, DbLadder
  <2>4. "query" \in CheckNames \ {"config"}
    BY DEF CheckNames
  <2> QED BY <1>1, <1>3, <2>2, <2>3, <2>4, ClimbOn
<1>4. CASE ~Logs /\ StopAt("connect", <<"query">>)
  <2> DEFINE rest == <<"query">>
  <2>1. rest \in Seq(CheckNames) /\ Len(rest) = 1 /\ rest[1] = "query"
    BY DEF CheckNames
  <2>2. StopAt(rung, rest)
    BY <1>1, <1>4
  <2>3. Excused
    BY <1>1, <1>2, <1>4 DEF Excused, RunMeets, DbRun
  <2> HIDE DEF rest
  <2>4. /\ Len(checks) + 1 + Len(rest) = Len(Rungs[source.type])
        /\ \A k \in 1..Len(rest) : rest[k] = Rungs[source.type][Len(checks) + 1 + k]
    BY ONLY <1>1, <2>1, DbLadder
  <2> QED BY ONLY ProbeInv, <1>1, <2>1, <2>2, <2>3, <2>4, StopOn
<1> QED BY <1>3, <1>4 DEF ConnectRung, Test

LEMMA QueryStep ==
  ASSUME ProbeInv, QueryRung
  PROVE  ProbeInv'
<1>1. rung = "query" /\ Climbing /\ source.type = "db_source" /\ Len(checks) = 4
  <2>1. rung = "query" /\ Climbing /\ source.type = "db_source"
    BY DEF QueryRung, Testing, Climbing
  <2> QED BY <2>1, Height
<1>2. Len(checks) + 1 = Len(Rungs[source.type])
  BY <1>1, DbLadder
<1>3. CASE Climb("query", "passed", "end") /\ ~world.outage
  <2>1. /\ Logs /\ source.secret # "missing"
        /\ source.network => EnsureAllowed = "allowed"
    BY <1>1, <1>3 DEF ProbeInv, MetInv, ClimbInv, Configured
  <2>2. Welcome
    BY <1>1, <2>1 DEF Welcome, RunMeets, DbRun
  <2> QED BY <1>1, <1>2, <1>3, <2>2, ClimbOut
<1>4. CASE StopAt("query", <<>>) /\ world.outage
  <2> DEFINE rest == <<>>
  <2>1. rest \in Seq(CheckNames) /\ Len(rest) = 0 /\ StopAt(rung, rest)
    BY <1>1, <1>4, EmptyRest
  <2> HIDE DEF rest
  <2>2. /\ Len(checks) + 1 + Len(rest) = Len(Rungs[source.type])
        /\ \A k \in 1..Len(rest) : rest[k] = Rungs[source.type][Len(checks) + 1 + k]
    BY ONLY <1>1, <1>2, <2>1
  <2> QED BY ONLY ProbeInv, <1>1, <1>4, <2>1, <2>2, StopOn
<1> QED BY <1>3, <1>4 DEF QueryRung, Test

LEMMA OutageStep ==
  ASSUME ProbeInv, Outage
  PROVE  ProbeInv'
<1>1. /\ Climbing /\ Climbing' /\ UNCHANGED <<source, checks, rung>>
      /\ world' = [world EXCEPT !.outage = TRUE] /\ world \in WorldType
  BY DEF Outage, Climbing, ProbeInv
<1>2. /\ world' \in WorldType /\ world'.outage
      /\ world'.addrs = world.addrs /\ world'.guard = world.guard /\ world'.tls = world.tls
      /\ world'.bare = world.bare /\ world'.authed = world.authed
  BY <1>1 DEF WorldType
<1>3. EnsureAllowed' = EnsureAllowed
  BY <1>2 DEF EnsureAllowed, FindBlocked, Blocked
<1>4. MetInv'
  BY <1>1, <1>2, <1>3 DEF ProbeInv, MetInv
<1>5. ClimbInv' /\ WorldInv'
  BY <1>1, <1>2 DEF ProbeInv, ClimbInv, WorldInv, Configured, Climbing, Rungs
<1>6. ReportAgreesWithRun'
  BY <1>1 DEF ReportAgreesWithRun, Climbing
<1> QED BY <1>1, <1>2, <1>4, <1>5, <1>6 DEF ProbeInv

LEMMA CalmWorld == Calm \in WorldType
<1>1. <<[up |-> TRUE, range |-> "public"]>> \in Seq(Addresses)
  BY DEF Addresses
<1> QED BY <1>1 DEF Calm, WorldType, Guards, Answers

LEMMA ProbeStart == ProbeInit => ProbeInv
<1> SUFFICES ASSUME ProbeInit
             PROVE  ProbeInv
  OBVIOUS
<1>1. checks = <<>> /\ rung = "config" /\ source \in Sources /\ WorldInv
  BY DEF ProbeInit, WorldInv
<1>2. world \in WorldType
  <2>1. CASE world = Calm
    BY <2>1, CalmWorld
  <2>2. Resolutions \subseteq Seq(Addresses)
    BY ResolutionsAssumption
  <2>3. DbWorlds \subseteq WorldType
    BY <2>2 DEF DbWorlds, WorldType, Answers
  <2>4. ApiWorlds \subseteq WorldType
    BY <2>2 DEF ApiWorlds, WorldType
  <2> QED BY <2>1, <2>3, <2>4 DEF ProbeInit
<1>3. ClimbInv /\ MetInv /\ ReportAgreesWithRun
  BY <1>1 DEF ClimbInv, MetInv, Climbing, ReportAgreesWithRun
<1>4. checks \in Seq(CheckType) /\ Len(checks) <= 6
  BY <1>1
<1> QED BY <1>1, <1>2, <1>3, <1>4 DEF ProbeInv, CheckNames

LEMMA ProbeNext == ProbeInv /\ [ProbeStep]_probeVars => ProbeInv'
<1> SUFFICES ASSUME ProbeInv, [ProbeStep]_probeVars
             PROVE  ProbeInv'
  OBVIOUS
<1>1. CASE UnsupportedType
  <2>1. ~Configured
    BY <1>1 DEF UnsupportedType, Configured
  <2> QED BY <1>1, <2>1, ConfigFails DEF UnsupportedType
<1>2. CASE ApiConfig
  <2>1. source.network
    BY <1>2 DEF ApiConfig, Testing, ProbeInv, WorldInv
  <2> QED BY <1>2, <2>1, ConfigFails, ConfigHolds DEF ApiConfig, Testing
<1>3. CASE DbConfig
  BY <1>3, ConfigFails, ConfigHolds, ConfigSkips DEF DbConfig, Testing
<1>4. CASE UNCHANGED probeVars
  <2>1. UNCHANGED <<source, world, checks, rung>>
    BY <1>4 DEF probeVars
  <2>2. ClimbInv' /\ WorldInv'
    BY <2>1 DEF ProbeInv, ClimbInv, Climbing, WorldInv, Configured, Rungs
  <2>3. MetInv'
    BY <2>1, SameWorld DEF ProbeInv, MetInv, Climbing
  <2>4. (Welcome' <=> Welcome) /\ (Excused' <=> Excused) /\ (Configured' <=> Configured)
    BY <2>1, SameWorld
  <2>5. (LadderShape' <=> LadderShape) /\ (Passed' <=> Passed)
    BY <2>1 DEF LadderShape, Passed, Configured, Rungs
  <2>6. ReportAgreesWithRun'
    BY <2>1, <2>4, <2>5 DEF ProbeInv, ReportAgreesWithRun, Welcome, Excused
  <2> QED BY <2>1, <2>2, <2>3, <2>6 DEF ProbeInv
<1> QED BY <1>1, <1>2, <1>3, <1>4, DnsStep, PolicyStep, TcpStep, TlsStep, HttpStep,
           AuthStep, ConnectStep, QueryStep, OutageStep DEF ProbeStep

LEMMA ProbeInvariance == ProbeSpec => []ProbeInv
<1>1. ProbeInit => ProbeInv
  BY ProbeStart
<1>2. ProbeInv /\ [ProbeStep]_probeVars => ProbeInv'
  BY ProbeNext
<1> QED BY <1>1, <1>2, PTL DEF ProbeSpec

LEMMA ProbeTyped == ProbeInv => ProbeTypeOK
<1> SUFFICES ASSUME ProbeInv
             PROVE  ProbeTypeOK
  OBVIOUS
<1>1. DOMAIN world = DOMAIN Calm
  BY CalmWorld DEF ProbeInv, WorldType
<1>2. ASSUME NEW k \in 1..Len(checks)
      PROVE  checks[k].status \in Statuses
  <2>1. checks[k] \in CheckType
    BY ElementOfSeq DEF ProbeInv
  <2> QED BY <2>1 DEF CheckType
<1> QED BY <1>1, <1>2 DEF ProbeInv, ProbeTypeOK, Statuses, CheckNames

\* Type correctness of the ladder of test_connection: no report grows past
\* the checks of its source.
THEOREM ProbeTypeCorrect == ProbeSpec => []ProbeTypeOK
<1> QED BY ProbeTyped, ProbeInvariance, PTL

\* Whatever a name resolves to, and whenever the network goes away: a report
\* of test_connection has its shape, and in surroundings that did not change
\* it agrees with what the source's run meets.
THEOREM ReportsAgreeWithRuns == ProbeSpec => []ReportAgreesWithRun
<1>1. ProbeInv => ReportAgreesWithRun
  BY DEF ProbeInv
<1> QED BY <1>1, ProbeInvariance, PTL

LEMMA LeastNat ==
  ASSUME NEW T, T \subseteq Nat, T # {}
  PROVE  \E x \in T : \A y \in T : x <= y
<1> DEFINE R == OpToRel(<, Nat)
<1>1. IsWellFoundedOn(R, Nat)
  BY NatLessThanWellFounded
<1>2. \A x, y \in Nat : x < y => <<x, y>> \in R
  BY DEF OpToRel
<1> HIDE DEF R
<1>3. PICK x \in T : \A y \in T : ~(<<y, x>> \in R)
  BY <1>1, WFMin
<1>4. ASSUME NEW y \in T PROVE x <= y
  <2>1. x \in Nat /\ y \in Nat
    BY <1>3
  <2>2. ~(y < x)
    BY <2>1, <1>2, <1>3
  <2> QED BY <2>1, <2>2
<1> QED BY <1>3, <1>4

\* A list of lists is flattened by adding one of them at a time.
LEMMA FlattenSteps ==
  ASSUME NEW S, NEW ss \in Seq(Seq(S))
  PROVE  \E pre \in [0..Len(ss) -> Seq(S)] :
            /\ pre[0] = <<>> /\ FlattenSeq(ss) = pre[Len(ss)]
            /\ \A i \in 1..Len(ss) : pre[i] = pre[i - 1] \o ss[i]
<1> DEFINE len == Len(ss)
           Good(g, n) == g = [i \in 1..n |-> IF i = 1 THEN ss[i] ELSE g[i - 1] \o ss[i]]
           Bad == {n \in 1..len : ~\E g : Good(g, n)}
<1>1. len \in Nat /\ \A i \in 1..len : ss[i] \in Seq(S)
  BY LenProperties, ElementOfSeq
<1>0. <<>> \in Seq(S)
  BY EmptySeq
<1> HIDE DEF len
<1>2. ASSUME NEW n \in 1..len PROVE \E g : Good(g, n)
  <2> SUFFICES ASSUME Bad # {} PROVE FALSE
    OBVIOUS
  <2>1. PICK m \in Bad : \A y \in Bad : m <= y
    <3>1. Bad \subseteq Nat
      <4> HIDE DEF Good
      <4>1. 1..len \subseteq Nat
        BY <1>1
      <4> QED BY <4>1
    <3> HIDE DEF Bad
    <3> QED BY <3>1, LeastNat
  <2>2. m # 1
    <3> DEFINE g == [i \in 1..1 |-> ss[i]]
    <3>1. Good(g, 1)
      OBVIOUS
    <3> QED BY <3>1
  <2>3. m \in 1..len /\ m - 1 \in 1..len /\ m - 1 < m
    BY <1>1, <2>2
  <2>4. PICK g : Good(g, m - 1)
    <3>1. m - 1 \notin Bad
      <4> HIDE DEF Bad
      <4> QED BY <1>1, <2>1, <2>3
    <3> HIDE DEF Good
    <3> QED BY <3>1, <2>3
  <2> DEFINE h == [i \in 1..m |-> IF i = m THEN g[m - 1] \o ss[m] ELSE g[i]]
  <2>5. ASSUME NEW i \in 1..m PROVE h[i] = IF i = 1 THEN ss[i] ELSE h[i - 1] \o ss[i]
    <3>1. CASE i = m
      <4>1. m - 1 \in 1..m /\ m - 1 # m /\ m \in 1..m
        BY <1>1, <2>3
      <4>2. h[m - 1] = g[m - 1] /\ h[m] = g[m - 1] \o ss[m]
        BY <4>1
      <4> QED BY <3>1, <2>2, <4>2
    <3>2. CASE i # m
      <4>1. i \in 1..(m - 1) /\ (i # 1 => i - 1 \in 1..(m - 1) /\ i - 1 \in 1..m /\ i - 1 # m)
        BY <3>2, <1>1, <2>3
      <4>2. g[i] = IF i = 1 THEN ss[i] ELSE g[i - 1] \o ss[i]
        BY <4>1, <2>4
      <4> QED BY <4>1, <4>2, <3>2
    <3> QED BY <3>1, <3>2
  <2>6. Good(h, m)
    BY <2>5
  <2> QED BY <2>6
<1>3. CASE len = 0
  <2> DEFINE pre == [i \in 0..0 |-> <<>>]
  <2>1. FlattenSeq(ss) = <<>>
    BY <1>3 DEF FlattenSeq, len
  <2>2. pre \in [0..len -> Seq(S)] /\ pre[0] = <<>> /\ FlattenSeq(ss) = pre[len]
    BY <1>0, <1>3, <2>1
  <2>3. 1..len = {}
    BY <1>3
  <2> HIDE DEF pre
  <2> QED BY <2>2, <2>3 DEF len
<1>4. CASE len # 0
  <2> DEFINE flatten == CHOOSE g : Good(g, len)
  <2>1. Good(flatten, len)
    <3>1. len \in 1..len
      BY <1>1, <1>4
    <3> HIDE DEF Good
    <3> QED BY <3>1, <1>2
  <2>2. FlattenSeq(ss) = flatten[len]
    BY <1>4 DEF FlattenSeq, len
  <2> HIDE DEF flatten
  <2> DEFINE Off == {i \in 1..len : flatten[i] \notin Seq(S)}
  <2>3. Off = {}
    <3> SUFFICES ASSUME Off # {} PROVE FALSE
      OBVIOUS
    <3>1. PICK m \in Off : \A y \in Off : m <= y
      <4>1. Off \subseteq Nat
        BY <1>1
      <4> HIDE DEF Off
      <4> QED BY <4>1, LeastNat
    <3>2. flatten[m] = IF m = 1 THEN ss[m] ELSE flatten[m - 1] \o ss[m]
      BY <2>1, <3>1
    <3>3. m # 1
      BY <1>1, <3>1, <3>2
    <3>4. m - 1 \in 1..len /\ m - 1 < m /\ m \in 1..len
      BY <1>1, <3>1, <3>3
    <3>5. flatten[m - 1] \in Seq(S)
      <4>1. m - 1 \notin Off
        <5> HIDE DEF Off
        <5> QED BY <1>1, <3>1, <3>4
      <4> QED BY <4>1, <3>4
    <3>6. flatten[m - 1] \o ss[m] \in Seq(S)
      BY <1>1, <3>4, <3>5, ConcatProperties
    <3> QED BY <3>1, <3>2, <3>3, <3>6
  <2> DEFINE pre == [i \in 0..len |-> IF i = 0 THEN <<>> ELSE flatten[i]]
  <2>4. \A i \in 1..len : pre[i] = flatten[i] /\ flatten[i] \in Seq(S)
    <3>1. \A i \in 1..len : flatten[i] \in Seq(S)
      BY <2>3
    <3>2. \A i \in 1..len : i \in 0..len /\ i # 0
      BY <1>1
    <3> QED BY <3>1, <3>2
  <2>5. pre[0] = <<>> /\ pre[len] = FlattenSeq(ss)
    BY <1>1, <1>4, <2>2
  <2>6. pre \in [0..len -> Seq(S)]
    <3>1. \A i \in 0..len : (IF i = 0 THEN <<>> ELSE flatten[i]) \in Seq(S)
      <4>1. \A i \in 0..len : i = 0 \/ i \in 1..len
        BY <1>1
      <4> HIDE DEF pre
      <4> QED BY <4>1, <1>0, <2>4
    <3> QED BY <3>1
  <2> HIDE DEF pre
  <2>7. ASSUME NEW i \in 1..len PROVE pre[i] = pre[i - 1] \o ss[i]
    <3>1. CASE i = 1
      <4>1. pre[i] = ss[i]
        BY <3>1, <2>1, <2>4
      <4>2. pre[i - 1] = <<>> /\ ss[i] \in Seq(S)
        BY <3>1, <2>5, <1>1
      <4> QED BY <4>1, <4>2, ConcatEmptySeq
    <3>2. CASE i # 1
      <4>1. i - 1 \in 1..len
        BY <3>2, <1>1
      <4>2. flatten[i] = flatten[i - 1] \o ss[i]
        BY <3>2, <2>1
      <4> QED BY <4>1, <4>2, <2>4
    <3> QED BY <3>1, <3>2
  <2> QED BY <2>5, <2>6, <2>7 DEF len
<1> QED BY <1>3, <1>4

\* A list that is put together has the elements of its parts.
LEMMA Flattened ==
  ASSUME NEW S, NEW ss \in Seq(Seq(S))
  PROVE  FlattenSeq(ss) \in Seq(S)
<1>1. PICK pre \in [0..Len(ss) -> Seq(S)] :
            /\ pre[0] = <<>> /\ FlattenSeq(ss) = pre[Len(ss)]
            /\ \A i \in 1..Len(ss) : pre[i] = pre[i - 1] \o ss[i]
  BY FlattenSteps
<1>2. Len(ss) \in 0..Len(ss)
  BY LenProperties
<1> QED BY <1>1, <1>2

\* What is left of a list has its elements.
LEMMA ThoseType ==
  ASSUME NEW S, NEW list \in Seq(S), NEW positions
  PROVE  Those(list, positions) \in Seq(S)
<1> DEFINE Piece(i) == IF i \in positions THEN <<list[i]>> ELSE <<>>
           len == Len(list)
           ss == [i \in 1..len |-> Piece(i)]
<1>1. len \in Nat /\ \A i \in 1..len : list[i] \in S
  BY LenProperties, ElementOfSeq
<1>2. \A i \in 1..len : Piece(i) \in Seq(S)
  BY <1>1
<1> HIDE DEF Piece, len
<1>3. ss \in Seq(Seq(S))
  <2>1. ss \in [1..len -> Seq(S)]
    BY <1>2
  <2> HIDE DEF ss
  <2> QED BY <1>1, <2>1
<1>4. Those(list, positions) = FlattenSeq(ss)
  BY DEF Those, Piece, len
<1> QED BY <1>3, <1>4, Flattened

-----------------------------------------------------------------------------
(* Dicts and the heap.                                                     *)

IsList(s) == s = [i \in 1..Len(s) |-> s[i]] /\ Len(s) \in Nat

\* A dict whose values are atoms, tokens or references into a heap of a size.
DictOK(d, size) == \A f \in DOMAIN d : d[f] \in Values(size)

LEMMA ValueFacts ==
  ASSUME NEW m \in Nat, NEW n \in Nat, m <= n
  PROVE  /\ Values(m) \subseteq Values(n) /\ Missing \in Values(m)
         /\ \A x \in Values(m) : IsRef(x) => Dict(x) \in 1..m
         /\ \A a \in 1..m : IsRef(Ref(a)) /\ Dict(Ref(a)) = a /\ Ref(a) \in Values(m)
BY DEF Values, Missing, IsRef, Dict, Ref

LEMMA Grown ==
  ASSUME NEW m \in Nat, NEW n \in Nat, m <= n, NEW d, DictOK(d, m)
  PROVE  DictOK(d, n)
BY ValueFacts DEF DictOK

LEMMA PutOK ==
  ASSUME NEW n \in Nat, NEW d, DictOK(d, n), NEW f, NEW x \in Values(n)
  PROVE  DictOK(Put(d, f, x), n)
BY DEF DictOK, Put

LEMMA FieldOK ==
  ASSUME NEW h, Len(h) \in Nat, Closed(h), NEW x \in Values(Len(h)), NEW f
  PROVE  Field(h, x, f) \in Values(Len(h))
<1>1. CASE IsRef(x) /\ f \in DOMAIN h[Dict(x)]
  <2>1. Dict(x) \in 1..Len(h)
    BY <1>1, ValueFacts
  <2> QED BY <1>1, <2>1 DEF Field, Closed
<1>2. CASE ~(IsRef(x) /\ f \in DOMAIN h[Dict(x)])
  BY <1>2, ValueFacts DEF Field
<1> QED BY <1>1, <1>2

LEMMA PathOK ==
  ASSUME NEW h, Len(h) \in Nat, Closed(h), NEW a \in 1..Len(h), NEW path
  PROVE  GetPath(h, a, path) \in Values(Len(h))
<1>1. Ref(a) \in Values(Len(h))
  BY ValueFacts
<1>2. Field(h, Ref(a), path[1]) \in Values(Len(h))
  BY <1>1, FieldOK
<1>3. Field(h, Field(h, Ref(a), path[1]), path[2]) \in Values(Len(h))
  BY <1>2, FieldOK
<1> QED BY <1>2, <1>3 DEF GetPath

\* A heap that only grew.
Extends(g, h) ==
    /\ Len(g) \in Nat /\ Len(h) \in Nat /\ Len(h) <= Len(g)
    /\ \A a \in 1..Len(h) : g[a] = h[a]

\* What a path leads to lies in the part of the heap that was there when the
\* record was.
LEMMA SamePath ==
  ASSUME NEW g, NEW h, Extends(g, h), Closed(h), NEW a \in 1..Len(h), NEW path
  PROVE  GetPath(g, a, path) = GetPath(h, a, path)
<1>1. Len(h) \in Nat
  BY DEF Extends
<1>2. ASSUME NEW x \in Values(Len(h)), NEW f PROVE Field(g, x, f) = Field(h, x, f)
  <2>1. CASE IsRef(x)
    <3>1. Dict(x) \in 1..Len(h)
      BY <1>1, <2>1, ValueFacts
    <3> QED BY <3>1 DEF Field, Extends
  <2>2. CASE ~IsRef(x)
    BY <2>2 DEF Field
  <2> QED BY <2>1, <2>2
<1>3. Ref(a) \in Values(Len(h))
  BY <1>1, ValueFacts
<1>4. Field(g, Ref(a), path[1]) = Field(h, Ref(a), path[1])
  BY <1>2, <1>3
<1>5. Field(h, Ref(a), path[1]) \in Values(Len(h))
  BY <1>1, <1>3, FieldOK
<1>6. Field(g, Field(h, Ref(a), path[1]), path[2]) = Field(h, Field(h, Ref(a), path[1]), path[2])
  BY <1>2, <1>5
<1> QED BY <1>4, <1>6 DEF GetPath

LEMMA SameContents ==
  ASSUME NEW g, NEW h, Extends(g, h), Closed(h), NEW a \in 1..Len(h)
  PROVE  Contents(g, a) = Contents(h, a)
<1>1. \A path : GetPath(g, a, path) = GetPath(h, a, path)
  BY SamePath
<1>2. g[a] = h[a]
  BY DEF Extends
<1> QED BY <1>1, <1>2 DEF Contents

LEMMA SameSnapshot ==
  ASSUME NEW g, NEW h, Extends(g, h), Closed(h), NEW list \in Seq(1..Len(h))
  PROVE  Snapshot(g, list) = Snapshot(h, list)
<1>1. \A i \in 1..Len(list) : list[i] \in 1..Len(h)
  BY ElementOfSeq
<1>2. \A i \in 1..Len(list) : Contents(g, list[i]) = Contents(h, list[i])
  BY <1>1, SameContents
<1> QED BY <1>2 DEF Snapshot

\* Lists end to end.
LEMMA Joined ==
  ASSUME NEW s, NEW t, IsList(s), IsList(t)
  PROVE  /\ IsList(s \o t) /\ Len(s \o t) = Len(s) + Len(t)
         /\ \A i \in 1..Len(s) : (s \o t)[i] = s[i]
         /\ \A i \in 1..Len(t) : (s \o t)[Len(s) + i] = t[i]
<1> DEFINE S == {s[i] : i \in 1..Len(s)} \cup {t[i] : i \in 1..Len(t)}
           n == Len(s)
           m == Len(t)
           u == s \o t
<1>1. n \in Nat /\ m \in Nat
  BY DEF IsList
<1>2. s \in Seq(S) /\ t \in Seq(S)
  <2>1. s \in [1..n -> S]
    BY DEF IsList
  <2>2. t \in [1..m -> S]
    BY DEF IsList
  <2> HIDE DEF n, m, S
  <2> QED BY <1>1, <2>1, <2>2
<1> HIDE DEF S
<1>3. u \in Seq(S) /\ Len(u) = n + m
  BY <1>2, ConcatProperties
<1>4. \A i \in 1..(n + m) : u[i] = IF i <= n THEN s[i] ELSE t[i - n]
  BY <1>2, ConcatProperties
<1> HIDE DEF u, n, m
<1>5. \A i \in 1..n : u[i] = s[i]
  BY <1>1, <1>4
<1>6. ASSUME NEW i \in 1..m PROVE u[n + i] = t[i]
  <2> DEFINE k == n + i
  <2>1. k \in 1..(n + m) /\ ~(k <= n) /\ k - n = i
    BY <1>1
  <2> HIDE DEF k
  <2>2. u[k] = t[k - n]
    BY <2>1, <1>4
  <2> QED BY <2>1, <2>2 DEF k
<1>7. IsList(u)
  BY <1>3 DEF IsList
<1> QED BY <1>3, <1>5, <1>6, <1>7 DEF u, n, m

LEMMA Appended ==
  ASSUME NEW s, NEW x, IsList(s)
  PROVE  /\ IsList(Append(s, x)) /\ Len(Append(s, x)) = Len(s) + 1
         /\ \A i \in 1..Len(s) : Append(s, x)[i] = s[i]
         /\ Append(s, x)[Len(s) + 1] = x
<1> DEFINE S == {s[i] : i \in 1..Len(s)} \cup {x}
           n == Len(s)
           u == Append(s, x)
<1>1. n \in Nat
  BY DEF IsList
<1>2. s \in Seq(S) /\ x \in S
  <2>1. s \in [1..n -> S] /\ x \in S
    BY DEF IsList
  <2> HIDE DEF n, S
  <2> QED BY <1>1, <2>1
<1> HIDE DEF S
<1>3. /\ u \in Seq(S) /\ Len(u) = n + 1
      /\ \A i \in 1..n : u[i] = s[i]
      /\ u[n + 1] = x
  BY <1>2, AppendProperties
<1> HIDE DEF u
<1>4. IsList(u)
  BY <1>3 DEF IsList
<1> QED BY <1>3, <1>4 DEF u, n

-----------------------------------------------------------------------------
(* Records: the invariant.                                                 *)

\* References lead somewhere, and what was buffered is unchanged.
RecInv ==
    /\ IsList(heap) /\ Closed(heap)
    /\ buffers \in Seq(Seq(1..Len(heap)))
    /\ IsList(made) /\ Len(made) = Len(buffers)
    /\ IsList(image) /\ Len(image) = Len(buffers)
    /\ BuffersNeverChange

\* A node that adds to the heap, or leaves it, and lists what is there.
LEMMA BufferStep ==
  ASSUME RecInv, NEW op, NEW ins, NEW h, NEW list, Buffer(op, ins, h, list),
         IsList(h), Extends(h, heap), Closed(h), list \in Seq(1..Len(h))
  PROVE  RecInv' /\ Extends(heap', heap)
<1> DEFINE n == Len(buffers)
           A == 1..Len(heap)
           B == 1..Len(h)
<1>1. /\ heap' = h /\ buffers' = Append(buffers, list)
      /\ made' = Append(made, [op |-> op, ins |-> ins])
      /\ image' = Append(image, Snapshot(h, list))
  BY DEF Buffer
<1>2. /\ buffers \in Seq(Seq(A)) /\ n \in Nat /\ \A b \in 1..n : buffers[b] \in Seq(A)
      /\ IsList(made) /\ Len(made) = n /\ IsList(image) /\ Len(image) = n
  BY LenProperties, ElementOfSeq DEF RecInv
<1>3. A \subseteq B
  BY DEF Extends
<1> HIDE DEF A, B, n
<1>4. buffers \in Seq(Seq(B)) /\ list \in Seq(B)
  <2>1. list \in Seq(B)
    BY DEF B
  <2>2. \A s \in Seq(A) : s \in Seq(B)
    BY <1>3
  <2> QED BY <2>1, <2>2, <1>2
<1>5. /\ buffers' \in Seq(Seq(B)) /\ Len(buffers') = n + 1
      /\ \A b \in 1..n : buffers'[b] = buffers[b]
      /\ buffers'[n + 1] = list
  <2>1. Len(buffers) = n
    BY DEF n
  <2> QED BY <1>1, <1>4, <2>1, AppendProperties
<1>6. IsList(made') /\ Len(made') = n + 1
  BY <1>1, <1>2, Appended
<1>7. /\ IsList(image') /\ Len(image') = n + 1
      /\ \A b \in 1..n : image'[b] = image[b]
      /\ image'[n + 1] = Snapshot(h, list)
  BY <1>1, <1>2, Appended
<1>8. ASSUME NEW b \in 1..Len(buffers')
      PROVE  Snapshot(heap', buffers'[b]) = image'[b]
  <2>1. CASE b \in 1..n
    <3>1. Snapshot(heap, buffers[b]) = image[b]
      BY <2>1 DEF RecInv, BuffersNeverChange, n
    <3>2. Snapshot(h, buffers[b]) = Snapshot(heap, buffers[b])
      <4>1. buffers[b] \in Seq(1..Len(heap)) /\ Closed(heap)
        BY <2>1, <1>2 DEF RecInv, A
      <4> QED BY <4>1, SameSnapshot
    <3> QED BY <2>1, <3>1, <3>2, <1>1, <1>5, <1>7
  <2>2. CASE b = n + 1
    BY <2>2, <1>1, <1>5, <1>7
  <2> QED BY <2>1, <2>2, <1>2, <1>5
<1>9. BuffersNeverChange'
  BY <1>8 DEF BuffersNeverChange
<1> QED BY <1>1, <1>5, <1>6, <1>7, <1>9 DEF RecInv, B

\* A node that makes new dicts.
LEMMA FreshStep ==
  ASSUME RecInv, NEW op, NEW ins, NEW dicts, Fresh(op, ins, dicts),
         IsList(dicts), \A i \in 1..Len(dicts) : DictOK(dicts[i], Len(heap))
  PROVE  RecInv' /\ Extends(heap', heap)
<1> DEFINE h == heap \o dicts
           n == Len(heap)
           m == Len(dicts)
           list == [i \in 1..m |-> n + i]
<1>1. IsList(heap) /\ Closed(heap) /\ n \in Nat /\ m \in Nat
  BY DEF RecInv, IsList
<1>2. /\ IsList(h) /\ Len(h) = n + m
      /\ \A a \in 1..n : h[a] = heap[a]
      /\ \A i \in 1..m : h[n + i] = dicts[i]
  BY <1>1, Joined
<1>3. Buffer(op, ins, h, list)
  BY DEF Fresh
<1> HIDE DEF h, n, m
<1>4. list \in Seq(1..Len(h))
  <2>1. list \in [1..m -> 1..Len(h)]
    BY <1>1, <1>2
  <2> HIDE DEF list
  <2> QED BY <1>1, <2>1
<1>5. Extends(h, heap)
  BY <1>1, <1>2 DEF Extends, n
<1>6. ASSUME NEW a \in 1..Len(h) PROVE DictOK(h[a], Len(h))
  <2>1. CASE a \in 1..n
    <3>1. DictOK(h[a], n)
      BY <2>1, <1>1, <1>2 DEF DictOK, Closed, n
    <3> QED BY <3>1, <1>1, <1>2, Grown
  <2>2. CASE a \in (n + 1)..(n + m)
    <3>1. PICK i \in 1..m : a = n + i
      <4>1. a - n \in 1..m /\ a = n + (a - n)
        BY <2>2, <1>1
      <4> QED BY <4>1
    <3>2. DictOK(h[a], n)
      BY <3>1, <1>2 DEF n, m
    <3> QED BY <3>2, <1>1, <1>2, Grown
  <2> QED BY <2>1, <2>2, <1>1, <1>2
<1>7. Closed(h)
  BY <1>6 DEF Closed, DictOK
<1> HIDE DEF list
<1> QED BY <1>2, <1>3, <1>4, <1>5, <1>7, BufferStep

-----------------------------------------------------------------------------
(* Records: every step keeps the invariant.                                *)

\* What is known of a buffer that a node reads.
LEMMA ReadFacts ==
  ASSUME RecInv, NEW b, CanRead(b)
  PROVE  /\ buffers[b] \in Seq(1..Len(heap)) /\ Len(buffers[b]) \in Nat
         /\ \A i \in 1..Len(buffers[b]) : buffers[b][i] \in 1..Len(heap)
         /\ \A a \in 1..Len(heap) : DictOK(heap[a], Len(heap))
         /\ Closed(heap) /\ IsList(heap) /\ Len(heap) \in Nat
<1>1. buffers[b] \in Seq(1..Len(heap))
  BY ElementOfSeq DEF RecInv, CanRead
<1>2. \A i \in 1..Len(buffers[b]) : buffers[b][i] \in 1..Len(heap)
  BY <1>1, ElementOfSeq
<1> QED BY <1>1, <1>2, LenProperties DEF RecInv, IsList, Closed, DictOK

LEMMA SelectStep ==
  ASSUME RecInv, NEW b, NEW paths, SelectFields(b, paths)
  PROVE  RecInv' /\ Extends(heap', heap)
<1> DEFINE n == Len(buffers[b])
           dicts == [i \in 1..n |-> Projected(buffers[b][i], paths)]
<1>1. CanRead(b) /\ Fresh([op |-> "select"], <<b>>, dicts)
  BY DEF SelectFields
<1>2. ASSUME NEW a \in 1..Len(heap) PROVE DictOK(Projected(a, paths), Len(heap))
  <2>1. \A p : GetPath(heap, a, p) \in Values(Len(heap))
    BY <1>1, ReadFacts, PathOK
  <2> QED BY <2>1 DEF DictOK, Projected
<1>3. n \in Nat /\ \A i \in 1..n : buffers[b][i] \in 1..Len(heap)
  BY <1>1, ReadFacts
<1> HIDE DEF n
<1>4. IsList(dicts) /\ Len(dicts) = n
  BY <1>3 DEF IsList
<1>5. \A i \in 1..n : DictOK(dicts[i], Len(heap))
  BY <1>2, <1>3
<1> HIDE DEF dicts
<1> QED BY <1>1, <1>4, <1>5, FreshStep

LEMMA RenameStep ==
  ASSUME RecInv, NEW b, NEW from, NEW to, RenameField(b, from, to)
  PROVE  RecInv' /\ Extends(heap', heap)
<1> DEFINE n == Len(buffers[b])
           dicts == [i \in 1..n |-> Renamed(heap[buffers[b][i]], from, to)]
<1>1. CanRead(b) /\ Fresh([op |-> "rename"], <<b>>, dicts)
  BY DEF RenameField
<1>2. ASSUME NEW d, DictOK(d, Len(heap)) PROVE DictOK(Renamed(d, from, to), Len(heap))
  BY <1>2 DEF DictOK, Renamed
<1>3. n \in Nat /\ \A i \in 1..n : DictOK(heap[buffers[b][i]], Len(heap))
  BY <1>1, ReadFacts
<1> HIDE DEF n
<1>4. IsList(dicts) /\ Len(dicts) = n
  BY <1>3 DEF IsList
<1>5. \A i \in 1..n : DictOK(dicts[i], Len(heap))
  BY <1>2, <1>3
<1> HIDE DEF dicts
<1> QED BY <1>1, <1>4, <1>5, FreshStep

LEMMA ComputeStep ==
  ASSUME RecInv, NEW b, NEW to, ComputeField(b, to)
  PROVE  RecInv' /\ Extends(heap', heap)
<1> DEFINE n == Len(buffers[b])
           D(i) == heap[buffers[b][i]]
           dicts == [i \in 1..n |-> Put(D(i), to, 3 - D(i)["v"])]
<1>1. /\ CanRead(b) /\ Fresh([op |-> "computed"], <<b>>, dicts)
      /\ \A i \in 1..n : GetPath(heap, buffers[b][i], <<"v">>) \in {1, 2}
  BY DEF ComputeField
<1>2. /\ n \in Nat /\ Len(heap) \in Nat
      /\ \A i \in 1..n : buffers[b][i] \in 1..Len(heap) /\ DictOK(D(i), Len(heap))
  BY <1>1, ReadFacts
<1>3. ASSUME NEW i \in 1..n PROVE 3 - D(i)["v"] \in Values(Len(heap))
  <2>1. Field(heap, Ref(buffers[b][i]), "v") \in {1, 2}
    <3>1. <<"v">>[1] = "v" /\ Len(<<"v">>) = 1
      OBVIOUS
    <3> QED BY <3>1, <1>1 DEF GetPath
  <2>2. Dict(Ref(buffers[b][i])) = buffers[b][i]
    BY <1>2, ValueFacts
  <2>3. D(i)["v"] \in {1, 2}
    BY <2>1, <2>2 DEF Field, Missing
  <2> QED BY <2>3 DEF Values
<1> HIDE DEF n, D
<1>4. IsList(dicts) /\ Len(dicts) = n
  BY <1>2 DEF IsList
<1>5. ASSUME NEW i \in 1..n PROVE DictOK(dicts[i], Len(heap))
  <2>1. DictOK(Put(D(i), to, 3 - D(i)["v"]), Len(heap))
    BY <1>2, <1>3, PutOK
  <2> QED BY <2>1
<1> HIDE DEF dicts
<1> QED BY <1>1, <1>4, <1>5, FreshStep

\* A node that hands on some of the records it was given.
LEMMA SameHeapStep ==
  ASSUME RecInv, NEW op, NEW ins, NEW list \in Seq(1..Len(heap)), Buffer(op, ins, heap, list)
  PROVE  RecInv' /\ Extends(heap', heap)
<1>1. IsList(heap) /\ Closed(heap) /\ Extends(heap, heap)
  BY DEF RecInv, IsList, Extends
<1> QED BY <1>1, BufferStep

LEMMA FilterStep ==
  ASSUME RecInv, NEW b, NEW p, FilterRecords(b, p)
  PROVE  RecInv' /\ Extends(heap', heap)
<1> DEFINE kept == {i \in 1..Len(buffers[b]) : EvalPredicate(p, buffers[b][i])}
<1>1. CanRead(b) /\ Buffer([op |-> "filter"], <<b>>, heap, Those(buffers[b], kept))
  BY DEF FilterRecords
<1> HIDE DEF kept
<1>2. Those(buffers[b], kept) \in Seq(1..Len(heap))
  BY <1>1, ReadFacts, ThoseType
<1> QED BY <1>1, <1>2, SameHeapStep

LEMMA ConcatStep ==
  ASSUME RecInv, NEW b, NEW c, Concat(b, c) \/ Union(b, c)
  PROVE  RecInv' /\ Extends(heap', heap)
<1> DEFINE all == buffers[b] \o buffers[c]
<1>1. CanRead(b) /\ CanRead(c)
  BY DEF Concat, Union
<1>2. all \in Seq(1..Len(heap))
  BY <1>1, ReadFacts, ConcatProperties
<1>3. UnionOf(all) \in Seq(1..Len(heap))
  <2> HIDE DEF all
  <2> QED BY <1>2, ThoseType DEF UnionOf
<1>4. \/ Buffer([op |-> "concat"], <<b, c>>, heap, all)
      \/ Buffer([op |-> "union"], <<b, c>>, heap, UnionOf(all))
  BY DEF Concat, Union
<1> HIDE DEF all
<1> QED BY <1>2, <1>3, <1>4, SameHeapStep

\* What decrypt copies: a record, and the dict it nests if it nests one.
Nests(a) == "n" \in DOMAIN heap[a] /\ IsRef(heap[a]["n"])
Inner(a) == IF Nests(a) THEN heap[Dict(heap[a]["n"])] ELSE NoFields

\* The heap after decrypt: what it was, the copies, and the copies of what
\* they nest.
DecryptHeap(b, h) ==
    LET list == buffers[b]
        n == Len(heap)
        len == Len(list)
    IN  /\ IsList(h) /\ Len(h) = n + len + len
        /\ \A a \in 1..n : h[a] = heap[a]
        /\ \A i \in 1..len : h[n + i] = IF Nests(list[i])
                                        THEN Put(heap[list[i]], "n", Ref(n + len + i))
                                        ELSE heap[list[i]]
        /\ \A i \in 1..len : h[n + len + i] = Plain(Inner(list[i]))

LEMMA DecryptShape ==
  ASSUME RecInv, NEW b, NEW onMissing, Decrypt(b, onMissing)
  PROVE  \E h : /\ Buffer([op |-> "decrypt"], <<b>>, h, [i \in 1..Len(buffers[b]) |-> Len(heap) + i])
                /\ DecryptHeap(b, h)
<1> DEFINE n == Len(heap)
           len == Len(buffers[b])
           L(i) == buffers[b][i]
           copies == [i \in 1..len |-> IF Nests(L(i)) THEN Put(heap[L(i)], "n", Ref(n + len + i))
                                       ELSE heap[L(i)]]
           children == [i \in 1..len |-> Plain(Inner(L(i)))]
           g == heap \o copies
           h == g \o children
           list == [i \in 1..len |-> n + i]
<1>1. CanRead(b) /\ Buffer([op |-> "decrypt"], <<b>>, h, list)
  BY DEF Decrypt, Nests, Inner
<1>2. n \in Nat /\ len \in Nat /\ IsList(heap)
  BY <1>1, ReadFacts
<1> HIDE DEF len, L
<1>3. IsList(copies) /\ Len(copies) = len /\ IsList(children) /\ Len(children) = len
  BY <1>2 DEF IsList
<1>4. /\ \A i \in 1..len : copies[i] = IF Nests(L(i)) THEN Put(heap[L(i)], "n", Ref(n + len + i))
                                       ELSE heap[L(i)]
      /\ \A i \in 1..len : children[i] = Plain(Inner(L(i)))
  OBVIOUS
<1> HIDE DEF copies, children
<1>5. /\ IsList(g) /\ Len(g) = n + len
      /\ \A a \in 1..n : g[a] = heap[a]
      /\ \A i \in 1..len : g[n + i] = copies[i]
  BY <1>2, <1>3, Joined
<1> HIDE DEF g
<1>6. /\ IsList(h) /\ Len(h) = n + len + len
      /\ \A a \in 1..(n + len) : h[a] = g[a]
      /\ \A i \in 1..len : h[n + len + i] = children[i]
  <2>1. /\ IsList(h) /\ Len(h) = Len(g) + Len(children)
        /\ \A a \in 1..Len(g) : h[a] = g[a]
        /\ \A i \in 1..Len(children) : h[Len(g) + i] = children[i]
    <3>1. IsList(g) /\ IsList(children)
      BY <1>3, <1>5
    <3> QED BY ONLY <3>1, Joined DEF h
  <2> HIDE DEF h, n
  <2> QED BY <2>1, <1>3, <1>5
<1> HIDE DEF h, n, list
<1>7. \A a \in 1..n : h[a] = heap[a]
  <2>1. \A a \in 1..n : a \in 1..(n + len)
    BY <1>2
  <2> QED BY <2>1, <1>5, <1>6
<1>8. \A i \in 1..len : h[n + i] = copies[i]
  <2>1. \A i \in 1..len : n + i \in 1..(n + len)
    BY <1>2
  <2> QED BY <2>1, <1>5, <1>6
<1>9. DecryptHeap(b, h)
  BY <1>4, <1>6, <1>7, <1>8 DEF DecryptHeap, n, len, L
<1> QED BY <1>1, <1>9 DEF list, n, len

\* decrypt copies the records and what they hold, and changes the copies.
LEMMA DecryptStep ==
  ASSUME RecInv, NEW b, NEW onMissing, Decrypt(b, onMissing)
  PROVE  RecInv' /\ Extends(heap', heap)
<1> DEFINE n == Len(heap)
           len == Len(buffers[b])
           L(i) == buffers[b][i]
           list == [i \in 1..len |-> n + i]
           N == n + len + len
<1>1. CanRead(b)
  BY DEF Decrypt
<1>2. PICK h : Buffer([op |-> "decrypt"], <<b>>, h, list) /\ DecryptHeap(b, h)
  BY DecryptShape
<1>3. /\ IsList(h) /\ Len(h) = N
      /\ \A a \in 1..n : h[a] = heap[a]
      /\ \A i \in 1..len : h[n + i] = IF Nests(L(i)) THEN Put(heap[L(i)], "n", Ref(n + len + i))
                                      ELSE heap[L(i)]
      /\ \A i \in 1..len : h[n + len + i] = Plain(Inner(L(i)))
  BY <1>2 DEF DecryptHeap
<1>4. /\ n \in Nat /\ len \in Nat
      /\ \A a \in 1..n : DictOK(heap[a], n)
      /\ \A i \in 1..len : L(i) \in 1..n
  BY <1>1, ReadFacts
<1> HIDE DEF n, len, L
<1>5. N \in Nat /\ n <= N
  BY <1>4
<1>6. ASSUME NEW a \in 1..n PROVE DictOK(Inner(a), n)
  <2>1. CASE Nests(a)
    <3>1. heap[a]["n"] \in Values(n)
      BY <2>1, <1>4 DEF DictOK, Nests
    <3>2. Dict(heap[a]["n"]) \in 1..n
      BY <2>1, <3>1, <1>4, ValueFacts DEF Nests
    <3> QED BY <2>1, <3>2, <1>4 DEF Inner
  <2>2. CASE ~Nests(a)
    BY <2>2 DEF DictOK, NoFields, Inner
  <2> QED BY <2>1, <2>2
<1>7. ASSUME NEW d, DictOK(d, n) PROVE DictOK(Plain(d), n)
  <2>1. \A x \in Values(n) : x < 0 => -x \in Values(n)
    BY <1>4 DEF Values, Ref
  <2> QED BY <1>7, <2>1 DEF DictOK, Plain
<1>8. ASSUME NEW i \in 1..len PROVE DictOK(h[n + i], N)
  <2>1. DictOK(heap[L(i)], N)
    <3> HIDE DEF N
    <3> QED BY <1>4, <1>5, Grown
  <2>2. Ref(n + len + i) \in Values(N)
    <3>1. n + len + i \in 1..N
      BY <1>4
    <3> HIDE DEF N
    <3> QED BY <3>1, <1>5, ValueFacts
  <2> HIDE DEF N
  <2>3. DictOK(Put(heap[L(i)], "n", Ref(n + len + i)), N)
    BY <2>1, <2>2, <1>5, PutOK
  <2> QED BY <2>1, <2>3, <1>3
<1>9. ASSUME NEW i \in 1..len PROVE DictOK(h[n + len + i], N)
  <2> HIDE DEF N
  <2>1. DictOK(Plain(Inner(L(i))), n)
    BY <1>4, <1>6, <1>7
  <2>2. DictOK(Plain(Inner(L(i))), N)
    BY <2>1, <1>4, <1>5, Grown
  <2> QED BY <2>2, <1>3
<1>10. Extends(h, heap)
  BY <1>3, <1>4, <1>5 DEF Extends, n
<1>11. ASSUME NEW a \in 1..Len(h) PROVE DictOK(h[a], N)
  <2>1. CASE a \in 1..n
    <3>1. h[a] = heap[a] /\ DictOK(heap[a], n)
      BY <2>1, <1>3, <1>4
    <3> HIDE DEF N
    <3> QED BY <3>1, <1>4, <1>5, Grown
  <2>2. CASE a \in (n + 1)..(n + len)
    <3>1. a - n \in 1..len /\ a = n + (a - n)
      BY <2>2, <1>4
    <3> HIDE DEF N
    <3> QED BY <3>1, <1>8
  <2>3. CASE a \in (n + len + 1)..(n + len + len)
    <3>1. a - (n + len) \in 1..len /\ a = n + len + (a - (n + len))
      BY <2>3, <1>4
    <3> HIDE DEF N
    <3> QED BY <3>1, <1>9
  <2> QED BY <2>1, <2>2, <2>3, <1>3, <1>4
<1>12. Closed(h)
  <2>1. Len(h) = N
    BY <1>3
  <2> HIDE DEF N
  <2> QED BY <2>1, <1>11 DEF Closed, DictOK
<1>13. list \in Seq(1..Len(h))
  <2>1. list \in [1..len -> 1..Len(h)]
    BY <1>3, <1>4
  <2> HIDE DEF list
  <2> QED BY <1>4, <2>1
<1> HIDE DEF list
<1> QED BY <1>2, <1>3, <1>10, <1>12, <1>13, BufferStep

-----------------------------------------------------------------------------
(* Records: joins.                                                         *)

\* What one field of the right record adds to the row.
AddField(d, r, f, key) ==
    IF f \notin DOMAIN r \/ f = Name(key) THEN d
    ELSE Put(d, IF f \in DOMAIN d THEN Suffixed(f) ELSE f, r[f])

\* The recursion over the fields has a solution.
LEMMA CombineSteps ==
  ASSUME NEW l, NEW r, NEW key
  PROVE  \E c : /\ c[0] = heap[l] /\ Combine(l, r, key) = c[Len(FieldOrder)]
                /\ \A i \in 1..Len(FieldOrder) : c[i] = AddField(c[i - 1], heap[r], FieldOrder[i], key)
<1> DEFINE len == Len(FieldOrder)
           Added(d, f) == AddField(d, heap[r], f, key)
           Good(c, n) == c = [i \in 0..n |-> IF i = 0 THEN heap[l]
                                             ELSE Added(c[i - 1], FieldOrder[i])]
           Bad == {n \in 0..len : ~\E c : Good(c, n)}
<1>1. len \in Nat
  BY RecordsAssumption, LenProperties
<1>2. Combine(l, r, key) = (CHOOSE c : Good(c, len))[len]
  BY DEF Combine, AddField
<1> HIDE DEF len, Added
<1>3. \E c : Good(c, len)
  <2> SUFFICES ASSUME Bad # {} PROVE FALSE
    BY <1>1
  <2>1. PICK m \in Bad : \A y \in Bad : m <= y
    <3>1. Bad \subseteq Nat
      <4> HIDE DEF Good
      <4>1. 0..len \subseteq Nat
        BY <1>1
      <4> QED BY <4>1
    <3> HIDE DEF Bad
    <3> QED BY <3>1, LeastNat
  <2>2. m # 0
    <3> DEFINE c == [i \in 0..0 |-> heap[l]]
    <3>1. Good(c, 0)
      OBVIOUS
    <3> QED BY <3>1
  <2>3. m \in 0..len /\ m - 1 \in 0..len /\ m - 1 < m /\ m \in Nat
    BY <1>1, <2>2
  <2>4. PICK c : Good(c, m - 1)
    <3>1. m - 1 \notin Bad
      <4> HIDE DEF Bad
      <4> QED BY <1>1, <2>1, <2>3
    <3> HIDE DEF Good
    <3> QED BY <3>1, <2>3
  <2> DEFINE e == [i \in 0..m |-> IF i = m THEN Added(c[m - 1], FieldOrder[m]) ELSE c[i]]
  <2>5. ASSUME NEW i \in 0..m
        PROVE  e[i] = IF i = 0 THEN heap[l] ELSE Added(e[i - 1], FieldOrder[i])
    <3>1. CASE i = m
      <4>1. m - 1 \in 0..m /\ m - 1 # m /\ m \in 0..m
        BY <1>1, <2>3
      <4>2. e[m - 1] = c[m - 1] /\ e[m] = Added(c[m - 1], FieldOrder[m])
        BY <4>1
      <4> QED BY <3>1, <2>2, <4>2
    <3>2. CASE i # m
      <4>1. i \in 0..(m - 1) /\ (i # 0 => i - 1 \in 0..(m - 1) /\ i - 1 \in 0..m /\ i - 1 # m)
        BY <3>2, <1>1, <2>3
      <4>2. c[i] = IF i = 0 THEN heap[l] ELSE Added(c[i - 1], FieldOrder[i])
        BY <4>1, <2>4
      <4> QED BY <4>1, <4>2, <3>2
    <3> QED BY <3>1, <3>2
  <2>6. Good(e, m)
    BY <2>5
  <2> QED BY <2>6
<1> DEFINE combined == CHOOSE c : Good(c, len)
<1>4. Good(combined, len)
  <2> HIDE DEF Good
  <2> QED BY <1>3
<1>5. Combine(l, r, key) = combined[len]
  BY <1>2
<1> HIDE DEF combined
<1>6. combined[0] = heap[l] /\ \A i \in 1..len : combined[i] = Added(combined[i - 1], FieldOrder[i])
  <2>1. 0 \in 0..len /\ \A i \in 1..len : i \in 0..len /\ i # 0
    BY <1>1
  <2>2. \A i \in 0..len : combined[i] = IF i = 0 THEN heap[l]
                                        ELSE Added(combined[i - 1], FieldOrder[i])
    BY <1>4
  <2> HIDE DEF Good
  <2> QED BY <2>1, <2>2
<1> QED BY <1>5, <1>6 DEF len, Added

\* A row of a join is a dict of the heap's size: every step of the recursion
\* adds one value of the right record.
LEMMA CombineOK ==
  ASSUME NEW size \in Nat, NEW l, NEW r, NEW key,
         DictOK(heap[l], size), DictOK(heap[r], size)
  PROVE  DictOK(Combine(l, r, key), size)
<1> DEFINE len == Len(FieldOrder)
           Added(d, f) == AddField(d, heap[r], f, key)
<1>1. len \in Nat
  BY RecordsAssumption, LenProperties
<1>2. ASSUME NEW d, DictOK(d, size), NEW f PROVE DictOK(Added(d, f), size)
  <2>1. CASE f \notin DOMAIN heap[r] \/ f = Name(key)
    BY <2>1, <1>2 DEF AddField
  <2>2. CASE f \in DOMAIN heap[r] /\ f # Name(key)
    <3>1. heap[r][f] \in Values(size)
      BY <2>2 DEF DictOK
    <3>2. DictOK(Put(d, Suffixed(f), heap[r][f]), size) /\ DictOK(Put(d, f, heap[r][f]), size)
      BY <1>2, <3>1, PutOK
    <3> QED BY <2>2, <3>2 DEF AddField
  <2> QED BY <2>1, <2>2
<1>3. PICK c : /\ c[0] = heap[l] /\ Combine(l, r, key) = c[len]
               /\ \A i \in 1..len : c[i] = Added(c[i - 1], FieldOrder[i])
  BY CombineSteps
<1> HIDE DEF len, Added
<1> DEFINE Off == {i \in 0..len : ~DictOK(c[i], size)}
<1>4. Off = {}
  <2> SUFFICES ASSUME Off # {} PROVE FALSE
    OBVIOUS
  <2>1. PICK m \in Off : \A y \in Off : m <= y
    <3>1. Off \subseteq Nat
      BY <1>1
    <3> HIDE DEF Off
    <3> QED BY <3>1, LeastNat
  <2>2. m # 0
    BY <1>3
  <2>3. m \in 1..len /\ m - 1 \in 0..len /\ m - 1 < m
    BY <1>1, <2>2
  <2>4. DictOK(c[m - 1], size)
    <3>1. m - 1 \notin Off
      <4> HIDE DEF Off
      <4> QED BY <1>1, <2>1, <2>3
    <3> QED BY <3>1, <2>3
  <2> QED BY <2>1, <2>3, <2>4, <1>2, <1>3
<1>5. DictOK(c[len], size)
  BY <1>1, <1>4
<1> QED BY <1>3, <1>5

\* The rows of the left side: a copy of each left record that is kept, or its
\* combination with each match.
LEMMA JoinLeftOK ==
  ASSUME RecInv, NEW b, NEW c, CanRead(b), CanRead(c), NEW how, NEW key
  PROVE  /\ IsList(JoinLeft(buffers[b], buffers[c], how, key))
         /\ \A i \in 1..Len(JoinLeft(buffers[b], buffers[c], how, key)) :
               DictOK(JoinLeft(buffers[b], buffers[c], how, key)[i], Len(heap))
<1> DEFINE n == Len(heap)
           A == 1..n
           left == buffers[b]
           right == buffers[c]
           S == {heap[a] : a \in A} \cup {Combine(x, y, key) : x \in A, y \in A}
           M(i) == Matches(left[i], right, key)
           Pairs(i) == [j \in 1..Len(M(i)) |-> Combine(left[i], M(i)[j], key)]
           Piece(i) == IF M(i) # <<>> THEN Pairs(i)
                       ELSE IF how = "inner" THEN <<>> ELSE <<heap[left[i]]>>
           ss == [i \in 1..Len(left) |-> Piece(i)]
<1>1. /\ n \in Nat /\ Len(left) \in Nat /\ right \in Seq(A)
      /\ \A i \in 1..Len(left) : left[i] \in A
      /\ \A a \in A : DictOK(heap[a], n)
  BY ReadFacts
<1>2. \A d \in S : DictOK(d, n)
  <2>1. \A x, y \in A : DictOK(Combine(x, y, key), n)
    <3> HIDE DEF A, n
    <3> QED BY <1>1, CombineOK
  <2> HIDE DEF A, n
  <2> QED BY <2>1, <1>1
<1>3. JoinLeft(left, right, how, key) = FlattenSeq(ss)
  BY DEF JoinLeft
<1> HIDE DEF n, A, left, right
<1>4. ASSUME NEW i \in 1..Len(left) PROVE Piece(i) \in Seq(S)
  <2>1. left[i] \in A /\ heap[left[i]] \in S
    BY <1>1
  <2>2. M(i) \in Seq(A)
    BY <1>1, ThoseType DEF Matches
  <2> HIDE DEF M
  <2>3. Len(M(i)) \in Nat /\ \A j \in 1..Len(M(i)) : M(i)[j] \in A
    BY <2>2, LenProperties, ElementOfSeq
  <2>4. Pairs(i) \in Seq(S)
    <3>1. Pairs(i) \in [1..Len(M(i)) -> S]
      BY <2>1, <2>3
    <3> HIDE DEF Pairs, S
    <3> QED BY <2>3, <3>1
  <2>5. <<heap[left[i]]>> \in Seq(S) /\ <<>> \in Seq(S)
    <3> HIDE DEF S
    <3> QED BY <2>1
  <2> HIDE DEF Pairs, S
  <2> QED BY <2>4, <2>5
<1> HIDE DEF S, Piece
<1>5. ss \in Seq(Seq(S))
  <2>1. ss \in [1..Len(left) -> Seq(S)]
    BY <1>4
  <2> HIDE DEF ss
  <2> QED BY <1>1, <2>1
<1> HIDE DEF ss
<1> DEFINE rows == JoinLeft(left, right, how, key)
<1>6. rows \in Seq(S)
  BY <1>3, <1>5, Flattened
<1> HIDE DEF rows
<1>7. IsList(rows) /\ \A i \in 1..Len(rows) : DictOK(rows[i], n)
  BY <1>2, <1>6, LenProperties, ElementOfSeq DEF IsList
<1> QED BY <1>7 DEF rows, left, right, n

\* What an outer join adds are records of the right side.
LEMMA UnmatchedOK ==
  ASSUME NEW S, NEW left, NEW right \in Seq(S), NEW key
  PROVE  Unmatched(left, right, key) \in Seq(S)
<1> DEFINE Key(j) == KeyOf(right[j], key)
           first == {j \in 1..Len(right) : \A i \in 1..(j - 1) : Key(i) # Key(j)}
           alone == {j \in first : Key(j) # Missing /\ Matches(right[j], left, key) = <<>>}
           With(k) == Those(right, {i \in 1..Len(right) : Key(i) = k})
           ss == [j \in 1..Len(right) |-> IF j \in alone THEN With(Key(j)) ELSE <<>>]
<1>1. Unmatched(left, right, key) = FlattenSeq(ss) \o With(Missing)
  BY DEF Unmatched
<1>2. ASSUME NEW k PROVE With(k) \in Seq(S)
  BY ThoseType
<1>3. Len(right) \in Nat
  BY LenProperties
<1> HIDE DEF alone, With, Key
<1>4. ss \in Seq(Seq(S))
  <2>1. ss \in [1..Len(right) -> Seq(S)]
    BY <1>2
  <2> HIDE DEF ss
  <2> QED BY <1>3, <2>1
<1> HIDE DEF ss
<1>5. FlattenSeq(ss) \in Seq(S) /\ With(Missing) \in Seq(S)
  BY <1>2, <1>4, Flattened
<1> QED BY <1>1, <1>5, ConcatProperties

LEMMA JoinStep ==
  ASSUME RecInv, NEW b, NEW c, NEW how, NEW key, Join(b, c, how, key)
  PROVE  RecInv' /\ Extends(heap', heap)
<1> DEFINE n == Len(heap)
           rows == JoinLeft(buffers[b], buffers[c], how, key)
           u == Unmatched(buffers[b], buffers[c], key)
           others == [i \in 1..Len(u) |-> heap[u[i]]]
           rest == IF how # "outer" THEN <<>> ELSE others
           dicts == rows \o rest
<1>1. /\ CanRead(b) /\ CanRead(c)
      /\ Fresh([op |-> "join", how |-> how, key |-> key], <<b, c>>, dicts)
  BY DEF Join
<1>2. /\ n \in Nat /\ \A a \in 1..n : DictOK(heap[a], n)
      /\ buffers[c] \in Seq(1..n)
  BY <1>1, ReadFacts
<1>3. u \in Seq(1..n)
  BY <1>2, UnmatchedOK
<1>4. IsList(rows) /\ \A i \in 1..Len(rows) : DictOK(rows[i], n)
  BY <1>1, JoinLeftOK
<1> HIDE DEF u, rows, n
<1>5. IsList(others) /\ Len(others) = Len(u) /\ \A i \in 1..Len(others) : DictOK(others[i], n)
  <2>1. Len(u) \in Nat /\ \A i \in 1..Len(u) : u[i] \in 1..n
    BY <1>3, LenProperties, ElementOfSeq
  <2> QED BY <2>1, <1>2 DEF IsList
<1>6. IsList(rest) /\ \A i \in 1..Len(rest) : DictOK(rest[i], n)
  <2>1. IsList(<<>>) /\ Len(<<>>) = 0
    BY DEF IsList
  <2> HIDE DEF others
  <2> QED BY <2>1, <1>5
<1> HIDE DEF rest
<1>7. /\ IsList(dicts) /\ Len(dicts) = Len(rows) + Len(rest)
      /\ \A i \in 1..Len(rows) : dicts[i] = rows[i]
      /\ \A i \in 1..Len(rest) : dicts[Len(rows) + i] = rest[i]
  BY <1>4, <1>6, Joined
<1>8. Len(rows) \in Nat /\ Len(rest) \in Nat
  BY <1>4, <1>6 DEF IsList
<1> HIDE DEF dicts
<1>9. ASSUME NEW i \in 1..Len(dicts) PROVE DictOK(dicts[i], n)
  <2>1. CASE i \in 1..Len(rows)
    BY <2>1, <1>4, <1>7
  <2>2. CASE i \notin 1..Len(rows)
    <3>1. i - Len(rows) \in 1..Len(rest) /\ i = Len(rows) + (i - Len(rows))
      BY <2>2, <1>7, <1>8
    <3>2. dicts[i] = rest[i - Len(rows)]
      BY <3>1, <1>7
    <3> QED BY <3>1, <3>2, <1>6
  <2> QED BY <2>1, <2>2
<1> QED BY <1>1, <1>7, <1>9, FreshStep DEF n

-----------------------------------------------------------------------------
LEMMA RecordsStart == RecordsInit => RecInv
<1> SUFFICES ASSUME RecordsInit PROVE RecInv
  OBVIOUS
<1> DEFINE A == 1..Len(Pool)
<1>1. IsList(heap) /\ Closed(heap) /\ heap = Pool
  BY RecordsAssumption DEF RecordsInit, IsList
<1>2. PICK s \in Lists, t \in Lists : buffers = <<s, t>>
  BY DEF RecordsInit
<1>3. s \in Seq(A) /\ t \in Seq(A)
  BY <1>2, RecordsAssumption
<1> HIDE DEF A
<1>4. buffers \in Seq(Seq(A)) /\ Len(buffers) = 2
  BY <1>2, <1>3
<1>5. /\ IsList(made) /\ Len(made) = 2
      /\ IsList(image) /\ Len(image) = 2
      /\ \A b \in 1..2 : image[b] = Snapshot(heap, buffers[b])
  BY <1>1 DEF RecordsInit, IsList
<1>6. BuffersNeverChange
  BY <1>4, <1>5 DEF BuffersNeverChange
<1> QED BY <1>1, <1>4, <1>5, <1>6 DEF RecInv, A

LEMMA RecordsNext == RecInv /\ [RecordsStep]_recordVars => RecInv'
<1> SUFFICES ASSUME RecInv, [RecordsStep]_recordVars PROVE RecInv'
  OBVIOUS
<1>1. CASE RecordsStep
  <2>1. PICK b \in 1..Len(buffers) :
        \/ \E paths : SelectFields(b, paths)
        \/ \E from, to : RenameField(b, from, to)
        \/ \E p : FilterRecords(b, p)
        \/ \E to : ComputeField(b, to)
        \/ \E onMissing : Decrypt(b, onMissing)
        \/ \E c : Concat(b, c) \/ Union(b, c)
        \/ \E c, how, key : Join(b, c, how, key)
    BY <1>1 DEF RecordsStep
  <2> QED BY <2>1, SelectStep, RenameStep, FilterStep, ComputeStep, DecryptStep,
            ConcatStep, JoinStep
<1>2. CASE UNCHANGED recordVars
  BY <1>2 DEF recordVars, RecInv, IsList, Closed, BuffersNeverChange
<1> QED BY <1>1, <1>2

LEMMA RecordsTyped == RecInv => RecordsTypeOK
<1> SUFFICES ASSUME RecInv PROVE RecordsTypeOK
  OBVIOUS
<1>1. \A b \in 1..Len(buffers) : buffers[b] \in Seq(1..Len(heap))
  BY ElementOfSeq DEF RecInv
<1>2. \A b \in 1..Len(buffers) : \A i \in 1..Len(buffers[b]) : buffers[b][i] \in 1..Len(heap)
  BY <1>1, ElementOfSeq
<1> QED BY <1>2 DEF RecInv, RecordsTypeOK

\* Every address in a buffer and every reference in a dict leads to a dict of
\* the heap, and every buffer has its maker and its image, after any number of
\* transform, decrypt and merge nodes on any records.
THEOREM RecordsTypeCorrect == RecordsSpec => []RecordsTypeOK
<1> QED BY RecordsTyped, RecordsStart, RecordsNext, PTL DEF RecordsSpec

\* "Records are never mutated in place" (the contract of the nodes, at
\* src/src/etl_core/nodes/transform.py): whatever the records, the lists the
\* sources return and the number of nodes, what a node has buffered reads the
\* same to every node downstream.
THEOREM RecordsAreNeverMutated == RecordsSpec => []BuffersNeverChange
<1>1. RecInv => BuffersNeverChange
  BY DEF RecInv
<1> QED BY <1>1, RecordsStart, RecordsNext, PTL DEF RecordsSpec

\* Two counters that start and grow alike.
LEMMA SameCount ==
  ASSUME NEW n \in Nat, NEW f \in [0..n -> Nat], NEW g \in [0..n -> Nat], f[0] = g[0],
         \A i \in 1..n : f[i] - f[i - 1] = g[i] - g[i - 1]
  PROVE  \A i \in 0..n : f[i] = g[i]
<1> DEFINE D == {i \in 0..n : f[i] # g[i]}
<1> SUFFICES ASSUME D # {} PROVE FALSE
  OBVIOUS
<1>1. PICK m \in D : \A y \in D : m <= y
  <2>1. D \subseteq Nat
    OBVIOUS
  <2> HIDE DEF D
  <2> QED BY <2>1, LeastNat
<1>2. m \in 0..n /\ f[m] # g[m]
  OBVIOUS
<1>3. m - 1 \in 0..n /\ m \in 1..n /\ m - 1 < m
  BY <1>2
<1>4. m - 1 \notin D
  <2> HIDE DEF D
  <2> QED BY <1>1, <1>3
<1>5. f[m - 1] = g[m - 1]
  BY <1>3, <1>4
<1>6. f[m] \in Nat /\ g[m] \in Nat /\ f[m - 1] \in Nat /\ f[m] - f[m - 1] = g[m] - g[m - 1]
  BY <1>3
<1> QED BY <1>2, <1>5, <1>6

\* Where the elements of the parts of a flattened list are: start[i] is where
\* part i ends.
IsStart(start, ss) ==
    /\ start \in [0..Len(ss) -> Nat] /\ start[0] = 0
    /\ \A i \in 1..Len(ss) : start[i] = start[i - 1] + Len(ss[i])
    /\ Len(FlattenSeq(ss)) = start[Len(ss)]
    /\ \A i \in 1..Len(ss) : \A j \in 1..Len(ss[i]) :
          FlattenSeq(ss)[start[i - 1] + j] = ss[i][j]
    /\ \A k \in 1..Len(FlattenSeq(ss)) :
          \E i \in 1..Len(ss) : \E j \in 1..Len(ss[i]) : k = start[i - 1] + j

LEMMA FlatFacts ==
  ASSUME NEW S, NEW ss \in Seq(Seq(S))
  PROVE  \E start : IsStart(start, ss)
<1> DEFINE len == Len(ss)
<1>1. len \in Nat /\ \A i \in 1..len : ss[i] \in Seq(S) /\ Len(ss[i]) \in Nat
  BY LenProperties, ElementOfSeq
<1>2. PICK pre \in [0..len -> Seq(S)] :
         /\ pre[0] = <<>> /\ FlattenSeq(ss) = pre[len]
         /\ \A i \in 1..len : pre[i] = pre[i - 1] \o ss[i]
  BY FlattenSteps
<1> DEFINE start == [i \in 0..len |-> Len(pre[i])]
<1> HIDE DEF len
<1>3. start \in [0..len -> Nat] /\ start[0] = 0
  <2>1. \A i \in 0..len : Len(pre[i]) \in Nat
    BY <1>2, LenProperties
  <2> QED BY <1>1, <1>2, <2>1
<1>4. ASSUME NEW i \in 1..len
      PROVE  /\ i - 1 \in 0..len /\ start[i - 1] \in Nat /\ start[i] \in Nat
             /\ start[i] = start[i - 1] + Len(ss[i])
             /\ \A j \in 1..start[i - 1] : pre[i][j] = pre[i - 1][j]
             /\ \A j \in 1..Len(ss[i]) : pre[i][start[i - 1] + j] = ss[i][j]
  <2>1. i - 1 \in 0..len /\ i \in 0..len
    BY <1>1
  <2>2. pre[i - 1] \in Seq(S) /\ ss[i] \in Seq(S) /\ pre[i] = pre[i - 1] \o ss[i]
    BY <1>1, <1>2, <2>1
  <2>3. /\ Len(pre[i]) = Len(pre[i - 1]) + Len(ss[i])
        /\ \A j \in 1..(Len(pre[i - 1]) + Len(ss[i])) :
              pre[i][j] = IF j <= Len(pre[i - 1]) THEN pre[i - 1][j] ELSE ss[i][j - Len(pre[i - 1])]
    <3> DEFINE s == pre[i - 1]
               t == ss[i]
               u == pre[i]
    <3>1. s \in Seq(S) /\ t \in Seq(S) /\ u = s \o t
      BY <2>2
    <3> HIDE DEF s, t, u
    <3>2. /\ Len(u) = Len(s) + Len(t)
          /\ \A j \in 1..(Len(s) + Len(t)) : u[j] = IF j <= Len(s) THEN s[j] ELSE t[j - Len(s)]
      BY ONLY <3>1, ConcatProperties
    <3> QED BY <3>2 DEF s, t, u
  <2>4. start[i - 1] = Len(pre[i - 1]) /\ start[i] = Len(pre[i])
    BY <2>1
  <2>5. start[i - 1] \in Nat /\ start[i] \in Nat
    <3> HIDE DEF start
    <3> QED BY <2>1, <1>3
  <2> DEFINE a == start[i - 1]
             l == Len(ss[i])
  <2>6. /\ a \in Nat /\ l \in Nat /\ start[i] = a + l
        /\ \A j \in 1..(a + l) : pre[i][j] = IF j <= a THEN pre[i - 1][j] ELSE ss[i][j - a]
    BY <1>1, <2>3, <2>4, <2>5
  <2> HIDE DEF a, l
  <2>7. \A j \in 1..a : pre[i][j] = pre[i - 1][j]
    BY <2>6
  <2>8. ASSUME NEW j \in 1..l PROVE pre[i][a + j] = ss[i][j]
    <3> DEFINE k == a + j
    <3>1. k \in 1..(a + l) /\ ~(k <= a) /\ k - a = j
      BY <2>6
    <3> HIDE DEF k
    <3>2. pre[i][k] = ss[i][k - a]
      BY <3>1, <2>6
    <3> QED BY <3>1, <3>2 DEF k
  <2> HIDE DEF start
  <2> QED BY <2>1, <2>5, <2>6, <2>7, <2>8 DEF a, l
<1>5. \A i \in 0..len : Len(pre[i]) = start[i] /\ start[i] \in Nat
  BY <1>3
<1> HIDE DEF start
<1> DEFINE Placed(m) ==
             /\ \A i \in 1..m : \A j \in 1..Len(ss[i]) :
                   start[i - 1] + j \in 1..start[m] /\ pre[m][start[i - 1] + j] = ss[i][j]
             /\ \A k \in 1..start[m] : \E i \in 1..m : \E j \in 1..Len(ss[i]) : k = start[i - 1] + j
           Off == {m \in 0..len : ~Placed(m)}
<1>6. Placed(0)
  <2>1. 1..0 = {} /\ 1..start[0] = {}
    BY <1>3
  <2> QED BY <2>1
<1>7. ASSUME NEW m \in 1..len, Placed(m - 1) PROVE Placed(m)
  <2>1. /\ m - 1 \in 0..len /\ start[m - 1] \in Nat /\ start[m] \in Nat /\ Len(ss[m]) \in Nat
        /\ start[m] = start[m - 1] + Len(ss[m])
        /\ \A j \in 1..start[m - 1] : pre[m][j] = pre[m - 1][j]
        /\ \A j \in 1..Len(ss[m]) : pre[m][start[m - 1] + j] = ss[m][j]
    BY <1>1, <1>4
  <2>2. ASSUME NEW i \in 1..m, NEW j \in 1..Len(ss[i])
        PROVE  start[i - 1] + j \in 1..start[m] /\ pre[m][start[i - 1] + j] = ss[i][j]
    <3>1. CASE i = m
      BY <3>1, <2>1
    <3>2. CASE i # m
      <4>1. i \in 1..(m - 1)
        BY <3>2, <1>1
      <4>2. start[i - 1] + j \in 1..start[m - 1] /\ pre[m - 1][start[i - 1] + j] = ss[i][j]
        BY <4>1, <1>7
      <4>3. start[i - 1] + j \in 1..start[m]
        <5> DEFINE k == start[i - 1] + j
        <5>1. k \in 1..start[m - 1]
          BY <4>2
        <5> HIDE DEF k
        <5>2. k \in 1..start[m]
          BY <5>1, <2>1
        <5> QED BY <5>2 DEF k
      <4>4. \A q \in 1..start[m - 1] : pre[m][q] = pre[m - 1][q]
        BY <2>1
      <4>5. pre[m][start[i - 1] + j] = pre[m - 1][start[i - 1] + j]
        BY ONLY <4>2, <4>4
      <4> QED BY ONLY <4>2, <4>3, <4>5
    <3> QED BY <3>1, <3>2
  <2>3. ASSUME NEW k \in 1..start[m]
        PROVE  \E i \in 1..m : \E j \in 1..Len(ss[i]) : k = start[i - 1] + j
    <3>1. CASE k \in 1..start[m - 1]
      <4>1. PICK i \in 1..(m - 1) : \E j \in 1..Len(ss[i]) : k = start[i - 1] + j
        BY <3>1, <1>7
      <4>2. i \in 1..m
        BY <1>1
      <4> QED BY <4>1, <4>2
    <3>2. CASE k \notin 1..start[m - 1]
      <4>1. k - start[m - 1] \in 1..Len(ss[m]) /\ k = start[m - 1] + (k - start[m - 1])
        BY <3>2, <2>1
      <4>2. m \in 1..m
        BY <1>1
      <4> QED BY <4>1, <4>2
    <3> QED BY <3>1, <3>2
  <2> QED BY <2>2, <2>3
<1>8. Placed(len)
  <2> HIDE DEF Placed
  <2>0. len \in 0..len
    BY <1>1
  <2> SUFFICES ASSUME Off # {} PROVE FALSE
    BY <2>0
  <2>1. PICK m \in Off : \A y \in Off : m <= y
    <3>1. Off \subseteq Nat
      BY <1>1
    <3> HIDE DEF Off
    <3> QED BY <3>1, LeastNat
  <2>2. m # 0
    BY <1>6
  <2>3. m \in 1..len /\ m - 1 \in 0..len /\ m - 1 < m
    BY <2>2, <1>1
  <2>4. m - 1 \notin Off
    <3> HIDE DEF Off
    <3> QED BY <2>1, <2>3, <1>1
  <2> QED BY <2>1, <2>3, <2>4, <1>7
<1>9. Len(FlattenSeq(ss)) = start[len] /\ FlattenSeq(ss) = pre[len]
  BY <1>1, <1>2, <1>5
<1>10. IsStart(start, ss)
  <2>1. /\ start \in [0..Len(ss) -> Nat] /\ start[0] = 0
        /\ \A i \in 1..Len(ss) : start[i] = start[i - 1] + Len(ss[i])
    BY <1>3, <1>4 DEF len
  <2> QED BY <2>1, <1>8, <1>9 DEF IsStart, len
<1> QED BY <1>10

\* How many of a set of numbers come up to i.
Rank(P, i) == Cardinality(P \cap (1..i))

LEMMA RankFacts ==
  ASSUME NEW n \in Nat, NEW P, P \subseteq 1..n
  PROVE  /\ IsFiniteSet(P) /\ Cardinality(P) \in Nat
         /\ \A i \in 0..n : IsFiniteSet(P \cap (1..i)) /\ Rank(P, i) \in Nat
         /\ Rank(P, 0) = 0 /\ Rank(P, n) = Cardinality(P)
         /\ \A i \in 1..n : Rank(P, i) = Rank(P, i - 1) + (IF i \in P THEN 1 ELSE 0)
<1>1. IsFiniteSet(P) /\ Cardinality(P) \in Nat
  <2>1. IsFiniteSet(1..n)
    BY FS_Interval
  <2>2. IsFiniteSet(P)
    BY <2>1, FS_Subset
  <2> QED BY <2>2, FS_CardinalityType
<1>2. ASSUME NEW i \in 0..n PROVE IsFiniteSet(P \cap (1..i)) /\ Rank(P, i) \in Nat
  BY <1>1, FS_Intersection, FS_CardinalityType DEF Rank
<1>3. Rank(P, 0) = 0
  <2>1. P \cap (1..0) = {}
    OBVIOUS
  <2> QED BY <2>1, FS_EmptySet DEF Rank
<1>4. Rank(P, n) = Cardinality(P)
  <2>1. P \cap (1..n) = P
    OBVIOUS
  <2> QED BY <2>1 DEF Rank
<1>5. ASSUME NEW i \in 1..n
      PROVE  Rank(P, i) = Rank(P, i - 1) + (IF i \in P THEN 1 ELSE 0)
  <2>0. i - 1 \in 0..n
    OBVIOUS
  <2>1. IsFiniteSet(P \cap (1..(i - 1))) /\ Rank(P, i - 1) \in Nat
    BY <1>2, <2>0
  <2>2. CASE i \in P
    <3>1. P \cap (1..i) = (P \cap (1..(i - 1))) \cup {i} /\ i \notin P \cap (1..(i - 1))
      BY <2>2
    <3> DEFINE Q == P \cap (1..(i - 1))
    <3>2. IsFiniteSet(Q) /\ i \notin Q /\ P \cap (1..i) = Q \cup {i}
      BY <2>1, <3>1
    <3> HIDE DEF Q
    <3>3. Cardinality(Q \cup {i}) = Cardinality(Q) + 1
      BY <3>2, FS_AddElement
    <3>4. Rank(P, i) = Rank(P, i - 1) + 1
      BY <3>2, <3>3 DEF Rank, Q
    <3> QED BY <2>2, <3>4
  <2>3. CASE i \notin P
    <3>1. P \cap (1..i) = P \cap (1..(i - 1))
      BY <2>3
    <3>2. Rank(P, i) = Rank(P, i - 1)
      BY <3>1 DEF Rank
    <3> QED BY <2>1, <2>3, <3>2
  <2> QED BY <2>2, <2>3
<1> QED BY <1>1, <1>2, <1>3, <1>4, <1>5

\* What is taken from a list stands in the order it had.
LEMMA ThoseFacts ==
  ASSUME NEW S, NEW list \in Seq(S), NEW P, P \subseteq 1..Len(list)
  PROVE  /\ Len(Those(list, P)) = Cardinality(P)
         /\ \A i \in P : /\ Rank(P, i) \in 1..Cardinality(P)
                         /\ Those(list, P)[Rank(P, i)] = list[i]
         /\ \A k \in 1..Cardinality(P) : \E i \in P : k = Rank(P, i)
<1> DEFINE Piece(i) == IF i \in P THEN <<list[i]>> ELSE <<>>
           len == Len(list)
           ss == [i \in 1..len |-> Piece(i)]
           out == Those(list, P)
<1>1. len \in Nat /\ \A i \in 1..len : list[i] \in S
  BY LenProperties, ElementOfSeq
<1>2. \A i \in 1..len : /\ Piece(i) \in Seq(S)
                        /\ i \in P => Len(Piece(i)) = 1 /\ Piece(i)[1] = list[i]
                        /\ i \notin P => Len(Piece(i)) = 0
  BY <1>1
<1>3. out = FlattenSeq(ss)
  BY DEF Those
<1>4. P \subseteq 1..len
  OBVIOUS
<1> HIDE DEF Piece, len
<1>5. /\ ss \in Seq(Seq(S)) /\ Len(ss) = len
      /\ \A i \in 1..len : ss[i] = Piece(i)
  <2>1. ss \in [1..len -> Seq(S)]
    BY <1>2
  <2>2. \A i \in 1..len : ss[i] = Piece(i)
    OBVIOUS
  <2> HIDE DEF ss
  <2> QED BY <1>1, <2>1, <2>2
<1> HIDE DEF ss, out
<1>6. PICK start : IsStart(start, ss)
  BY <1>5, FlatFacts
<1> DEFINE rank == [i \in 0..len |-> Rank(P, i)]
<1>7. /\ Cardinality(P) \in Nat /\ Rank(P, 0) = 0 /\ Rank(P, len) = Cardinality(P)
      /\ \A i \in 0..len : Rank(P, i) \in Nat
      /\ \A i \in 1..len : Rank(P, i) = Rank(P, i - 1) + (IF i \in P THEN 1 ELSE 0)
  BY <1>1, <1>4, RankFacts
<1>8. \A i \in 0..len : start[i] = Rank(P, i)
  <2>1. rank \in [0..len -> Nat] /\ \A i \in 0..len : rank[i] = Rank(P, i)
    BY <1>7
  <2> HIDE DEF rank
  <2>2. start \in [0..len -> Nat] /\ start[0] = 0
    BY <1>5, <1>6 DEF IsStart
  <2>3. rank[0] = 0
    BY <1>1, <1>7, <2>1
  <2>4. ASSUME NEW i \in 1..len PROVE start[i] - start[i - 1] = rank[i] - rank[i - 1]
    <3>1. i \in 0..len /\ i - 1 \in 0..len
      BY <1>1
    <3>2. start[i] = start[i - 1] + Len(Piece(i)) /\ Len(Piece(i)) = IF i \in P THEN 1 ELSE 0
      BY <1>2, <1>5, <1>6 DEF IsStart
    <3>3. start[i] \in Nat /\ start[i - 1] \in Nat /\ rank[i] \in Nat /\ rank[i - 1] \in Nat
      BY <3>1, <2>1, <2>2
    <3>4. rank[i] = rank[i - 1] + (IF i \in P THEN 1 ELSE 0)
      BY <3>1, <2>1, <1>7
    <3> QED BY <3>2, <3>3, <3>4
  <2>5. \A i \in 0..len : start[i] = rank[i]
    BY <1>1, <2>1, <2>2, <2>3, <2>4, SameCount
  <2> QED BY <2>1, <2>5
<1> HIDE DEF rank
<1>9. Len(out) = Cardinality(P)
  BY <1>1, <1>3, <1>5, <1>6, <1>7, <1>8 DEF IsStart
<1>10. ASSUME NEW i \in P PROVE Rank(P, i) \in 1..Cardinality(P) /\ out[Rank(P, i)] = list[i]
  <2>1. i \in 1..len /\ i - 1 \in 0..len /\ i \in 0..len
    BY <1>1, <1>4
  <2>2. Rank(P, i) = start[i - 1] + 1 /\ start[i - 1] \in Nat
    BY <2>1, <1>7, <1>8
  <2>3. ss[i] = Piece(i) /\ Len(Piece(i)) = 1 /\ Piece(i)[1] = list[i]
    BY <2>1, <1>2, <1>5
  <2>4. out[start[i - 1] + 1] = ss[i][1]
    <3>1. 1 \in 1..Len(ss[i])
      BY <2>3
    <3> QED BY <2>1, <3>1, <1>3, <1>5, <1>6 DEF IsStart
  <2>5. Rank(P, i) <= Cardinality(P)
    <3>1. IsFiniteSet(P)
      BY <1>1, <1>4, RankFacts
    <3> QED BY <3>1, FS_Intersection DEF Rank
  <2> QED BY <2>2, <2>3, <2>4, <2>5, <1>7
<1>11. ASSUME NEW k \in 1..Cardinality(P) PROVE \E i \in P : k = Rank(P, i)
  <2>1. PICK i \in 1..len : \E j \in 1..Len(ss[i]) : k = start[i - 1] + j
    <3>1. k \in 1..Len(FlattenSeq(ss))
      BY <1>3, <1>9
    <3> QED BY <3>1, <1>5, <1>6 DEF IsStart
  <2>2. PICK j \in 1..Len(ss[i]) : k = start[i - 1] + j
    BY <2>1
  <2>3. i \in P /\ j = 1
    <3>1. Len(ss[i]) = IF i \in P THEN 1 ELSE 0
      BY <1>2, <1>5
    <3> QED BY <3>1
  <2>4. i \in 0..len /\ i - 1 \in 0..len
    BY <1>1
  <2> QED BY <2>2, <2>3, <2>4, <1>7, <1>8
<1> QED BY <1>9, <1>10, <1>11 DEF out, len

LEMMA SameSize ==
  ASSUME NEW S, IsFiniteSet(S), NEW T, NEW f \in [S -> T],
         \A x, y \in S : f[x] = f[y] => x = y,
         \A z \in T : \E x \in S : f[x] = z
  PROVE  IsFiniteSet(T) /\ Cardinality(T) = Cardinality(S)
<1>1. f \in Bijection(S, T)
  BY DEF Bijection, Injection, Surjection, IsInjective
<1>2. ExistsBijection(S, T)
  BY <1>1 DEF ExistsBijection
<1> QED BY <1>2, FS_Bijection

-----------------------------------------------------------------------------
(* Records: unions.                                                        *)

LEMMA UnionRight ==
  ASSUME NEW S, NEW all \in Seq(S)
  PROVE  UnionIsRight(heap, UnionOf(all), all)
<1> DEFINE n == Len(all)
           C(a) == Contents(heap, a)
           first == {i \in 1..n : \A j \in 1..(i - 1) : C(all[j]) # C(all[i])}
           out == UnionOf(all)
           T == {C(all[i]) : i \in 1..n}
           c == [i \in first |-> C(all[i])]
<1>1. n \in Nat
  BY LenProperties
<1>2. out = Those(all, first)
  BY DEF UnionOf
<1>3. first \subseteq 1..n
  OBVIOUS
<1>4. /\ Len(out) = Cardinality(first) /\ Cardinality(first) \in Nat /\ IsFiniteSet(first)
      /\ \A i \in first : Rank(first, i) \in 1..Len(out) /\ out[Rank(first, i)] = all[i]
      /\ \A k \in 1..Len(out) : \E i \in first : k = Rank(first, i)
  <2> HIDE DEF first
  <2>1. Cardinality(first) \in Nat /\ IsFiniteSet(first)
    BY <1>1, <1>3, RankFacts
  <2>2. /\ Len(out) = Cardinality(first)
        /\ \A i \in first : Rank(first, i) \in 1..Cardinality(first) /\ out[Rank(first, i)] = all[i]
        /\ \A k \in 1..Cardinality(first) : \E i \in first : k = Rank(first, i)
    <3>1. /\ Len(Those(all, first)) = Cardinality(first)
          /\ \A i \in first : /\ Rank(first, i) \in 1..Cardinality(first)
                             /\ Those(all, first)[Rank(first, i)] = all[i]
          /\ \A k \in 1..Cardinality(first) : \E i \in first : k = Rank(first, i)
      BY ONLY <1>3, all \in Seq(S), ThoseFacts, Zenon
    <3> QED BY <1>2, <3>1, Zenon
  <2> QED BY <2>1, <2>2
<1> HIDE DEF out
<1>5. ASSUME NEW i \in 1..n PROVE \E j \in first : C(all[j]) = C(all[i])
  <2> DEFINE E == {j \in 1..n : C(all[j]) = C(all[i])}
  <2>1. E \subseteq Nat /\ E # {}
    BY <1>1
  <2>2. PICK j \in E : \A k \in E : j <= k
    <3> HIDE DEF E
    <3> QED BY <2>1, LeastNat
  <2>3. j \in 1..n /\ C(all[j]) = C(all[i])
    OBVIOUS
  <2>4. ASSUME NEW k \in 1..(j - 1) PROVE C(all[k]) # C(all[j])
    <3>1. k \in 1..n /\ k < j /\ k \in Nat /\ j \in Nat
      BY <1>1, <2>3
    <3>2. k \notin E
      <4> HIDE DEF E
      <4> QED BY <2>2, <3>1
    <3> QED BY <2>3, <3>1, <3>2
  <2> HIDE DEF C
  <2> QED BY <2>3, <2>4
<1>6. ASSUME NEW i \in first, NEW j \in first, C(all[i]) = C(all[j]) PROVE i = j
  <2> HIDE DEF C
  <2>1. i \in 1..n /\ j \in 1..n
    OBVIOUS
  <2>2. i < j => i \in 1..(j - 1)
    BY <1>1, <2>1
  <2>3. j < i => j \in 1..(i - 1)
    BY <1>1, <2>1
  <2> QED BY <2>1, <2>2, <2>3, <1>1, <1>6
<1> HIDE DEF first
<1>7. c \in [first -> T] /\ \A i \in first : c[i] = C(all[i])
  BY <1>3
<1>8. \A z \in T : \E i \in first : c[i] = z
  <2> HIDE DEF c, C
  <2> QED BY <1>5, <1>7
<1> HIDE DEF c
<1>9. Cardinality(T) = Cardinality(first)
  <2> HIDE DEF T, C
  <2> QED BY <1>4, <1>6, <1>7, <1>8, SameSize
<1>10. Range(Snapshot(heap, all)) = T
  BY DEF Snapshot, Range
<1>11. Range(Snapshot(heap, out)) = T
  <2>1. Range(Snapshot(heap, out)) = {C(out[k]) : k \in 1..Len(out)}
    BY DEF Snapshot, Range
  <2> HIDE DEF C
  <2>2. ASSUME NEW k \in 1..Len(out) PROVE C(out[k]) \in T
    BY <1>3, <1>4
  <2>3. ASSUME NEW i \in 1..n PROVE \E k \in 1..Len(out) : C(out[k]) = C(all[i])
    BY <1>4, <1>5
  <2> QED BY <2>1, <2>2, <2>3
<1> HIDE DEF T
<1> QED BY <1>4, <1>9, <1>10, <1>11 DEF UnionIsRight, out

-----------------------------------------------------------------------------
(* Records: decryption.                                                    *)

\* A path of one field, and of two.
LEMMA OnePath ==
  ASSUME NEW h, NEW a \in Nat, a > 0, NEW f
  PROVE  GetPath(h, a, <<f>>) = IF f \in DOMAIN h[a] THEN h[a][f] ELSE Missing
<1>1. IsRef(Ref(a)) /\ Dict(Ref(a)) = a
  BY DEF IsRef, Ref, Dict
<1>2. <<f>>[1] = f /\ Len(<<f>>) = 1
  OBVIOUS
<1>3. Field(h, Ref(a), f) = IF f \in DOMAIN h[a] THEN h[a][f] ELSE Missing
  BY <1>1 DEF Field
<1> QED BY <1>2, <1>3 DEF GetPath

LEMMA TwoPath ==
  ASSUME NEW h, NEW a \in Nat, a > 0, NEW f, NEW g
  PROVE  GetPath(h, a, <<f, g>>) = Field(h, GetPath(h, a, <<f>>), g)
<1>1. <<f>>[1] = f /\ Len(<<f>>) = 1 /\ <<f, g>>[1] = f /\ <<f, g>>[2] = g /\ Len(<<f, g>>) = 2
  OBVIOUS
<1>2. GetPath(h, a, <<f>>) = Field(h, Ref(a), f)
  BY <1>1 DEF GetPath
<1>3. GetPath(h, a, <<f, g>>) = Field(h, Field(h, Ref(a), f), g)
  BY <1>1 DEF GetPath
<1> QED BY <1>2, <1>3

LEMMA DecryptRight ==
  ASSUME RecInv, NEW b, CanRead(b), NEW h, DecryptHeap(b, h)
  PROVE  DecryptIsRight(h, [i \in 1..Len(buffers[b]) |-> Len(heap) + i], buffers[b])
<1> DEFINE n == Len(heap)
           len == Len(buffers[b])
           L(i) == buffers[b][i]
           out == [i \in 1..len |-> n + i]
<1>1. /\ \A a \in 1..n : h[a] = heap[a]
      /\ \A i \in 1..len : h[n + i] = IF Nests(L(i)) THEN Put(heap[L(i)], "n", Ref(n + len + i))
                                      ELSE heap[L(i)]
      /\ \A i \in 1..len : h[n + len + i] = Plain(Inner(L(i)))
  BY DEF DecryptHeap
<1>2. /\ n \in Nat /\ len \in Nat
      /\ \A a \in 1..n : DictOK(heap[a], n)
      /\ \A i \in 1..len : L(i) \in 1..n
  BY ReadFacts
<1>3. Len(out) = len /\ \A i \in 1..len : out[i] = n + i
  BY <1>2
<1> HIDE DEF n, len, L, out
<1>4. ASSUME NEW i \in 1..len
      PROVE  /\ DOMAIN h[n + i] = DOMAIN h[L(i)]
             /\ \A path \in DOMAIN Contents(h, n + i) :
                   LET x == GetPath(h, L(i), path) IN
                   Contents(h, n + i)[path] = IF path = <<"n", "s">> /\ x < 0 THEN -x
                                              ELSE IF IsRef(x) THEN 100 ELSE x
  <2> DEFINE a == L(i)
             c == n + i
             e == n + len + i
             d == heap[a]
  <2>1. a \in Nat /\ a > 0 /\ c \in Nat /\ c > 0 /\ e \in Nat /\ e > 0 /\ a \in 1..n
    BY <1>2
  <2>2. h[a] = d /\ h[c] = (IF Nests(a) THEN Put(d, "n", Ref(e)) ELSE d) /\ h[e] = Plain(Inner(a))
    BY <1>1, <2>1
  <2>3. Nests(a) <=> "n" \in DOMAIN d /\ IsRef(d["n"])
    BY DEF Nests
  <2>4. DictOK(d, n)
    BY <1>2, <2>1
  <2> HIDE DEF a, c, e, d
  <2>5. DOMAIN h[c] = DOMAIN d /\ \A f \in DOMAIN d : f # "n" \/ ~Nests(a) => h[c][f] = d[f]
    BY <2>2, <2>3 DEF Put
  <2>6. ASSUME NEW f \in DOMAIN d, f # "n" \/ ~Nests(a)
        PROVE  /\ GetPath(h, c, <<f>>) = GetPath(h, a, <<f>>)
               /\ GetPath(h, c, <<f, "s">>) = GetPath(h, a, <<f, "s">>)
    <3>1. GetPath(h, c, <<f>>) = GetPath(h, a, <<f>>)
      <4>1. GetPath(h, c, <<f>>) = IF f \in DOMAIN h[c] THEN h[c][f] ELSE Missing
        BY <2>1, OnePath
      <4>2. GetPath(h, a, <<f>>) = IF f \in DOMAIN h[a] THEN h[a][f] ELSE Missing
        BY <2>1, OnePath
      <4> QED BY <4>1, <4>2, <2>2, <2>5, <2>6
    <3>2. GetPath(h, c, <<f, "s">>) = Field(h, GetPath(h, c, <<f>>), "s")
      BY <2>1, TwoPath
    <3>3. GetPath(h, a, <<f, "s">>) = Field(h, GetPath(h, a, <<f>>), "s")
      BY <2>1, TwoPath
    <3> QED BY <3>1, <3>2, <3>3
  <2>7. ASSUME Nests(a)
        PROVE  LET x == GetPath(h, a, <<"n", "s">>)
               IN  /\ GetPath(h, c, <<"n">>) = Ref(e) /\ IsRef(Ref(e))
                   /\ IsRef(GetPath(h, a, <<"n">>))
                   /\ GetPath(h, c, <<"n", "s">>) = IF x < 0 THEN -x ELSE x
    <3>1. h[c]["n"] = Ref(e) /\ "n" \in DOMAIN h[c]
      BY <2>2, <2>3, <2>7 DEF Put
    <3>2. GetPath(h, c, <<"n">>) = Ref(e)
      BY <3>1, <2>1, OnePath
    <3>3. IsRef(Ref(e)) /\ Dict(Ref(e)) = e
      BY <2>1 DEF IsRef, Ref, Dict
    <3>4. GetPath(h, a, <<"n">>) = d["n"] /\ IsRef(d["n"])
      BY <2>1, <2>2, <2>3, <2>7, OnePath
    <3>5. d["n"] \in Values(n)
      BY <2>3, <2>4, <2>7 DEF DictOK
    <3>6. Dict(d["n"]) \in 1..n
      BY <3>4, <3>5, <1>2, ValueFacts
    <3> DEFINE k == heap[Dict(d["n"])]
    <3>7. h[Dict(d["n"])] = k /\ Inner(a) = k
      BY <3>6, <1>1, <2>7 DEF Inner, d
    <3> HIDE DEF k
    <3>8. GetPath(h, a, <<"n", "s">>) = IF "s" \in DOMAIN k THEN k["s"] ELSE Missing
      <4>1. GetPath(h, a, <<"n", "s">>) = Field(h, d["n"], "s")
        <5>1. GetPath(h, a, <<"n", "s">>) = Field(h, GetPath(h, a, <<"n">>), "s")
          BY <2>1, TwoPath
        <5> QED BY <5>1, <3>4
      <4> QED BY <4>1, <3>4, <3>7 DEF Field
    <3>9. GetPath(h, c, <<"n", "s">>) = IF "s" \in DOMAIN Plain(k) THEN Plain(k)["s"] ELSE Missing
      <4>1. GetPath(h, c, <<"n", "s">>) = Field(h, Ref(e), "s")
        <5>1. GetPath(h, c, <<"n", "s">>) = Field(h, GetPath(h, c, <<"n">>), "s")
          BY <2>1, TwoPath
        <5> QED BY <5>1, <3>2
      <4> QED BY <4>1, <3>3, <3>7, <2>2 DEF Field
    <3>10. GetPath(h, c, <<"n", "s">>) = IF GetPath(h, a, <<"n", "s">>) < 0
                                         THEN -GetPath(h, a, <<"n", "s">>)
                                         ELSE GetPath(h, a, <<"n", "s">>)
      <4>1. CASE "s" \in DOMAIN k
        <5>1. "s" \in DOMAIN Plain(k) /\ Plain(k)["s"] = IF k["s"] < 0 THEN -k["s"] ELSE k["s"]
          BY <4>1 DEF Plain
        <5> QED BY <4>1, <5>1, <3>8, <3>9
      <4>2. CASE "s" \notin DOMAIN k
        <5>1. "s" \notin DOMAIN Plain(k)
          BY <4>2 DEF Plain
        <5> QED BY <4>2, <5>1, <3>8, <3>9 DEF Missing
      <4> QED BY <4>1, <4>2
    <3> QED BY <3>2, <3>3, <3>4, <3>10
  <2>8. ASSUME ~Nests(a) PROVE ~(GetPath(h, a, <<"n", "s">>) < 0)
    <3>1. ~IsRef(GetPath(h, a, <<"n">>))
      <4>1. GetPath(h, a, <<"n">>) = IF "n" \in DOMAIN d THEN d["n"] ELSE Missing
        BY <2>1, <2>2, OnePath
      <4> QED BY <4>1, <2>3, <2>8 DEF Missing, IsRef
    <3>2. GetPath(h, a, <<"n", "s">>) = Missing
      <4>1. GetPath(h, a, <<"n", "s">>) = Field(h, GetPath(h, a, <<"n">>), "s")
        BY <2>1, TwoPath
      <4> QED BY <4>1, <3>1 DEF Field
    <3> QED BY <3>2 DEF Missing
  <2>9. \A f : <<f>> # <<"n", "s">> /\ (<<f, "s">> = <<"n", "s">> <=> f = "n")
    OBVIOUS
  <2>10. ASSUME NEW path \in DOMAIN Contents(h, c)
         PROVE  LET x == GetPath(h, a, path) IN
                Contents(h, c)[path] = IF path = <<"n", "s">> /\ x < 0 THEN -x
                                       ELSE IF IsRef(x) THEN 100 ELSE x
    <3> DEFINE x == GetPath(h, a, path)
               y == GetPath(h, c, path)
    <3>1. Contents(h, c)[path] = IF IsRef(y) THEN 100 ELSE y
      BY DEF Contents
    <3>2. PICK f \in DOMAIN d : path = <<f>> \/ path = <<f, "s">>
      BY <2>5 DEF Contents
    <3>3. CASE f # "n" \/ ~Nests(a)
      <4>1. y = x
        BY <3>2, <3>3, <2>6
      <4>2. ~(path = <<"n", "s">> /\ x < 0)
        BY <3>2, <3>3, <2>8, <2>9
      <4> HIDE DEF x, y
      <4>3. Contents(h, c)[path] = IF path = <<"n", "s">> /\ x < 0 THEN -x
                                   ELSE IF IsRef(x) THEN 100 ELSE x
        BY <3>1, <4>1, <4>2
      <4> QED BY <4>3 DEF x
    <3>4. CASE f = "n" /\ Nests(a) /\ path = <<f>>
      <4>1. IsRef(y) /\ IsRef(x) /\ path # <<"n", "s">>
        BY <3>4, <2>7, <2>9
      <4> HIDE DEF x, y
      <4>2. Contents(h, c)[path] = IF path = <<"n", "s">> /\ x < 0 THEN -x
                                   ELSE IF IsRef(x) THEN 100 ELSE x
        BY <3>1, <4>1
      <4> QED BY <4>2 DEF x
    <3>5. CASE f = "n" /\ Nests(a) /\ path = <<f, "s">>
      <4>1. path = <<"n", "s">> /\ y = IF x < 0 THEN -x ELSE x
        BY <3>5, <2>7
      <4>2. x \in Values(n)
        <5>1. Extends(h, heap) /\ Closed(heap) /\ n = Len(heap)
          BY ReadFacts, <1>1 DEF Extends, DecryptHeap, n, IsList
        <5>2. x = GetPath(heap, a, path)
          BY <5>1, <2>1, SamePath
        <5> QED BY <5>1, <5>2, <1>2, <2>1, PathOK
      <4> HIDE DEF x, y
      <4>3. x < 0 => ~IsRef(y)
        BY <4>1, <4>2, <1>2 DEF Values, IsRef, Ref
      <4>4. Contents(h, c)[path] = IF path = <<"n", "s">> /\ x < 0 THEN -x
                                   ELSE IF IsRef(x) THEN 100 ELSE x
        BY <3>1, <4>1, <4>3
      <4> QED BY <4>4 DEF x
    <3> QED BY <3>2, <3>3, <3>4, <3>5
  <2> QED BY <2>2, <2>5, <2>10 DEF a, c
<1> QED BY <1>3, <1>4 DEF DecryptIsRight, out, n, len, L

-----------------------------------------------------------------------------
(* Records: the rows of a join.                                            *)

\* What holds of a row when the fields in done have been added.
RowInv(d, l, r, A, done) ==
    LET names == {Suffixed(f) : f \in A}
    IN  /\ DOMAIN l \subseteq DOMAIN d
        /\ \A f \in DOMAIN l \ names : d[f] = l[f]
        /\ \A f \in done \cap DOMAIN l : Suffixed(f) \in DOMAIN d /\ d[Suffixed(f)] = r[f]
        /\ \A f \in done \ (DOMAIN l \cup names) : f \in DOMAIN d /\ d[f] = r[f]
        /\ \A g \in DOMAIN d : g \in DOMAIN l \/ g \in done \/ g \in names

\* And if the suffixed names are all new.
Place1(f, l) == IF f \in DOMAIN l THEN Suffixed(f) ELSE f
NoClash(l, A) == \A f \in A \cap DOMAIN l : Suffixed(f) \notin DOMAIN l \cup A
RowInv2(d, l, r, done) ==
    /\ DOMAIN d = DOMAIN l \cup {Place1(f, l) : f \in done}
    /\ \A f \in DOMAIN l : d[f] = l[f]
    /\ \A f \in done : d[Place1(f, l)] = r[f]

LEMMA RowStep ==
  ASSUME NEW d, NEW l, NEW r, NEW A, NEW done, done \subseteq A, RowInv(d, l, r, A, done),
         NEW f \in A, f \notin done,
         \A g, h \in A : Suffixed(g) = Suffixed(h) => g = h
  PROVE  RowInv(Put(d, IF f \in DOMAIN d THEN Suffixed(f) ELSE f, r[f]), l, r, A, done \cup {f})
<1> DEFINE t == IF f \in DOMAIN d THEN Suffixed(f) ELSE f
           e == Put(d, t, r[f])
           names == {Suffixed(g) : g \in A}
<1>1. /\ DOMAIN l \subseteq DOMAIN d
      /\ \A g \in DOMAIN l \ names : d[g] = l[g]
      /\ \A g \in done \cap DOMAIN l : Suffixed(g) \in DOMAIN d /\ d[Suffixed(g)] = r[g]
      /\ \A g \in done \ (DOMAIN l \cup names) : g \in DOMAIN d /\ d[g] = r[g]
      /\ \A g \in DOMAIN d : g \in DOMAIN l \/ g \in done \/ g \in names
  BY DEF RowInv
<1>2. /\ DOMAIN e = DOMAIN d \cup {t} /\ e[t] = r[f]
      /\ \A g \in DOMAIN d : g # t => e[g] = d[g]
  <2> HIDE DEF t
  <2> QED BY DEF Put
<1>3. \/ t = Suffixed(f) /\ t \in names /\ f \in DOMAIN d
      \/ t = f /\ f \notin DOMAIN d
  OBVIOUS
<1>4. \A g \in done : Suffixed(g) \in DOMAIN d => Suffixed(g) # t
  BY <1>3
<1> HIDE DEF t, e
<1>6. \A g \in DOMAIN l \ names : e[g] = l[g]
  BY <1>1, <1>2, <1>3
<1>7. \A g \in (done \cup {f}) \cap DOMAIN l : Suffixed(g) \in DOMAIN e /\ e[Suffixed(g)] = r[g]
  BY <1>1, <1>2, <1>3, <1>4
<1>8. \A g \in (done \cup {f}) \ (DOMAIN l \cup names) : g \in DOMAIN e /\ e[g] = r[g]
  BY <1>1, <1>2, <1>3
<1>9. \A g \in DOMAIN e : g \in DOMAIN l \/ g \in done \cup {f} \/ g \in names
  BY <1>1, <1>2, <1>3
<1>10. RowInv(e, l, r, A, done \cup {f})
  BY <1>1, <1>2, <1>6, <1>7, <1>8, <1>9 DEF RowInv
<1> QED BY <1>10 DEF e, t

LEMMA RowStep2 ==
  ASSUME NEW d, NEW l, NEW r, NEW A, NEW done, done \subseteq A, RowInv2(d, l, r, done),
         NoClash(l, A), NEW f \in A, f \notin done,
         \A g, h \in A : Suffixed(g) = Suffixed(h) => g = h
  PROVE  RowInv2(Put(d, IF f \in DOMAIN d THEN Suffixed(f) ELSE f, r[f]), l, r, done \cup {f})
<1> DEFINE t == IF f \in DOMAIN d THEN Suffixed(f) ELSE f
           e == Put(d, t, r[f])
<1>1. /\ DOMAIN d = DOMAIN l \cup {Place1(g, l) : g \in done}
      /\ \A g \in DOMAIN l : d[g] = l[g]
      /\ \A g \in done : d[Place1(g, l)] = r[g]
  BY DEF RowInv2
<1>2. \A g \in done : Place1(g, l) # f /\ Place1(g, l) # Place1(f, l)
  BY DEF Place1, NoClash
<1>3. t = Place1(f, l)
  <2>1. CASE f \in DOMAIN l
    BY <2>1, <1>1 DEF Place1
  <2>2. CASE f \notin DOMAIN l
    BY <2>2, <1>1, <1>2 DEF Place1
  <2> QED BY <2>1, <2>2
<1>4. t \notin DOMAIN l
  BY <1>3 DEF Place1, NoClash
<1>5. /\ DOMAIN e = DOMAIN d \cup {t} /\ e[t] = r[f]
      /\ \A g \in DOMAIN d : g # t => e[g] = d[g]
  <2> HIDE DEF t
  <2> QED BY DEF Put
<1> HIDE DEF t, e
<1>6. DOMAIN e = DOMAIN l \cup {Place1(g, l) : g \in done \cup {f}}
  BY <1>1, <1>3, <1>5
<1>7. \A g \in DOMAIN l : e[g] = l[g]
  BY <1>1, <1>4, <1>5
<1>8. \A g \in done \cup {f} : e[Place1(g, l)] = r[g]
  BY <1>1, <1>2, <1>3, <1>5
<1>9. RowInv2(e, l, r, done \cup {f})
  BY <1>6, <1>7, <1>8 DEF RowInv2
<1> QED BY <1>9 DEF e, t

LEMMA RowRight ==
  ASSUME NEW x, NEW y, NEW key, DOMAIN heap[y] \subseteq Range(FieldOrder)
  PROVE  RowOf(Combine(x, y, key), heap[x], heap[y], key)
<1> DEFINE l == heap[x]
           r == heap[y]
           A == DOMAIN r \ {Name(key)}
           len == Len(FieldOrder)
           Done(i) == {FieldOrder[k] : k \in 1..i} \cap A
<1>1. /\ len \in Nat /\ DOMAIN FieldOrder = 1..len
      /\ \A i, j \in 1..len : Suffixed(FieldOrder[i]) = Suffixed(FieldOrder[j]) => i = j
  BY RecordsAssumption, LenProperties
<1>2. A \subseteq {FieldOrder[k] : k \in 1..len}
  BY <1>1 DEF Range
<1>3. \A g, h \in A : Suffixed(g) = Suffixed(h) => g = h
  <2>1. ASSUME NEW g \in A, NEW h \in A, Suffixed(g) = Suffixed(h) PROVE g = h
    <3>1. PICK i \in 1..len : g = FieldOrder[i]
      BY <1>2
    <3>2. PICK j \in 1..len : h = FieldOrder[j]
      BY <1>2
    <3> QED BY <3>1, <3>2, <2>1, <1>1
  <2> QED BY <2>1
<1>4. PICK c : /\ c[0] = l /\ Combine(x, y, key) = c[len]
               /\ \A i \in 1..len : c[i] = AddField(c[i - 1], r, FieldOrder[i], key)
  BY CombineSteps
<1>5. \A f : f \in A <=> f \in DOMAIN r /\ f # Name(key)
  OBVIOUS
<1> HIDE DEF len, l, r, A
<1> DEFINE Inv(i) == RowInv(c[i], l, r, A, Done(i)) /\ (NoClash(l, A) => RowInv2(c[i], l, r, Done(i)))
           Off == {i \in 0..len : ~Inv(i)}
<1>6. Inv(0)
  <2>1. Done(0) = {}
    OBVIOUS
  <2> HIDE DEF Done
  <2> QED BY <2>1, <1>4 DEF RowInv, RowInv2
<1>7. ASSUME NEW i \in 1..len, Inv(i - 1) PROVE Inv(i)
  <2> DEFINE f == FieldOrder[i]
             done == Done(i - 1)
             d == c[i - 1]
  <2>1. c[i] = AddField(d, r, f, key)
    BY <1>4
  <2>2. {FieldOrder[k] : k \in 1..i} = {FieldOrder[k] : k \in 1..(i - 1)} \cup {f}
    <3>1. \A k \in 1..i : k \in 1..(i - 1) \/ k = i
      BY <1>1
    <3>2. \A k \in 1..(i - 1) : k \in 1..i
      BY <1>1
    <3>3. i \in 1..i
      BY <1>1
    <3> QED BY <3>1, <3>2, <3>3
  <2>3. CASE f \notin A
    <3>1. c[i] = d /\ Done(i) = Done(i - 1)
      BY <2>1, <2>2, <2>3, <1>5 DEF AddField
    <3> QED BY <3>1, <1>7
  <2>4. CASE f \in A
    <3>1. c[i] = Put(d, IF f \in DOMAIN d THEN Suffixed(f) ELSE f, r[f])
      BY <2>1, <2>4, <1>5 DEF AddField
    <3>2. Done(i) = done \cup {f} /\ done \subseteq A
      BY <2>2, <2>4
    <3>3. f \notin done
      <4>1. ASSUME NEW k \in 1..(i - 1) PROVE FieldOrder[k] # f
        <5>1. k \in 1..len /\ k # i
          BY <1>1
        <5> QED BY <5>1, <1>1
      <4> QED BY <4>1
    <3>4. RowInv(d, l, r, A, done) /\ (NoClash(l, A) => RowInv2(d, l, r, done))
      BY <1>7
    <3> HIDE DEF f, done, d, Done
    <3>5. RowInv(c[i], l, r, A, done \cup {f})
      BY <3>1, <3>2, <3>3, <3>4, <2>4, <1>3, RowStep
    <3>6. NoClash(l, A) => RowInv2(c[i], l, r, done \cup {f})
      BY <3>1, <3>2, <3>3, <3>4, <2>4, <1>3, RowStep2
    <3> QED BY <3>2, <3>5, <3>6
  <2> QED BY <2>3, <2>4
<1>8. Inv(len)
  <2> HIDE DEF Inv
  <2>0. len \in 0..len
    BY <1>1
  <2> SUFFICES ASSUME Off # {} PROVE FALSE
    BY <2>0
  <2>1. PICK m \in Off : \A z \in Off : m <= z
    <3>1. Off \subseteq Nat
      BY <1>1
    <3> HIDE DEF Off
    <3> QED BY <3>1, LeastNat
  <2>2. m # 0
    BY <1>6
  <2>3. m \in 1..len /\ m - 1 \in 0..len /\ m - 1 < m
    BY <2>2, <1>1
  <2>4. m - 1 \notin Off
    <3> HIDE DEF Off
    <3> QED BY <2>1, <2>3, <1>1
  <2> QED BY <2>1, <2>3, <2>4, <1>7
<1>9. Done(len) = A
  BY <1>2
<1> DEFINE row == Combine(x, y, key)
           clash == {Suffixed(f) : f \in A \cap DOMAIN l} \cap (DOMAIN l \cup A)
           unsafe == IF clash = {} THEN {} ELSE {Suffixed(f) : f \in A}
           place(f) == IF f \in DOMAIN l THEN Suffixed(f) ELSE f
<1>10. RowInv(row, l, r, A, A) /\ (NoClash(l, A) => RowInv2(row, l, r, A))
  BY <1>4, <1>8, <1>9
<1> HIDE DEF Done, row
<1>11. clash = {} <=> NoClash(l, A)
  BY DEF NoClash
<1>12. \A f : Place1(f, l) = place(f)
  BY DEF Place1
<1>13. CASE NoClash(l, A)
  <2>1. /\ DOMAIN row = DOMAIN l \cup {place(f) : f \in A}
        /\ \A f \in DOMAIN l : row[f] = l[f]
        /\ \A f \in A : row[place(f)] = r[f]
    BY <1>10, <1>13 DEF RowInv2, Place1
  <2>2. clash = {} /\ unsafe = {}
    BY <1>11, <1>13
  <2> HIDE DEF clash
  <2> QED BY <2>1, <2>2 DEF RowOf, row, l, r, A, clash
<1>14. CASE ~NoClash(l, A)
  <2> DEFINE names == {Suffixed(f) : f \in A}
  <2>1. clash # {} /\ unsafe = names
    BY <1>11, <1>14
  <2>2. /\ DOMAIN l \subseteq DOMAIN row
        /\ \A f \in DOMAIN l \ names : row[f] = l[f]
        /\ \A f \in A \cap DOMAIN l : Suffixed(f) \in DOMAIN row /\ row[Suffixed(f)] = r[f]
        /\ \A f \in A \ (DOMAIN l \cup names) : f \in DOMAIN row /\ row[f] = r[f]
    BY <1>10 DEF RowInv
  <2>3. \A f \in DOMAIN l \ names : f \in DOMAIN row /\ row[f] = l[f]
    BY <2>2
  <2>4. \A f \in A : f \in DOMAIN l \/ f \notin names =>
            place(f) \in DOMAIN row /\ row[place(f)] = r[f]
    BY <2>2
  <2> QED BY <2>1, <2>3, <2>4 DEF RowOf, row, l, r, A
<1> QED BY <1>13, <1>14

LEMMA DisjointSum ==
  ASSUME NEW S, NEW T, IsFiniteSet(S), IsFiniteSet(T), S \cap T = {}
  PROVE  /\ IsFiniteSet(S \cup T) /\ Cardinality(S \cup T) = Cardinality(S) + Cardinality(T)
         /\ Cardinality(S) \in Nat /\ Cardinality(T) \in Nat
<1>1. Cardinality(S) \in Nat /\ Cardinality(T) \in Nat
  BY FS_CardinalityType
<1>2. /\ IsFiniteSet(S \cup T)
      /\ Cardinality(S \cup T) = Cardinality(S) + Cardinality(T) - Cardinality(S \cap T)
  BY FS_Union
<1>3. Cardinality(S \cap T) = 0
  BY FS_EmptySet
<1> QED BY <1>1, <1>2, <1>3

LEMMA Column ==
  ASSUME NEW i, NEW P, IsFiniteSet(P), NEW T,
         \A j \in P : <<i, j>> \in T, \A q \in T : \E j \in P : q = <<i, j>>
  PROVE  IsFiniteSet(T) /\ Cardinality(T) = Cardinality(P)
<1> DEFINE f == [j \in P |-> <<i, j>>]
<1>1. f \in [P -> T] /\ \A j \in P : f[j] = <<i, j>>
  OBVIOUS
<1>2. \A x, y \in P : f[x] = f[y] => x = y
  OBVIOUS
<1>3. \A z \in T : \E x \in P : f[x] = z
  OBVIOUS
<1> HIDE DEF f
<1> QED BY <1>1, <1>2, <1>3, SameSize

\* What a join finds for one record of the left.
LEMMA MatchFacts ==
  ASSUME NEW S, NEW right \in Seq(S), NEW a, NEW key
  PROVE  LET P == {j \in 1..Len(right) : SameKey(heap, a, right[j], key)}
             m == Matches(a, right, key)
         IN  /\ m \in Seq(S) /\ Len(m) = Cardinality(P)
             /\ IsFiniteSet(P) /\ Cardinality(P) \in Nat
             /\ m = <<>> <=> P = {}
             /\ \A j \in P : Rank(P, j) \in 1..Cardinality(P) /\ m[Rank(P, j)] = right[j]
<1> DEFINE P == {j \in 1..Len(right) : SameKey(heap, a, right[j], key)}
           m == Matches(a, right, key)
<1>1. m = Those(right, P)
  <2>1. P = {j \in 1..Len(right) : KeyOf(a, key) # Missing /\ KeyOf(right[j], key) = KeyOf(a, key)}
    BY DEF SameKey, KeyOf
  <2> HIDE DEF P
  <2> QED BY <2>1 DEF Matches
<1>2. P \subseteq 1..Len(right) /\ Len(right) \in Nat
  BY LenProperties
<1> HIDE DEF P, m
<1>3. m \in Seq(S) /\ Len(m) = Cardinality(P)
  BY <1>1, <1>2, ThoseType, ThoseFacts
<1>4. IsFiniteSet(P) /\ Cardinality(P) \in Nat
  BY <1>2, RankFacts
<1>5. m = <<>> <=> P = {}
  <2>1. m = <<>> <=> Len(m) = 0
    BY <1>3, EmptySeq
  <2>2. Cardinality(P) = 0 <=> P = {}
    BY <1>4, FS_EmptySet
  <2> QED BY <2>1, <2>2, <1>3
<1>6. \A j \in P : Rank(P, j) \in 1..Cardinality(P) /\ m[Rank(P, j)] = right[j]
  BY <1>1, <1>2, ThoseFacts
<1> QED BY <1>3, <1>4, <1>5, <1>6 DEF P, m

\* The rows of one record of the left: how many they are, and which comes
\* where among them.
LEMMA RowsOfOne ==
  ASSUME NEW left, NEW right, Len(left) \in Nat, Len(right) \in Nat, NEW how, NEW key,
         NEW i \in 1..Len(left)
  PROVE  LET P == {j \in 1..Len(right) : SameKey(heap, left[i], right[j], key)}
             R == Rows(heap, left, right, how, key)
             Row == {q \in R : q[1] = i}
         IN  /\ IsFiniteSet(Row)
             /\ P # {} => /\ Cardinality(Row) = Cardinality(P)
                          /\ \A p \in Row : /\ p[2] \in P
                                            /\ IsFiniteSet({q \in Row : q[2] <= p[2]})
                                            /\ Cardinality({q \in Row : q[2] <= p[2]}) = Rank(P, p[2])
             /\ P = {} => /\ Cardinality(Row) = IF how = "inner" THEN 0 ELSE 1
                          /\ \A p \in Row : /\ p[2] = 0 /\ how # "inner"
                                            /\ IsFiniteSet({q \in Row : q[2] <= p[2]})
                                            /\ Cardinality({q \in Row : q[2] <= p[2]}) = 1
<1> DEFINE nr == Len(right)
           P == {j \in 1..nr : SameKey(heap, left[i], right[j], key)}
           R == Rows(heap, left, right, how, key)
           Row == {q \in R : q[1] = i}
           Upto(p) == {q \in Row : q[2] <= p[2]}
<1>1. \A q : q \in R <=> /\ q \in (1..Len(left)) \X (0..nr)
                         /\ IF q[2] # 0 THEN SameKey(heap, left[q[1]], right[q[2]], key)
                            ELSE how # "inner" /\ \A j \in 1..nr : ~SameKey(heap, left[q[1]], right[j], key)
  BY DEF Rows
<1>2. P \subseteq 1..nr /\ IsFiniteSet(P)
  <2>1. P \subseteq 1..nr /\ nr \in Nat
    OBVIOUS
  <2> HIDE DEF P, nr
  <2> QED BY <2>1, RankFacts
<1>3. P # {} => Row = {<<i, j>> : j \in P}
  <2> SUFFICES ASSUME P # {} PROVE Row = {<<i, j>> : j \in P}
    OBVIOUS
  <2>1. ASSUME NEW q \in Row PROVE \E j \in P : q = <<i, j>>
    <3>1. q = <<i, q[2]>> /\ q[2] \in 0..nr
      BY <1>1
    <3>2. q[2] # 0
      BY <1>1
    <3>3. SameKey(heap, left[i], right[q[2]], key)
      BY <1>1, <3>2
    <3> QED BY <3>1, <3>2, <3>3
  <2>2. ASSUME NEW j \in P PROVE <<i, j>> \in Row
    <3>1. j \in 1..nr /\ SameKey(heap, left[i], right[j], key)
      OBVIOUS
    <3>2. <<i, j>> \in (1..Len(left)) \X (0..nr) /\ j # 0
      BY <3>1
    <3>3. <<i, j>>[1] = i /\ <<i, j>>[2] = j
      OBVIOUS
    <3>4. <<i, j>> \in R
      BY <3>1, <3>2, <3>3, <1>1
    <3> QED BY <3>3, <3>4
  <2> HIDE DEF P, Row
  <2> QED BY <2>1, <2>2
<1>4. P = {} => Row = IF how = "inner" THEN {} ELSE {<<i, 0>>}
  <2> SUFFICES ASSUME P = {} PROVE Row = IF how = "inner" THEN {} ELSE {<<i, 0>>}
    OBVIOUS
  <2>1. \A j \in 1..nr : ~SameKey(heap, left[i], right[j], key)
    OBVIOUS
  <2>2. ASSUME NEW q \in Row PROVE q = <<i, 0>> /\ how # "inner"
    <3>1. q = <<i, q[2]>> /\ q[2] \in 0..nr
      BY <1>1
    <3>2. q[2] = 0
      BY <1>1, <2>1, <3>1
    <3> QED BY <1>1, <3>1, <3>2
  <2>3. ASSUME how # "inner" PROVE <<i, 0>> \in Row
    <3>1. <<i, 0>> \in (1..Len(left)) \X (0..nr)
      OBVIOUS
    <3>2. <<i, 0>>[1] = i /\ <<i, 0>>[2] = 0
      OBVIOUS
    <3>3. <<i, 0>> \in R
      BY <3>1, <3>2, <2>1, <2>3, <1>1
    <3> QED BY <3>2, <3>3
  <2> HIDE DEF P, Row
  <2> QED BY <2>2, <2>3
<1>5. \A p \in Row : Upto(p) = {q \in Row : q[2] <= p[2]}
  OBVIOUS
<1> HIDE DEF P, Row, nr
<1>6. ASSUME P # {}
      PROVE  /\ IsFiniteSet(Row) /\ Cardinality(Row) = Cardinality(P)
             /\ \A p \in Row : p[2] \in P /\ IsFiniteSet(Upto(p)) /\ Cardinality(Upto(p)) = Rank(P, p[2])
  <2>1. IsFiniteSet(Row) /\ Cardinality(Row) = Cardinality(P)
    <3>1. (\A j \in P : <<i, j>> \in Row) /\ \A q \in Row : \E j \in P : q = <<i, j>>
      BY <1>3, <1>6
    <3> QED BY ONLY <3>1, <1>2, Column
  <2>2. ASSUME NEW p \in Row
        PROVE  p[2] \in P /\ IsFiniteSet(Upto(p)) /\ Cardinality(Upto(p)) = Rank(P, p[2])
    <3>1. PICK k \in P : p = <<i, k>>
      BY <1>3, <1>6
    <3>2. p[2] = k
      BY <3>1
    <3> DEFINE Q == P \cap (1..k)
    <3>3. \A j \in P : j <= k <=> j \in Q
      BY <1>2
    <3>4. \A j : <<i, j>>[2] = j
      OBVIOUS
    <3>5. (\A j \in Q : <<i, j>> \in Upto(p)) /\ \A q \in Upto(p) : \E j \in Q : q = <<i, j>>
      <4>0. \A j \in Q : j \in P
        OBVIOUS
      <4> HIDE DEF Q
      <4>1. \A q \in Row : \E j \in P : q = <<i, j>>
        BY <1>3, <1>6
      <4>2. \A j \in P : <<i, j>> \in Row
        BY <1>3, <1>6
      <4>3. ASSUME NEW q \in Row, q[2] <= k PROVE \E j \in Q : q = <<i, j>>
        <5>1. PICK j \in P : q = <<i, j>>
          BY <4>1
        <5>2. q[2] = j
          BY <5>1, <3>4
        <5> QED BY <5>1, <5>2, <4>3, <3>3
      <4>4. ASSUME NEW j \in Q PROVE <<i, j>> \in Row /\ <<i, j>>[2] <= k
        BY <4>0, <4>2, <3>3, <3>4
      <4> QED BY <3>2, <4>3, <4>4
    <3>6. IsFiniteSet(Q)
      BY <1>2, FS_Intersection
    <3>7. IsFiniteSet(Upto(p)) /\ Cardinality(Upto(p)) = Cardinality(Q)
      <4> HIDE DEF Upto, Q
      <4> QED BY ONLY <3>5, <3>6, Column
    <3> QED BY <3>2, <3>7 DEF Rank
  <2> QED BY <2>1, <2>2
<1>7. ASSUME P = {}
      PROVE  /\ IsFiniteSet(Row) /\ Cardinality(Row) = IF how = "inner" THEN 0 ELSE 1
             /\ \A p \in Row : /\ p[2] = 0 /\ how # "inner"
                               /\ IsFiniteSet(Upto(p)) /\ Cardinality(Upto(p)) = 1
  <2>1. CASE how = "inner"
    BY <1>4, <1>7, <2>1, FS_EmptySet
  <2>2. CASE how # "inner"
    <3>1. Row = {<<i, 0>>} /\ \A p \in Row : p[2] = 0 /\ Upto(p) = {<<i, 0>>}
      BY <1>4, <1>7, <2>2
    <3> HIDE DEF Upto
    <3>2. IsFiniteSet({<<i, 0>>}) /\ Cardinality({<<i, 0>>}) = 1
      BY FS_Singleton
    <3> QED BY <2>2, <3>1, <3>2
  <2> QED BY <2>1, <2>2
<1> QED BY <1>6, <1>7 DEF P, Row, nr

\* The rows of a join are finitely many, and each has a place among them.
LEMMA PlaceRange ==
  ASSUME NEW h, NEW left, NEW right, Len(left) \in Nat, Len(right) \in Nat, NEW how, NEW key
  PROVE  LET R == Rows(h, left, right, how, key)
         IN  /\ IsFiniteSet(R) /\ Cardinality(R) \in Nat
             /\ \A q \in R : q[1] \in 1..Len(left) /\ q[2] \in 0..Len(right)
             /\ \A p \in R : Place(p, R) \in 1..Cardinality(R)
<1> DEFINE nl == Len(left)
           nr == Len(right)
           R == Rows(h, left, right, how, key)
<1>1. nl \in Nat /\ nr \in Nat /\ R \subseteq (1..nl) \X (0..nr)
  BY DEF Rows
<1> HIDE DEF R, nl, nr
<1>2. IsFiniteSet(R) /\ Cardinality(R) \in Nat
  <2>1. 0 \in Int /\ 1 \in Int /\ nl \in Int /\ nr \in Int
    BY <1>1
  <2>2. IsFiniteSet(1..nl) /\ IsFiniteSet(0..nr)
    BY ONLY <2>1, FS_Interval
  <2>3. IsFiniteSet((1..nl) \X (0..nr))
    BY <2>2, FS_Product
  <2>4. IsFiniteSet(R)
    BY <1>1, <2>3, FS_Subset
  <2> QED BY <2>4, FS_CardinalityType
<1>3. \A q \in R : q[1] \in 1..nl /\ q[2] \in 0..nr
  BY <1>1
<1>4. ASSUME NEW p \in R PROVE Place(p, R) \in 1..Cardinality(R)
  <2> DEFINE U == {q \in R : q[1] < p[1] \/ (q[1] = p[1] /\ q[2] <= p[2])}
  <2>1. p[1] \in Nat /\ p[2] \in Nat
    BY <1>1, <1>3
  <2>2. p \in U /\ U \subseteq R
    BY <2>1
  <2>3. Place(p, R) = Cardinality(U)
    BY DEF Place
  <2> HIDE DEF U
  <2>4. IsFiniteSet(U) /\ Cardinality(U) <= Cardinality(R)
    BY <2>2, <1>2, FS_Subset
  <2>5. Cardinality(U) \in Nat /\ Cardinality(U) # 0
    BY <2>2, <2>4, FS_CardinalityType, FS_EmptySet
  <2> QED BY <2>3, <2>4, <2>5, <1>2
<1> QED BY <1>2, <1>3, <1>4 DEF R, nl, nr

\* The rows come in the order of the pairs they are made of.
LEMMA JoinRows ==
  ASSUME RecInv, NEW b, NEW c, CanRead(b), CanRead(c), FieldsListed(buffers[c]), NEW how, NEW key
  PROVE  LET left == buffers[b]
             right == buffers[c]
             R == Rows(heap, left, right, how, key)
             D == JoinLeft(left, right, how, key)
         IN  /\ IsFiniteSet(R) /\ Cardinality(R) \in Nat /\ Len(D) = Cardinality(R)
             /\ \A p \in R :
                   /\ Place(p, R) \in 1..Cardinality(R)
                   /\ IF p[2] = 0 THEN D[Place(p, R)] = heap[left[p[1]]]
                      ELSE RowOf(D[Place(p, R)], heap[left[p[1]]], heap[right[p[2]]], key)
<1> DEFINE left == buffers[b]
           right == buffers[c]
           nl == Len(left)
           nr == Len(right)
           A == 1..Len(heap)
           R == Rows(heap, left, right, how, key)
           D == JoinLeft(left, right, how, key)
           S == {heap[a] : a \in A} \cup {Combine(x, y, key) : x \in A, y \in A}
           P(i) == {j \in 1..nr : SameKey(heap, left[i], right[j], key)}
           M(i) == Matches(left[i], right, key)
           Pairs(i) == [j \in 1..Len(M(i)) |-> Combine(left[i], M(i)[j], key)]
           Piece(i) == IF M(i) # <<>> THEN Pairs(i)
                       ELSE IF how = "inner" THEN <<>> ELSE <<heap[left[i]]>>
           ss == [i \in 1..nl |-> Piece(i)]
           Row(i) == {q \in R : q[1] = i}
           Upto(i) == {q \in R : q[1] <= i}
<1>1. /\ nl \in Nat /\ nr \in Nat /\ left \in Seq(A) /\ right \in Seq(A)
      /\ \A i \in 1..nl : left[i] \in A
      /\ \A j \in 1..nr : right[j] \in A
  BY ReadFacts
<1>2. \A x \in A, j \in 1..nr : RowOf(Combine(x, right[j], key), heap[x], heap[right[j]], key)
  BY RowRight DEF FieldsListed
<1>3. D = FlattenSeq(ss)
  BY DEF JoinLeft
<1>4. ASSUME NEW i \in 1..nl
      PROVE  /\ IsFiniteSet(Row(i))
             /\ P(i) # {} => /\ Cardinality(Row(i)) = Cardinality(P(i))
                             /\ \A p \in Row(i) :
                                   /\ p[2] \in P(i)
                                   /\ IsFiniteSet({q \in Row(i) : q[2] <= p[2]})
                                   /\ Cardinality({q \in Row(i) : q[2] <= p[2]}) = Rank(P(i), p[2])
             /\ P(i) = {} => /\ Cardinality(Row(i)) = IF how = "inner" THEN 0 ELSE 1
                             /\ \A p \in Row(i) :
                                   /\ p[2] = 0 /\ how # "inner"
                                   /\ IsFiniteSet({q \in Row(i) : q[2] <= p[2]})
                                   /\ Cardinality({q \in Row(i) : q[2] <= p[2]}) = 1
  BY <1>1, RowsOfOne
<1>5. ASSUME NEW i \in 1..nl
      PROVE  /\ M(i) \in Seq(A) /\ Len(M(i)) = Cardinality(P(i))
             /\ Cardinality(P(i)) \in Nat
             /\ M(i) = <<>> <=> P(i) = {}
             /\ \A j \in P(i) : Rank(P(i), j) \in 1..Cardinality(P(i)) /\ M(i)[Rank(P(i), j)] = right[j]
  <2> HIDE DEF A, left, right
  <2> QED BY <1>1, MatchFacts
<1>6. \A i \in 1..nl : \A j \in P(i) : j \in 1..nr
  OBVIOUS
<1>7. /\ IsFiniteSet(R) /\ \A q \in R : q[1] \in 1..nl /\ q[2] \in 0..nr
      /\ \A p \in R : Place(p, R) \in 1..Cardinality(R)
  BY <1>1, PlaceRange
<1> HIDE DEF left, right, nl, nr, A, R, D, P, M
<1>8. ASSUME NEW i \in 1..nl
      PROVE  /\ Piece(i) \in Seq(S) /\ Len(Piece(i)) = Cardinality(Row(i)) /\ Len(Piece(i)) \in Nat
             /\ P(i) # {} => \A j \in P(i) :
                   /\ Rank(P(i), j) \in 1..Len(Piece(i))
                   /\ Piece(i)[Rank(P(i), j)] = Combine(left[i], right[j], key)
             /\ P(i) = {} /\ how # "inner" => Len(Piece(i)) = 1 /\ Piece(i)[1] = heap[left[i]]
  <2>1. left[i] \in A /\ heap[left[i]] \in S
    BY <1>1
  <2>2. Len(M(i)) \in Nat /\ \A j \in 1..Len(M(i)) : M(i)[j] \in A
    BY <1>5, LenProperties, ElementOfSeq
  <2>3. Pairs(i) \in Seq(S) /\ Len(Pairs(i)) = Len(M(i))
    <3>1. Pairs(i) \in [1..Len(M(i)) -> S]
      BY <2>1, <2>2
    <3> HIDE DEF Pairs, S
    <3> QED BY <2>2, <3>1
  <2>4. \A k \in 1..Len(M(i)) : Pairs(i)[k] = Combine(left[i], M(i)[k], key)
    OBVIOUS
  <2> HIDE DEF Pairs, S, Row
  <2>5. CASE P(i) # {}
    <3>1. Piece(i) = Pairs(i)
      BY <1>5, <2>5
    <3>2. Len(Piece(i)) = Cardinality(P(i)) /\ Cardinality(Row(i)) = Cardinality(P(i))
      BY <3>1, <2>3, <1>5, <1>4, <2>5
    <3> HIDE DEF Piece
    <3>3. ASSUME NEW j \in P(i)
          PROVE  /\ Rank(P(i), j) \in 1..Len(Piece(i))
                 /\ Piece(i)[Rank(P(i), j)] = Combine(left[i], right[j], key)
      <4>1. Rank(P(i), j) \in 1..Cardinality(P(i)) /\ M(i)[Rank(P(i), j)] = right[j]
        BY <1>5
      <4>2. Rank(P(i), j) \in 1..Len(M(i))
        BY <4>1, <1>5
      <4> QED BY <4>1, <4>2, <2>4, <3>1, <3>2
    <3> QED BY <2>3, <2>5, <3>1, <3>2, <3>3, <1>5
  <2>6. CASE P(i) = {} /\ how = "inner"
    <3>1. Piece(i) = <<>> /\ Cardinality(Row(i)) = 0
      BY <1>4, <1>5, <2>6
    <3> HIDE DEF Piece
    <3> QED BY <2>6, <3>1, EmptySeq
  <2>7. CASE P(i) = {} /\ how # "inner"
    <3>1. Piece(i) = <<heap[left[i]]>> /\ Cardinality(Row(i)) = 1
      BY <1>4, <1>5, <2>7
    <3> HIDE DEF Piece
    <3> QED BY <2>1, <2>7, <3>1
  <2> QED BY <2>5, <2>6, <2>7
<1> HIDE DEF S, Piece
<1>9. ss \in Seq(Seq(S)) /\ Len(ss) = nl /\ \A i \in 1..nl : ss[i] = Piece(i)
  <2>1. ss \in [1..nl -> Seq(S)]
    BY <1>8
  <2>2. \A i \in 1..nl : ss[i] = Piece(i)
    OBVIOUS
  <2> HIDE DEF ss
  <2> QED BY <1>1, <2>1, <2>2
<1> HIDE DEF ss
<1>10. PICK start : IsStart(start, ss)
  BY <1>9, FlatFacts
<1>11. /\ start \in [0..nl -> Nat] /\ start[0] = 0
       /\ \A i \in 1..nl : start[i] = start[i - 1] + Len(Piece(i))
       /\ Len(D) = start[nl]
       /\ \A i \in 1..nl : \A j \in 1..Len(Piece(i)) : D[start[i - 1] + j] = Piece(i)[j]
  <2>1. /\ start \in [0..nl -> Nat] /\ start[0] = 0
        /\ \A i \in 1..nl : start[i] = start[i - 1] + Len(ss[i])
        /\ Len(D) = start[nl]
        /\ \A i \in 1..nl : \A j \in 1..Len(ss[i]) : D[start[i - 1] + j] = ss[i][j]
    BY <1>3, <1>9, <1>10 DEF IsStart
  <2> QED BY <1>9, <2>1
<1>12. ASSUME NEW i \in 0..nl PROVE IsFiniteSet(Upto(i)) /\ Cardinality(Upto(i)) \in Nat
  <2>1. Upto(i) \subseteq R
    OBVIOUS
  <2> HIDE DEF Upto
  <2>2. IsFiniteSet(Upto(i))
    BY <1>7, <2>1, FS_Subset
  <2> QED BY <2>2, FS_CardinalityType
<1>13. ASSUME NEW i \in 1..nl
       PROVE  /\ i - 1 \in 0..nl /\ Upto(i) = Upto(i - 1) \cup Row(i) /\ Upto(i - 1) \cap Row(i) = {}
              /\ \A q \in R : q[1] < i => q \in Upto(i - 1)
              /\ \A q \in Upto(i - 1) : q[1] < i /\ q[1] # i
  <2>1. i - 1 \in 0..nl
    BY <1>1
  <2>2. \A q \in R : q[1] \in Nat
    BY <1>1, <1>7
  <2> QED BY <1>1, <2>1, <2>2
<1>14. Upto(0) = {} /\ Upto(nl) = R
  BY <1>1, <1>7
<1> HIDE DEF Row, Upto
<1> DEFINE count == [i \in 0..nl |-> Cardinality(Upto(i))]
<1>15. \A i \in 0..nl : start[i] = Cardinality(Upto(i))
  <2>1. count \in [0..nl -> Nat] /\ \A i \in 0..nl : count[i] = Cardinality(Upto(i))
    BY <1>12
  <2> HIDE DEF count
  <2>2. count[0] = 0
    <3>1. 0 \in 0..nl
      BY <1>1
    <3>2. count[0] = Cardinality(Upto(0))
      BY <3>1, <2>1
    <3> QED BY <3>2, <1>14, FS_EmptySet
  <2>3. ASSUME NEW i \in 1..nl PROVE start[i] - start[i - 1] = count[i] - count[i - 1]
    <3>1. i \in 0..nl /\ i - 1 \in 0..nl
      BY <1>1
    <3>2. Cardinality(Upto(i)) = Cardinality(Upto(i - 1)) + Cardinality(Row(i))
      BY <3>1, <1>4, <1>12, <1>13, DisjointSum
    <3>3. start[i] \in Nat /\ start[i - 1] \in Nat /\ count[i] \in Nat /\ count[i - 1] \in Nat
      BY <3>1, <2>1, <1>11
    <3>4. start[i] = start[i - 1] + Len(Piece(i)) /\ Len(Piece(i)) = Cardinality(Row(i))
      BY <1>8, <1>11
    <3>5. count[i] = count[i - 1] + Cardinality(Row(i)) /\ Len(Piece(i)) \in Nat
      BY <3>1, <3>2, <2>1, <1>8
    <3> QED BY <3>3, <3>4, <3>5
  <2>4. \A i \in 0..nl : start[i] = count[i]
    BY <1>1, <1>11, <2>1, <2>2, <2>3, SameCount
  <2> QED BY <2>1, <2>4
<1> HIDE DEF count
<1>16. Len(D) = Cardinality(R) /\ Cardinality(R) \in Nat
  <2>1. nl \in 0..nl
    BY <1>1
  <2> QED BY <2>1, <1>11, <1>12, <1>14, <1>15
<1>17. ASSUME NEW p \in R
       PROVE  /\ Place(p, R) \in 1..Cardinality(R)
              /\ IF p[2] = 0 THEN D[Place(p, R)] = heap[left[p[1]]]
                 ELSE RowOf(D[Place(p, R)], heap[left[p[1]]], heap[right[p[2]]], key)
  <2> DEFINE i == p[1]
             T == {q \in Row(i) : q[2] <= p[2]}
  <2>1. i \in 1..nl /\ i - 1 \in 0..nl /\ p \in Row(i)
    BY <1>1, <1>7 DEF Row
  <2>2. {q \in R : q[1] < p[1] \/ (q[1] = p[1] /\ q[2] <= p[2])} = Upto(i - 1) \cup T
    <3>1. \A q \in R : q \in Row(i) <=> q[1] = i
      BY DEF Row
    <3>2. \A q \in R : q[1] < i <=> q \in Upto(i - 1)
      BY <1>13, <2>1
    <3>3. Upto(i - 1) \subseteq R /\ T \subseteq R
      BY DEF Upto, Row
    <3> QED BY <3>1, <3>2, <3>3
  <2>3. Upto(i - 1) \cap T = {}
    BY <1>13, <2>1
  <2>4. IsFiniteSet(T)
    BY <1>4, <2>1
  <2> HIDE DEF T, i
  <2>5. Place(p, R) = start[i - 1] + Cardinality(T)
    <3>1. Cardinality(Upto(i - 1) \cup T) = Cardinality(Upto(i - 1)) + Cardinality(T)
      BY <2>1, <2>3, <2>4, <1>12, DisjointSum
    <3> QED BY <3>1, <2>1, <2>2, <1>15 DEF Place
  <2>6. Place(p, R) \in 1..Cardinality(R)
    BY <1>7
  <2>7. CASE P(i) # {}
    <3>1. p[2] \in P(i) /\ Cardinality(T) = Rank(P(i), p[2])
      BY <1>4, <2>1, <2>7 DEF T
    <3>2. /\ Cardinality(T) \in 1..Len(Piece(i))
          /\ Piece(i)[Cardinality(T)] = Combine(left[i], right[p[2]], key)
      BY <3>1, <2>1, <2>7, <1>8
    <3>3. D[Place(p, R)] = Combine(left[i], right[p[2]], key)
      <4>1. D[start[i - 1] + Cardinality(T)] = Piece(i)[Cardinality(T)]
        BY ONLY <3>2, <2>1, <1>11
      <4> QED BY ONLY <3>2, <4>1, <2>5
    <3>4. p[2] \in 1..nr /\ p[2] # 0 /\ left[i] \in A
      BY <3>1, <2>1, <1>1, <1>6
    <3> QED BY <2>6, <3>3, <3>4, <1>2 DEF i
  <2>8. CASE P(i) = {}
    <3>1. p[2] = 0 /\ how # "inner" /\ Cardinality(T) = 1
      BY <1>4, <2>1, <2>8 DEF T
    <3>2. Len(Piece(i)) = 1 /\ Piece(i)[1] = heap[left[i]]
      BY <3>1, <2>1, <2>8, <1>8
    <3>3. D[Place(p, R)] = heap[left[i]]
      <4>1. 1 \in 1..Len(Piece(i))
        BY <3>2
      <4>2. D[start[i - 1] + 1] = Piece(i)[1]
        BY ONLY <4>1, <2>1, <1>11
      <4> QED BY ONLY <3>1, <3>2, <4>2, <2>5
    <3> QED BY <2>6, <3>1, <3>3 DEF i
  <2> QED BY <2>7, <2>8
<1> QED BY <1>7, <1>16, <1>17 DEF left, right, R, D

\* What an outer join adds: the records of the right that match nothing.
LEMMA OthersRight ==
  ASSUME NEW S, NEW left \in Seq(S), NEW right \in Seq(S), NEW key
  PROVE  LET u == Unmatched(left, right, key)
             O == Others(heap, left, right, key)
         IN  /\ IsFiniteSet(O) /\ Cardinality(O) \in Nat /\ Len(u) = Cardinality(O)
             /\ \A k \in 1..Len(u) : \E j \in O : u[k] = right[j]
             /\ \A j \in O : \E k \in 1..Len(u) : u[k] = right[j]
<1> DEFINE n == Len(right)
           Key(j) == KeyOf(right[j], key)
           first == {j \in 1..n : \A i \in 1..(j - 1) : Key(i) # Key(j)}
           alone == {j \in first : Key(j) # Missing /\ Matches(right[j], left, key) = <<>>}
           K(k) == {i \in 1..n : Key(i) = k}
           With(k) == Those(right, K(k))
           ss == [j \in 1..n |-> IF j \in alone THEN With(Key(j)) ELSE <<>>]
           u == Unmatched(left, right, key)
           O == Others(heap, left, right, key)
           Upto(m) == {i \in 1..n : \E j \in alone : j <= m /\ Key(i) = Key(j)}
<1>1. u = FlattenSeq(ss) \o With(Missing)
  BY DEF Unmatched
<1>2. n \in Nat
  BY LenProperties
<1>3. ASSUME NEW k
      PROVE  /\ With(k) \in Seq(S) /\ Len(With(k)) = Cardinality(K(k))
             /\ IsFiniteSet(K(k)) /\ Cardinality(K(k)) \in Nat
             /\ \A i \in K(k) : \E j \in 1..Len(With(k)) : With(k)[j] = right[i]
             /\ \A j \in 1..Len(With(k)) : \E i \in K(k) : With(k)[j] = right[i]
  <2>1. K(k) \subseteq 1..n
    OBVIOUS
  <2> HIDE DEF K
  <2>2. IsFiniteSet(K(k)) /\ Cardinality(K(k)) \in Nat
    BY <1>2, <2>1, RankFacts
  <2>3. With(k) \in Seq(S)
    BY ThoseType
  <2>4. /\ Len(With(k)) = Cardinality(K(k))
        /\ \A i \in K(k) : /\ Rank(K(k), i) \in 1..Cardinality(K(k))
                           /\ With(k)[Rank(K(k), i)] = right[i]
        /\ \A j \in 1..Cardinality(K(k)) : \E i \in K(k) : j = Rank(K(k), i)
    BY <2>1, ThoseFacts
  <2> HIDE DEF With
  <2> QED BY <2>2, <2>3, <2>4
<1>4. ASSUME NEW j \in 1..n, Key(j) # Missing
      PROVE  Matches(right[j], left, key) = <<>> <=> j \in O
  <2>1. Matches(right[j], left, key) = <<>>
           <=> {i \in 1..Len(left) : SameKey(heap, right[j], left[i], key)} = {}
    BY MatchFacts
  <2>2. \A i \in 1..Len(left) : SameKey(heap, right[j], left[i], key) <=> SameKey(heap, left[i], right[j], key)
    BY DEF SameKey
  <2> QED BY <2>1, <2>2 DEF Others
<1>5. \A j \in 1..n : Key(j) = Missing => j \in O
  BY DEF Others, SameKey, KeyOf
<1>6. O \subseteq 1..n
  BY DEF Others
<1>7. \A i, j \in 1..n : Key(i) = Key(j) => (i \in O <=> j \in O)
  BY DEF Others, SameKey, KeyOf
<1> HIDE DEF O, Key, u
<1>8. ASSUME NEW i \in 1..n PROVE \E j \in first : Key(j) = Key(i)
  <2> DEFINE E == {j \in 1..n : Key(j) = Key(i)}
  <2>1. E \subseteq Nat /\ E # {}
    BY <1>2
  <2>2. PICK j \in E : \A k \in E : j <= k
    <3> HIDE DEF E
    <3> QED BY <2>1, LeastNat
  <2>3. j \in 1..n /\ Key(j) = Key(i)
    OBVIOUS
  <2>4. ASSUME NEW k \in 1..(j - 1) PROVE Key(k) # Key(j)
    <3>1. k \in 1..n /\ k < j /\ k \in Nat /\ j \in Nat
      BY <1>2, <2>3
    <3>2. k \notin E
      <4> HIDE DEF E
      <4> QED BY <2>2, <3>1
    <3> QED BY <2>3, <3>1, <3>2
  <2> QED BY <2>3, <2>4
<1>9. alone \subseteq 1..n /\ \A j \in alone : Key(j) # Missing /\ j \in O
  BY <1>4
<1>10. \A i \in 1..n : i \in O <=> Key(i) = Missing \/ \E j \in alone : Key(i) = Key(j)
  <2>1. ASSUME NEW i \in 1..n, i \in O, Key(i) # Missing PROVE \E j \in alone : Key(i) = Key(j)
    <3>1. PICK j \in first : Key(j) = Key(i)
      BY <1>8
    <3>2. j \in 1..n /\ j \in O
      BY <3>1, <2>1, <1>7
    <3>3. Matches(right[j], left, key) = <<>>
      BY <3>1, <3>2, <2>1, <1>4
    <3> QED BY <3>1, <3>3, <2>1
  <2>2. ASSUME NEW i \in 1..n, NEW j \in alone, Key(i) = Key(j) PROVE i \in O
    BY <2>2, <1>7, <1>9
  <2> HIDE DEF alone
  <2> QED BY <2>1, <2>2, <1>5
<1>11. ASSUME NEW i \in alone, NEW j \in alone, i < j PROVE Key(i) # Key(j)
  <2>1. i \in 1..n /\ j \in 1..n /\ j \in first
    BY <1>9
  <2>2. i \in 1..(j - 1)
    BY <1>2, <1>11, <2>1
  <2> QED BY <2>1, <2>2
<1> HIDE DEF first, alone, With
<1>12. ss \in Seq(Seq(S)) /\ Len(ss) = n
       /\ \A j \in 1..n : ss[j] = IF j \in alone THEN With(Key(j)) ELSE <<>>
  <2>1. ss \in [1..n -> Seq(S)]
    <3>1. <<>> \in Seq(S)
      BY EmptySeq
    <3> QED BY <1>3, <3>1
  <2>2. \A j \in 1..n : ss[j] = IF j \in alone THEN With(Key(j)) ELSE <<>>
    OBVIOUS
  <2> HIDE DEF ss
  <2> QED BY <1>2, <2>1, <2>2
<1> HIDE DEF ss
<1> DEFINE v == FlattenSeq(ss)
<1>13. v \in Seq(S)
  BY <1>12, Flattened
<1>14. PICK start : IsStart(start, ss)
  BY <1>12, FlatFacts
<1>15. /\ start \in [0..n -> Nat] /\ start[0] = 0
       /\ \A i \in 1..n : start[i] = start[i - 1] + Len(ss[i])
       /\ Len(v) = start[n]
       /\ \A i \in 1..n : \A j \in 1..Len(ss[i]) : v[start[i - 1] + j] = ss[i][j]
       /\ \A k \in 1..Len(v) : \E i \in 1..n : \E j \in 1..Len(ss[i]) : k = start[i - 1] + j
  BY <1>12, <1>14 DEF IsStart
<1>16. ASSUME NEW m \in 0..n PROVE IsFiniteSet(Upto(m)) /\ Cardinality(Upto(m)) \in Nat
  <2>1. Upto(m) \subseteq 1..n
    OBVIOUS
  <2> HIDE DEF Upto
  <2> QED BY <1>2, <2>1, RankFacts
<1>17. ASSUME NEW m \in 1..n
       PROVE  /\ m - 1 \in 0..n
              /\ m \in alone => /\ Upto(m) = Upto(m - 1) \cup K(Key(m))
                                /\ Upto(m - 1) \cap K(Key(m)) = {}
              /\ m \notin alone => Upto(m) = Upto(m - 1)
  <2>1. m - 1 \in 0..n
    BY <1>2
  <2>2. \A j \in alone : (j <= m <=> j <= m - 1 \/ j = m) /\ (j <= m - 1 => j < m)
    BY <1>2, <1>9
  <2>3. ASSUME m \notin alone PROVE Upto(m) = Upto(m - 1)
    BY <2>2, <2>3
  <2>4. ASSUME m \in alone PROVE Upto(m) = Upto(m - 1) \cup K(Key(m))
    BY <2>2, <2>4
  <2>5. ASSUME m \in alone PROVE Upto(m - 1) \cap K(Key(m)) = {}
    <3>1. \A j \in alone : j <= m - 1 => Key(j) # Key(m)
      BY <2>2, <2>5, <1>11
    <3> QED BY <3>1
  <2> QED BY <2>1, <2>3, <2>4, <2>5
<1>18. Upto(0) = {} /\ Upto(n) = O \ K(Missing)
  <2>1. \A j \in alone : ~(j <= 0) /\ j <= n
    BY <1>2, <1>9
  <2>2. \A i \in 1..n : i \in Upto(n) <=> \E j \in alone : Key(i) = Key(j)
    BY <2>1
  <2>3. Upto(0) = {}
    BY <2>1
  <2>4. Upto(n) \subseteq 1..n /\ \A i \in 1..n : i \in K(Missing) <=> Key(i) = Missing
    OBVIOUS
  <2>5. \A i \in Upto(n) : Key(i) # Missing
    BY <1>9
  <2> HIDE DEF Upto, K
  <2> QED BY <2>2, <2>3, <2>4, <2>5, <1>6, <1>10
<1>19. K(Missing) \subseteq O
  BY <1>5
<1> HIDE DEF Upto, K
<1> DEFINE count == [i \in 0..n |-> Cardinality(Upto(i))]
<1>20. \A i \in 0..n : start[i] = Cardinality(Upto(i))
  <2>1. count \in [0..n -> Nat] /\ \A i \in 0..n : count[i] = Cardinality(Upto(i))
    BY <1>16
  <2> HIDE DEF count
  <2>2. count[0] = 0
    <3>1. 0 \in 0..n
      BY <1>2
    <3>2. count[0] = Cardinality(Upto(0))
      BY <3>1, <2>1
    <3> QED BY <3>2, <1>18, FS_EmptySet
  <2>3. ASSUME NEW i \in 1..n PROVE start[i] - start[i - 1] = count[i] - count[i - 1]
    <3>1. i \in 0..n /\ i - 1 \in 0..n
      BY <1>2
    <3>2. start[i] \in Nat /\ start[i - 1] \in Nat /\ count[i] \in Nat /\ count[i - 1] \in Nat
      BY <3>1, <2>1, <1>15
    <3>3. start[i] = start[i - 1] + Len(ss[i])
      BY <1>15
    <3>4. CASE i \in alone
      <4>1. Cardinality(Upto(i)) = Cardinality(Upto(i - 1)) + Cardinality(K(Key(i)))
        BY <3>1, <3>4, <1>3, <1>16, <1>17, DisjointSum
      <4>2. Len(ss[i]) = Cardinality(K(Key(i))) /\ Cardinality(K(Key(i))) \in Nat
        BY <3>4, <1>3, <1>12
      <4>3. count[i] = count[i - 1] + Len(ss[i])
        BY <3>1, <4>1, <4>2, <2>1
      <4> QED BY <3>2, <3>3, <4>2, <4>3
    <3>5. CASE i \notin alone
      <4>1. Len(ss[i]) = 0
        BY <3>5, <1>12, EmptySeq
      <4>2. count[i] = count[i - 1]
        BY <3>1, <3>5, <2>1, <1>17
      <4> QED BY <3>2, <3>3, <4>1, <4>2
    <3> QED BY <3>4, <3>5
  <2>4. \A i \in 0..n : start[i] = count[i]
    BY <1>2, <1>15, <2>1, <2>2, <2>3, SameCount
  <2> QED BY <2>1, <2>4
<1> HIDE DEF count
<1>21. IsFiniteSet(O) /\ Cardinality(O) = Len(v) + Len(With(Missing)) /\ Cardinality(O) \in Nat
  <2>1. n \in 0..n
    BY <1>2
  <2>2. O = Upto(n) \cup K(Missing) /\ Upto(n) \cap K(Missing) = {}
    BY <1>18, <1>19
  <2>3. /\ IsFiniteSet(O) /\ Cardinality(O) = Cardinality(Upto(n)) + Cardinality(K(Missing))
    BY <2>1, <2>2, <1>3, <1>16, DisjointSum
  <2>4. Cardinality(O) \in Nat
    BY <2>3, FS_CardinalityType
  <2> QED BY <2>1, <2>3, <2>4, <1>3, <1>15, <1>20
<1> HIDE DEF v
<1>22. /\ Len(u) = Len(v) + Len(With(Missing))
       /\ \A k \in 1..Len(v) : u[k] = v[k]
       /\ \A k \in 1..Len(With(Missing)) : u[Len(v) + k] = With(Missing)[k]
       /\ Len(v) \in Nat /\ Len(With(Missing)) \in Nat
  <2>1. v \in Seq(S) /\ With(Missing) \in Seq(S) /\ u = v \o With(Missing)
    BY <1>1, <1>3, <1>13 DEF v
  <2>2. IsList(v) /\ IsList(With(Missing)) /\ Len(v) \in Nat /\ Len(With(Missing)) \in Nat
    BY <2>1, LenProperties DEF IsList
  <2>3. LET w == v \o With(Missing) IN
        /\ Len(w) = Len(v) + Len(With(Missing))
        /\ \A k \in 1..Len(v) : w[k] = v[k]
        /\ \A k \in 1..Len(With(Missing)) : w[Len(v) + k] = With(Missing)[k]
    <3> HIDE DEF With
    <3> QED BY ONLY <2>2, Joined
  <2>4. u = v \o With(Missing)
    BY <2>1
  <2> HIDE DEF u, With
  <2> QED BY <2>4, <2>2, <2>3
<1>23. ASSUME NEW k \in 1..Len(u) PROVE \E j \in O : u[k] = right[j]
  <2>1. CASE k \in 1..Len(v)
    <3>1. PICK i \in 1..n : \E j \in 1..Len(ss[i]) : k = start[i - 1] + j
      BY <2>1, <1>15
    <3>2. PICK j \in 1..Len(ss[i]) : k = start[i - 1] + j
      BY <3>1
    <3>3. i \in alone
      <4>1. i \notin alone => Len(ss[i]) = 0
        BY <1>12, EmptySeq
      <4> QED BY <4>1
    <3>4. u[k] = With(Key(i))[j] /\ j \in 1..Len(With(Key(i)))
      <4>1. ss[i] = With(Key(i))
        BY <3>3, <1>12
      <4>2. u[k] = v[k] /\ v[k] = ss[i][j]
        BY <2>1, <3>2, <1>15, <1>22
      <4> QED BY <3>2, <4>1, <4>2
    <3>5. PICK m \in K(Key(i)) : With(Key(i))[j] = right[m]
      BY <3>4, <1>3
    <3>6. m \in O
      BY <3>3, <3>5, <1>10 DEF K
    <3> QED BY <3>4, <3>5, <3>6
  <2>2. CASE k \notin 1..Len(v)
    <3>1. k - Len(v) \in 1..Len(With(Missing)) /\ k = Len(v) + (k - Len(v))
      BY <2>2, <1>22
    <3>2. u[k] = With(Missing)[k - Len(v)]
      BY <3>1, <1>22
    <3>3. PICK m \in K(Missing) : With(Missing)[k - Len(v)] = right[m]
      BY <3>1, <1>3
    <3> QED BY <3>2, <3>3, <1>19
  <2> QED BY <2>1, <2>2
<1>24. ASSUME NEW j \in O PROVE \E k \in 1..Len(u) : u[k] = right[j]
  <2>1. CASE Key(j) = Missing
    <3>1. j \in K(Missing)
      BY <2>1, <1>6 DEF K
    <3>2. PICK k \in 1..Len(With(Missing)) : With(Missing)[k] = right[j]
      BY <3>1, <1>3
    <3>3. Len(v) + k \in 1..Len(u) /\ u[Len(v) + k] = right[j]
      BY <3>2, <1>22
    <3> QED BY <3>3
  <2>2. CASE Key(j) # Missing
    <3>1. PICK i \in alone : Key(j) = Key(i)
      BY <2>2, <1>6, <1>10
    <3>2. j \in K(Key(i)) /\ i \in 1..n
      BY <3>1, <1>6, <1>9 DEF K
    <3>3. PICK k \in 1..Len(With(Key(i))) : With(Key(i))[k] = right[j]
      BY <3>2, <1>3
    <3>4. ss[i] = With(Key(i))
      BY <3>1, <3>2, <1>12
    <3>5. v[start[i - 1] + k] = right[j]
      BY <3>2, <3>3, <3>4, <1>15
    <3>6. start[i - 1] + k \in 1..Len(v)
      <4>1. i - 1 \in 0..n /\ i \in 0..n /\ n \in 0..n
        BY <3>2, <1>2
      <4>2. start[i - 1] \in Nat /\ start[i] \in Nat /\ start[i] = start[i - 1] + Len(ss[i])
        BY <4>1, <3>2, <1>15
      <4>3. start[i] <= start[n]
        <5>1. Upto(i) \subseteq Upto(n)
          BY <1>2, <1>9, <3>2 DEF Upto
        <5>2. IsFiniteSet(Upto(n))
          BY <4>1, <1>16
        <5>3. Cardinality(Upto(i)) <= Cardinality(Upto(n))
          BY <5>1, <5>2, FS_Subset
        <5> QED BY <4>1, <5>3, <1>20
      <4>4. Len(v) \in Nat /\ Len(v) = start[n] /\ Len(ss[i]) \in Nat
        BY <1>3, <1>15, <1>22, <3>4
      <4> QED BY <3>3, <3>4, <4>2, <4>3, <4>4
    <3>7. start[i - 1] + k \in 1..Len(u)
      <4> DEFINE z == start[i - 1] + k
      <4>1. z \in 1..Len(v)
        BY <3>6
      <4> HIDE DEF z
      <4>2. z \in 1..Len(u)
        BY <4>1, <1>22
      <4> QED BY <4>2 DEF z
    <3>8. u[start[i - 1] + k] = right[j]
      BY <3>5, <3>6, <1>22
    <3> QED BY <3>7, <3>8
  <2> QED BY <2>1, <2>2
<1>25. Len(u) = Cardinality(O)
  BY <1>21, <1>22
<1> QED BY <1>21, <1>23, <1>24, <1>25 DEF u, O

-----------------------------------------------------------------------------
(* Records: what a node made stays right while the heap grows.             *)

LEMMA ElementsFrame ==
  ASSUME NEW g, NEW h, Extends(g, h), NEW list \in Seq(1..Len(h))
  PROVE  \A i \in 1..Len(list) : g[list[i]] = h[list[i]]
<1>1. \A i \in 1..Len(list) : list[i] \in 1..Len(h)
  BY ElementOfSeq
<1>2. \A a \in 1..Len(h) : g[a] = h[a]
  BY DEF Extends
<1> QED BY ONLY <1>1, <1>2

LEMMA KeysFrame ==
  ASSUME NEW g, NEW h, Extends(g, h), Closed(h), NEW key,
         NEW left \in Seq(1..Len(h)), NEW right \in Seq(1..Len(h)),
         NEW i \in 1..Len(left), NEW j \in 1..Len(right)
  PROVE  SameKey(g, left[i], right[j], key) <=> SameKey(h, left[i], right[j], key)
<1>1. left[i] \in 1..Len(h) /\ right[j] \in 1..Len(h)
  BY ElementOfSeq
<1>2. /\ GetPath(g, left[i], key) = GetPath(h, left[i], key)
      /\ GetPath(g, right[j], key) = GetPath(h, right[j], key)
  BY <1>1, SamePath
<1> QED BY <1>2 DEF SameKey

LEMMA OthersFrame ==
  ASSUME NEW g, NEW h, Extends(g, h), Closed(h), NEW key,
         NEW left \in Seq(1..Len(h)), NEW right \in Seq(1..Len(h))
  PROVE  Others(g, left, right, key) = Others(h, left, right, key)
BY KeysFrame DEF Others

LEMMA RowsFrame ==
  ASSUME NEW g, NEW h, Extends(g, h), Closed(h), NEW how, NEW key,
         NEW left \in Seq(1..Len(h)), NEW right \in Seq(1..Len(h))
  PROVE  Rows(g, left, right, how, key) = Rows(h, left, right, how, key)
<1> DEFINE Chosen(k, p) == IF p[2] # 0 THEN SameKey(k, left[p[1]], right[p[2]], key)
                           ELSE how # "inner" /\ \A j \in 1..Len(right) : ~SameKey(k, left[p[1]], right[j], key)
           all == (1..Len(left)) \X (0..Len(right))
<1>1. \A i \in 1..Len(left), j \in 1..Len(right) :
         SameKey(g, left[i], right[j], key) <=> SameKey(h, left[i], right[j], key)
  BY KeysFrame
<1>2. ASSUME NEW p \in all PROVE Chosen(g, p) <=> Chosen(h, p)
  <2>1. p[1] \in 1..Len(left) /\ (p[2] # 0 => p[2] \in 1..Len(right))
    BY LenProperties
  <2> QED BY <2>1, <1>1
<1>3. /\ Rows(g, left, right, how, key) = {p \in all : Chosen(g, p)}
      /\ Rows(h, left, right, how, key) = {p \in all : Chosen(h, p)}
  BY DEF Rows
<1> HIDE DEF Chosen, all
<1> QED BY <1>2, <1>3

LEMMA JoinFrame ==
  ASSUME NEW g, NEW h, Extends(g, h), Closed(h), NEW how, NEW key,
         NEW out \in Seq(1..Len(h)), NEW left \in Seq(1..Len(h)), NEW right \in Seq(1..Len(h)),
         JoinIsRight(h, out, left, right, how, key)
  PROVE  JoinIsRight(g, out, left, right, how, key)
<1> DEFINE R == Rows(h, left, right, how, key)
           O == Others(h, left, right, key)
<1>1. /\ Len(out) = Cardinality(R) + (IF how = "outer" THEN Cardinality(O) ELSE 0)
      /\ \A p \in R : IF p[2] = 0 THEN h[out[Place(p, R)]] = h[left[p[1]]]
                      ELSE RowOf(h[out[Place(p, R)]], h[left[p[1]]], h[right[p[2]]], key)
      /\ how = "outer" => {h[out[m]] : m \in (Cardinality(R) + 1)..Len(out)} = {h[right[j]] : j \in O}
  BY DEF JoinIsRight
<1>2. Len(out) \in Nat /\ \A k \in 1..Len(out) : g[out[k]] = h[out[k]]
  BY LenProperties, ElementOfSeq DEF Extends
<1>3. Len(left) \in Nat /\ Len(right) \in Nat
  BY LenProperties
<1>4. /\ Cardinality(R) \in Nat /\ \A q \in R : q[1] \in 1..Len(left) /\ q[2] \in 0..Len(right)
      /\ \A p \in R : Place(p, R) \in 1..Cardinality(R)
  BY <1>3, PlaceRange
<1>5. O \subseteq 1..Len(right) /\ IsFiniteSet(O) /\ Cardinality(O) \in Nat
  <2>1. O \subseteq 1..Len(right)
    BY DEF Others
  <2> HIDE DEF O
  <2> QED BY <1>3, <2>1, RankFacts
<1>6. /\ Rows(g, left, right, how, key) = R /\ Others(g, left, right, key) = O
      /\ \A i \in 1..Len(left) : g[left[i]] = h[left[i]]
      /\ \A j \in 1..Len(right) : g[right[j]] = h[right[j]]
  <2>0. \A a \in 1..Len(h) : g[a] = h[a]
    BY DEF Extends
  <2>1. Rows(g, left, right, how, key) = R
    BY RowsFrame
  <2>2. Others(g, left, right, key) = O
    BY OthersFrame
  <2>3. \A i \in 1..Len(left) : g[left[i]] = h[left[i]]
    <3>1. \A i \in 1..Len(left) : left[i] \in 1..Len(h)
      BY ElementOfSeq
    <3> QED BY ONLY <2>0, <3>1
  <2>4. \A j \in 1..Len(right) : g[right[j]] = h[right[j]]
    <3>1. \A j \in 1..Len(right) : right[j] \in 1..Len(h)
      BY ElementOfSeq
    <3> QED BY ONLY <2>0, <3>1
  <2> HIDE DEF R, O
  <2> QED BY <2>1, <2>2, <2>3, <2>4
<1> HIDE DEF R, O
<1>7. ASSUME NEW p \in R
      PROVE  IF p[2] = 0 THEN g[out[Place(p, R)]] = g[left[p[1]]]
             ELSE RowOf(g[out[Place(p, R)]], g[left[p[1]]], g[right[p[2]]], key)
  <2>1. Place(p, R) \in 1..Len(out)
    BY <1>1, <1>2, <1>4, <1>5
  <2>2. g[out[Place(p, R)]] = h[out[Place(p, R)]] /\ g[left[p[1]]] = h[left[p[1]]]
    BY <2>1, <1>2, <1>4, <1>6
  <2>3. p[2] # 0 => g[right[p[2]]] = h[right[p[2]]]
    <3>1. p[2] # 0 => p[2] \in 1..Len(right)
      BY <1>3, <1>4
    <3> QED BY <3>1, <1>6
  <2> QED BY <2>2, <2>3, <1>1
<1>8. ASSUME how = "outer"
      PROVE  {g[out[m]] : m \in (Cardinality(R) + 1)..Len(out)} = {g[right[j]] : j \in O}
  <2>1. \A m \in (Cardinality(R) + 1)..Len(out) : g[out[m]] = h[out[m]]
    BY <1>2, <1>4
  <2>2. \A j \in O : g[right[j]] = h[right[j]]
    BY <1>5, <1>6
  <2>3. {g[out[m]] : m \in (Cardinality(R) + 1)..Len(out)}
          = {h[out[m]] : m \in (Cardinality(R) + 1)..Len(out)}
    BY <2>1
  <2>4. {g[right[j]] : j \in O} = {h[right[j]] : j \in O}
    BY <2>2
  <2> QED BY <2>3, <2>4, <1>1, <1>8
<1> QED BY <1>1, <1>6, <1>7, <1>8 DEF JoinIsRight

LEMMA DecryptFrame ==
  ASSUME NEW g, NEW h, Extends(g, h), Closed(h),
         NEW out \in Seq(1..Len(h)), NEW list \in Seq(1..Len(h)), DecryptIsRight(h, out, list)
  PROVE  DecryptIsRight(g, out, list)
<1>1. Len(out) = Len(list) /\ \A i \in 1..Len(out) : out[i] \in 1..Len(h) /\ list[i] \in 1..Len(h)
  BY ElementOfSeq DEF DecryptIsRight
<1>2. \A a \in 1..Len(h) : /\ g[a] = h[a] /\ Contents(g, a) = Contents(h, a)
                           /\ \A path : GetPath(g, a, path) = GetPath(h, a, path)
  BY SameContents, SamePath DEF Extends
<1>3. ASSUME NEW i \in 1..Len(out)
      PROVE  /\ g[out[i]] = h[out[i]] /\ g[list[i]] = h[list[i]]
             /\ Contents(g, out[i]) = Contents(h, out[i])
             /\ \A path : GetPath(g, list[i], path) = GetPath(h, list[i], path)
  BY <1>1, <1>2
<1> DEFINE Same(k, i) ==
             /\ DOMAIN k[out[i]] = DOMAIN k[list[i]]
             /\ \A path \in DOMAIN Contents(k, out[i]) :
                   LET x == GetPath(k, list[i], path) IN
                   Contents(k, out[i])[path] = IF path = <<"n", "s">> /\ x < 0 THEN -x
                                               ELSE IF IsRef(x) THEN 100 ELSE x
<1>4. \A i \in 1..Len(out) : Same(h, i)
  BY DEF DecryptIsRight
<1>5. ASSUME NEW i \in 1..Len(out) PROVE Same(g, i)
  <2>1. Same(h, i)
    BY <1>4
  <2>2. /\ g[out[i]] = h[out[i]] /\ g[list[i]] = h[list[i]]
        /\ Contents(g, out[i]) = Contents(h, out[i])
        /\ \A path : GetPath(g, list[i], path) = GetPath(h, list[i], path)
    BY <1>3
  <2>3. ASSUME NEW path \in DOMAIN Contents(g, out[i])
        PROVE  LET x == GetPath(g, list[i], path) IN
               Contents(g, out[i])[path] = IF path = <<"n", "s">> /\ x < 0 THEN -x
                                           ELSE IF IsRef(x) THEN 100 ELSE x
    <3>1. GetPath(g, list[i], path) = GetPath(h, list[i], path)
      BY <2>2
    <3>2. Contents(g, out[i])[path] = Contents(h, out[i])[path] /\ path \in DOMAIN Contents(h, out[i])
      BY <2>2
    <3> QED BY <2>1, <3>1, <3>2
  <2> QED BY <2>1, <2>2, <2>3
<1> QED BY <1>1, <1>5 DEF DecryptIsRight

LEMMA UnionFrame ==
  ASSUME NEW g, NEW h, Extends(g, h), Closed(h),
         NEW out \in Seq(1..Len(h)), NEW all \in Seq(1..Len(h)), UnionIsRight(h, out, all)
  PROVE  UnionIsRight(g, out, all)
<1>1. Snapshot(g, out) = Snapshot(h, out) /\ Snapshot(g, all) = Snapshot(h, all)
  BY SameSnapshot
<1> QED BY <1>1 DEF UnionIsRight

-----------------------------------------------------------------------------
(* Records: a join.                                                        *)

LEMMA JoinRight ==
  ASSUME RecInv, NEW b, NEW c, NEW how, NEW key, Join(b, c, how, key)
  PROVE  \E h, list : /\ Buffer([op |-> "join", how |-> how, key |-> key], <<b, c>>, h, list)
                      /\ Extends(h, heap)
                      /\ JoinIsRight(h, list, buffers[b], buffers[c], how, key)
<1> DEFINE n == Len(heap)
           left == buffers[b]
           right == buffers[c]
           D == JoinLeft(left, right, how, key)
           u == Unmatched(left, right, key)
           others == [i \in 1..Len(u) |-> heap[u[i]]]
           rest == IF how # "outer" THEN <<>> ELSE others
           dicts == D \o rest
           h == heap \o dicts
           list == [i \in 1..Len(dicts) |-> n + i]
           R == Rows(heap, left, right, how, key)
           O == Others(heap, left, right, key)
<1>1. /\ CanRead(b) /\ CanRead(c) /\ FieldsListed(right)
      /\ Buffer([op |-> "join", how |-> how, key |-> key], <<b, c>>, h, list)
  BY DEF Join, Fresh
<1>2. n \in Nat /\ IsList(heap) /\ Closed(heap) /\ left \in Seq(1..n) /\ right \in Seq(1..n)
  BY <1>1, ReadFacts
<1>3. IsList(D)
  BY <1>1, JoinLeftOK
<1>4. /\ Cardinality(R) \in Nat /\ Len(D) = Cardinality(R)
      /\ \A p \in R :
            /\ Place(p, R) \in 1..Cardinality(R)
            /\ IF p[2] = 0 THEN D[Place(p, R)] = heap[left[p[1]]]
               ELSE RowOf(D[Place(p, R)], heap[left[p[1]]], heap[right[p[2]]], key)
  BY <1>1, JoinRows
<1>5. /\ Cardinality(O) \in Nat /\ Len(u) = Cardinality(O)
      /\ \A k \in 1..Len(u) : \E j \in O : u[k] = right[j]
      /\ \A j \in O : \E k \in 1..Len(u) : u[k] = right[j]
  <2> DEFINE A == 1..n
  <2>1. left \in Seq(A) /\ right \in Seq(A)
    BY <1>2
  <2> HIDE DEF A, left, right
  <2> QED BY <2>1, OthersRight
<1>6. O \subseteq 1..Len(right) /\ Len(left) \in Nat /\ Len(right) \in Nat
  BY <1>2, LenProperties DEF Others
<1>7. \A q \in R : q[1] \in 1..Len(left) /\ q[2] \in 0..Len(right)
  BY <1>6, PlaceRange
<1> HIDE DEF n, left, right, D, u, R, O
<1>8. IsList(others) /\ Len(others) = Len(u) /\ \A k \in 1..Len(u) : others[k] = heap[u[k]]
  BY <1>5 DEF IsList
<1> HIDE DEF others
<1>9. /\ IsList(rest) /\ Len(rest) = IF how = "outer" THEN Cardinality(O) ELSE 0
      /\ how = "outer" => rest = others
  <2>1. IsList(<<>>) /\ Len(<<>>) = 0
    BY DEF IsList
  <2> QED BY <2>1, <1>5, <1>8
<1> HIDE DEF rest
<1>10. /\ IsList(dicts) /\ Len(dicts) = Len(D) + Len(rest)
       /\ \A i \in 1..Len(D) : dicts[i] = D[i]
       /\ \A i \in 1..Len(rest) : dicts[Len(D) + i] = rest[i]
  BY <1>3, <1>9, Joined
<1> HIDE DEF dicts
<1>11. /\ IsList(h) /\ Len(h) = n + Len(dicts)
       /\ \A a \in 1..n : h[a] = heap[a]
       /\ \A i \in 1..Len(dicts) : h[n + i] = dicts[i]
  <2>1. IsList(heap) /\ IsList(dicts)
    BY <1>2, <1>10
  <2>2. /\ IsList(h) /\ Len(h) = Len(heap) + Len(dicts)
        /\ \A a \in 1..Len(heap) : h[a] = heap[a]
        /\ \A i \in 1..Len(dicts) : h[Len(heap) + i] = dicts[i]
    BY ONLY <2>1, Joined DEF h
  <2> HIDE DEF h
  <2> QED BY <2>2 DEF n
<1> HIDE DEF h
<1>12. Len(dicts) \in Nat /\ Len(D) \in Nat /\ Len(rest) \in Nat
  BY <1>3, <1>9, <1>10 DEF IsList
<1>13. Len(list) = Len(dicts) /\ \A k \in 1..Len(dicts) : h[list[k]] = dicts[k]
  BY <1>11, <1>12
<1> HIDE DEF list
<1>14. Extends(h, heap)
  BY <1>2, <1>11, <1>12 DEF Extends, n
<1>15. /\ Rows(h, left, right, how, key) = R /\ Others(h, left, right, key) = O
       /\ \A i \in 1..Len(left) : h[left[i]] = heap[left[i]]
       /\ \A j \in 1..Len(right) : h[right[j]] = heap[right[j]]
  <2>1. left \in Seq(1..Len(heap)) /\ right \in Seq(1..Len(heap)) /\ Closed(heap)
    BY <1>2 DEF n
  <2>2. Rows(h, left, right, how, key) = R
    BY <2>1, <1>14, RowsFrame DEF R
  <2>3. Others(h, left, right, key) = O
    BY <2>1, <1>14, OthersFrame DEF O
  <2> QED BY <2>1, <2>2, <2>3, <1>14, ElementsFrame
<1>16. Len(list) = Cardinality(R) + (IF how = "outer" THEN Cardinality(O) ELSE 0)
  BY <1>4, <1>9, <1>10, <1>13
<1>17. ASSUME NEW p \in R
       PROVE  IF p[2] = 0 THEN h[list[Place(p, R)]] = h[left[p[1]]]
              ELSE RowOf(h[list[Place(p, R)]], h[left[p[1]]], h[right[p[2]]], key)
  <2>1. Place(p, R) \in 1..Len(D) /\ Place(p, R) \in 1..Len(dicts)
    BY <1>4, <1>10, <1>12
  <2>2. h[list[Place(p, R)]] = D[Place(p, R)]
    BY <2>1, <1>10, <1>13
  <2>3. h[left[p[1]]] = heap[left[p[1]]]
    BY <1>7, <1>15
  <2>4. p[2] # 0 => h[right[p[2]]] = heap[right[p[2]]]
    <3>1. p[2] # 0 => p[2] \in 1..Len(right)
      BY <1>6, <1>7
    <3> QED BY <3>1, <1>15
  <2> QED BY <2>2, <2>3, <2>4, <1>4
<1>18. ASSUME how = "outer"
       PROVE  {h[list[m]] : m \in (Cardinality(R) + 1)..Len(list)} = {h[right[j]] : j \in O}
  <2>1. rest = others /\ Len(rest) = Len(u) /\ Len(list) = Cardinality(R) + Len(u)
    BY <1>5, <1>8, <1>9, <1>16, <1>18
  <2>2. ASSUME NEW k \in 1..Len(u) PROVE h[list[Cardinality(R) + k]] = heap[u[k]]
    <3>1. dicts[Len(D) + k] = rest[k]
      BY <2>1, <1>10
    <3>2. rest[k] = heap[u[k]]
      BY <2>1, <1>8
    <3>3. Cardinality(R) + k \in 1..Len(dicts) /\ Cardinality(R) + k = Len(D) + k
      BY <1>4, <1>5, <1>13, <2>1
    <3> QED BY <3>1, <3>2, <3>3, <1>13
  <2>3. \A j \in O : h[right[j]] = heap[right[j]]
    BY <1>6, <1>15
  <2>4. ASSUME NEW m \in (Cardinality(R) + 1)..Len(list) PROVE \E j \in O : h[list[m]] = h[right[j]]
    <3> DEFINE k == m - Cardinality(R)
    <3>1. k \in 1..Len(u) /\ m = Cardinality(R) + k
      BY <1>4, <1>5, <2>1
    <3> HIDE DEF k
    <3>2. h[list[m]] = heap[u[k]]
      BY <3>1, <2>2
    <3>3. PICK j \in O : u[k] = right[j]
      BY <3>1, <1>5
    <3> QED BY <3>2, <3>3, <2>3
  <2>5. ASSUME NEW j \in O
        PROVE  \E m \in (Cardinality(R) + 1)..Len(list) : h[list[m]] = h[right[j]]
    <3>1. PICK k \in 1..Len(u) : u[k] = right[j]
      BY <1>5
    <3>2. Cardinality(R) + k \in (Cardinality(R) + 1)..Len(list)
      BY <1>4, <1>5, <2>1
    <3> QED BY <3>1, <3>2, <2>2, <2>3
  <2> QED BY <2>4, <2>5
<1>19. JoinIsRight(h, list, left, right, how, key)
  BY <1>15, <1>16, <1>17, <1>18 DEF JoinIsRight
<1> QED BY <1>1, <1>14, <1>19 DEF left, right

-----------------------------------------------------------------------------
(* Records: the outputs are right.                                         *)

\* The output of a node is what its operation and its inputs say.
RightOutput(h, bs, op, ins, out) ==
    CASE op.op = "join" -> JoinIsRight(h, out, bs[ins[1]], bs[ins[2]], op.how, op.key)
      [] op.op = "union" -> UnionIsRight(h, out, bs[ins[1]] \o bs[ins[2]])
      [] op.op = "decrypt" -> DecryptIsRight(h, out, bs[ins[1]])
      [] OTHER -> TRUE

\* A node reads what was buffered before it.
InputsThere(op, ins, n) ==
    /\ op.op \in {"join", "union", "decrypt"} => ins[1] \in 1..n
    /\ op.op \in {"join", "union"} => ins[2] \in 1..n

OutInv ==
    /\ RecInv
    /\ \A b \in 1..Len(buffers) :
          /\ InputsThere(made[b].op, made[b].ins, Len(buffers))
          /\ RightOutput(heap, buffers, made[b].op, made[b].ins, buffers[b])

LEMMA RightFrame ==
  ASSUME NEW g, NEW h, Extends(g, h), Closed(h), NEW n, NEW bs, NEW cs,
         \A k \in 1..n : cs[k] = bs[k] /\ bs[k] \in Seq(1..Len(h)),
         NEW op, NEW ins, InputsThere(op, ins, n),
         NEW out \in Seq(1..Len(h)), RightOutput(h, bs, op, ins, out)
  PROVE  RightOutput(g, cs, op, ins, out)
<1>1. CASE op.op = "join"
  <2>1. ins[1] \in 1..n /\ ins[2] \in 1..n
    BY <1>1 DEF InputsThere
  <2>2. /\ cs[ins[1]] = bs[ins[1]] /\ bs[ins[1]] \in Seq(1..Len(h))
        /\ cs[ins[2]] = bs[ins[2]] /\ bs[ins[2]] \in Seq(1..Len(h))
    BY <2>1
  <2>3. JoinIsRight(h, out, bs[ins[1]], bs[ins[2]], op.how, op.key)
    BY <1>1 DEF RightOutput
  <2>4. JoinIsRight(g, out, bs[ins[1]], bs[ins[2]], op.how, op.key)
    BY <2>2, <2>3, JoinFrame
  <2> QED BY <1>1, <2>2, <2>4 DEF RightOutput
<1>2. CASE op.op = "union"
  <2>1. ins[1] \in 1..n /\ ins[2] \in 1..n
    BY <1>2 DEF InputsThere
  <2>2. /\ cs[ins[1]] = bs[ins[1]] /\ bs[ins[1]] \in Seq(1..Len(h))
        /\ cs[ins[2]] = bs[ins[2]] /\ bs[ins[2]] \in Seq(1..Len(h))
    BY <2>1
  <2> DEFINE all == bs[ins[1]] \o bs[ins[2]]
  <2>3. all \in Seq(1..Len(h))
    BY <2>2, ConcatProperties
  <2>4. UnionIsRight(h, out, all)
    BY <1>2 DEF RightOutput
  <2>5. UnionIsRight(g, out, all)
    <3> HIDE DEF all
    <3> QED BY <2>3, <2>4, UnionFrame
  <2> QED BY <1>2, <2>2, <2>5 DEF RightOutput
<1>3. CASE op.op = "decrypt"
  <2>1. ins[1] \in 1..n
    BY <1>3 DEF InputsThere
  <2>2. cs[ins[1]] = bs[ins[1]] /\ bs[ins[1]] \in Seq(1..Len(h))
    BY <2>1
  <2>3. DecryptIsRight(h, out, bs[ins[1]])
    BY <1>3 DEF RightOutput
  <2>4. DecryptIsRight(g, out, bs[ins[1]])
    BY <2>2, <2>3, DecryptFrame
  <2> QED BY <1>3, <2>2, <2>4 DEF RightOutput
<1>4. CASE op.op \notin {"join", "union", "decrypt"}
  BY <1>4 DEF RightOutput
<1> QED BY <1>1, <1>2, <1>3, <1>4

LEMMA OutStep ==
  ASSUME OutInv, RecInv', Extends(heap', heap), NEW op, NEW ins, NEW h, NEW list,
         Buffer(op, ins, h, list), InputsThere(op, ins, Len(buffers)),
         RightOutput(h, buffers, op, ins, list)
  PROVE  OutInv'
<1> DEFINE n == Len(buffers)
           A == 1..Len(heap)
           B == 1..Len(h)
<1>1. /\ heap' = h /\ buffers' = Append(buffers, list)
      /\ made' = Append(made, [op |-> op, ins |-> ins])
  BY DEF Buffer
<1>2. /\ n \in Nat /\ \A b \in 1..n : buffers[b] \in Seq(A)
      /\ buffers \in Seq(Seq(A)) /\ IsList(buffers) /\ IsList(made) /\ Len(made) = n /\ Closed(heap)
  <2>1. buffers \in Seq(Seq(A)) /\ IsList(made) /\ Len(made) = n /\ Closed(heap)
    BY DEF OutInv, RecInv
  <2> HIDE DEF A
  <2>2. n \in Nat /\ IsList(buffers) /\ \A b \in 1..n : buffers[b] \in Seq(A)
    BY <2>1, LenProperties, ElementOfSeq DEF IsList
  <2> QED BY <2>1, <2>2
<1>3. /\ Len(buffers') = n + 1 /\ \A b \in 1..n : buffers'[b] = buffers[b]
      /\ buffers'[n + 1] = list
  BY <1>1, <1>2, Appended
<1>4. /\ \A b \in 1..n : made'[b] = made[b]
      /\ made'[n + 1] = [op |-> op, ins |-> ins]
  BY <1>1, <1>2, Appended
<1>5. Closed(h) /\ \A b \in 1..(n + 1) : buffers'[b] \in Seq(B)
  <2>1. Closed(h) /\ buffers' \in Seq(Seq(B))
    BY <1>1 DEF RecInv
  <2> HIDE DEF B, n
  <2> QED BY <2>1, <1>3, ElementOfSeq
<1>6. Extends(h, heap) /\ Extends(h, h)
  BY <1>1 DEF Extends
<1>7. ASSUME NEW b \in 1..(n + 1)
      PROVE  /\ InputsThere(made'[b].op, made'[b].ins, n + 1)
             /\ RightOutput(h, buffers', made'[b].op, made'[b].ins, buffers'[b])
  <2>1. CASE b \in 1..n
    <3>1. /\ InputsThere(made[b].op, made[b].ins, n)
          /\ RightOutput(heap, buffers, made[b].op, made[b].ins, buffers[b])
      BY <2>1 DEF OutInv
    <3>2. made'[b] = made[b] /\ buffers'[b] = buffers[b] /\ buffers[b] \in Seq(A)
      BY <2>1, <1>2, <1>3, <1>4
    <3>3. InputsThere(made[b].op, made[b].ins, n + 1)
      BY <3>1, <1>2 DEF InputsThere
    <3>4. RightOutput(h, buffers', made[b].op, made[b].ins, buffers[b])
      <4>1. \A k \in 1..n : buffers'[k] = buffers[k] /\ buffers[k] \in Seq(1..Len(heap))
        BY <1>2, <1>3
      <4> QED BY <4>1, <3>1, <3>2, <1>2, <1>6, RightFrame
    <3> QED BY <3>2, <3>3, <3>4
  <2>2. CASE b = n + 1
    <3>1. made'[b].op = op /\ made'[b].ins = ins /\ buffers'[b] = list
      BY <2>2, <1>3, <1>4
    <3>2. InputsThere(op, ins, n + 1)
      BY <1>2 DEF InputsThere
    <3>3. RightOutput(h, buffers', op, ins, list)
      <4>1. \A k \in 1..n : buffers'[k] = buffers[k] /\ buffers[k] \in Seq(1..Len(h))
        <5>1. \A k \in 1..n : k \in 1..(n + 1)
          BY <1>2
        <5> QED BY <5>1, <1>3, <1>5
      <4>2. list \in Seq(1..Len(h))
        BY <2>2, <3>1, <1>5
      <4> QED BY <4>1, <4>2, <1>5, <1>6, RightFrame
    <3> QED BY <3>1, <3>2, <3>3
  <2> QED BY <2>1, <2>2, <1>2
<1> QED BY <1>1, <1>3, <1>7 DEF OutInv

\* transform and concat: nothing is said of what they give.
LEMMA OutOther ==
  ASSUME OutInv, RecInv', Extends(heap', heap), NEW op, NEW ins, NEW h, NEW list,
         Buffer(op, ins, h, list), op.op \in {"select", "rename", "filter", "computed", "concat"}
  PROVE  OutInv'
<1>1. InputsThere(op, ins, Len(buffers)) /\ RightOutput(h, buffers, op, ins, list)
  BY DEF InputsThere, RightOutput
<1> QED BY <1>1, OutStep

LEMMA OutTransform ==
  ASSUME OutInv, NEW b,
         \/ \E paths : SelectFields(b, paths)
         \/ \E from, to : RenameField(b, from, to)
         \/ \E p : FilterRecords(b, p)
         \/ \E to : ComputeField(b, to)
  PROVE  OutInv'
<1>1. RecInv' /\ Extends(heap', heap)
  <2>1. RecInv
    BY DEF OutInv
  <2> QED BY <2>1, SelectStep, RenameStep, FilterStep, ComputeStep
<1>2. ASSUME NEW paths, SelectFields(b, paths) PROVE OutInv'
  <2> DEFINE op == [op |-> "select"]
  <2>1. PICK h, list : Buffer(op, <<b>>, h, list)
    BY <1>2, Zenon DEF SelectFields, Fresh
  <2>2. op.op = "select"
    OBVIOUS
  <2> HIDE DEF op
  <2> QED BY <1>1, <2>1, <2>2, OutOther
<1>3. ASSUME NEW from, NEW to, RenameField(b, from, to) PROVE OutInv'
  <2> DEFINE op == [op |-> "rename"]
  <2>1. PICK h, list : Buffer(op, <<b>>, h, list)
    BY <1>3, Zenon DEF RenameField, Fresh
  <2>2. op.op = "rename"
    OBVIOUS
  <2> HIDE DEF op
  <2> QED BY <1>1, <2>1, <2>2, OutOther
<1>4. ASSUME NEW p, FilterRecords(b, p) PROVE OutInv'
  <2> DEFINE op == [op |-> "filter"]
  <2>1. PICK h, list : Buffer(op, <<b>>, h, list)
    BY <1>4, Zenon DEF FilterRecords
  <2>2. op.op = "filter"
    OBVIOUS
  <2> HIDE DEF op
  <2> QED BY <1>1, <2>1, <2>2, OutOther
<1>5. ASSUME NEW to, ComputeField(b, to) PROVE OutInv'
  <2> DEFINE op == [op |-> "computed"]
  <2>1. PICK h, list : Buffer(op, <<b>>, h, list)
    BY <1>5, Zenon DEF ComputeField, Fresh
  <2>2. op.op = "computed"
    OBVIOUS
  <2> HIDE DEF op
  <2> QED BY <1>1, <2>1, <2>2, OutOther
<1> QED BY <1>2, <1>3, <1>4, <1>5

LEMMA OutDecrypt ==
  ASSUME OutInv, NEW b, NEW onMissing, Decrypt(b, onMissing)
  PROVE  OutInv'
<1> DEFINE op == [op |-> "decrypt"]
           list == [i \in 1..Len(buffers[b]) |-> Len(heap) + i]
<1>1. RecInv /\ RecInv' /\ Extends(heap', heap)
  BY DecryptStep DEF OutInv
<1>2. CanRead(b)
  BY DEF Decrypt
<1>3. PICK h : Buffer(op, <<b>>, h, list) /\ DecryptHeap(b, h)
  BY <1>1, DecryptShape
<1>4. DecryptIsRight(h, list, buffers[b])
  BY <1>1, <1>2, <1>3, DecryptRight
<1> HIDE DEF list
<1>5. op.op = "decrypt" /\ <<b>>[1] = b /\ b \in 1..Len(buffers)
  BY <1>2 DEF CanRead
<1> HIDE DEF op
<1>6. InputsThere(op, <<b>>, Len(buffers))
  BY <1>5 DEF InputsThere
<1>7. RightOutput(h, buffers, op, <<b>>, list)
  BY <1>4, <1>5 DEF RightOutput
<1> QED BY <1>1, <1>3, <1>6, <1>7, OutStep

LEMMA OutConcat ==
  ASSUME OutInv, NEW b, NEW c, Concat(b, c) \/ Union(b, c)
  PROVE  OutInv'
<1>1. RecInv /\ RecInv' /\ Extends(heap', heap)
  BY ConcatStep DEF OutInv
<1>2. CASE Concat(b, c)
  <2>1. Buffer([op |-> "concat"], <<b, c>>, heap, buffers[b] \o buffers[c])
    BY <1>2 DEF Concat
  <2>2. [op |-> "concat"].op \in {"select", "rename", "filter", "computed", "concat"}
    OBVIOUS
  <2> QED BY <1>1, <2>1, <2>2, OutOther
<1>3. CASE Union(b, c)
  <2> DEFINE op == [op |-> "union"]
             all == buffers[b] \o buffers[c]
  <2>1. CanRead(b) /\ CanRead(c) /\ Buffer(op, <<b, c>>, heap, UnionOf(all))
    BY <1>3 DEF Union
  <2>2. all \in Seq(1..Len(heap))
    BY <1>1, <2>1, ReadFacts, ConcatProperties
  <2>3. UnionIsRight(heap, UnionOf(all), all)
    <3> HIDE DEF all
    <3> QED BY <2>2, UnionRight
  <2>4. /\ op.op = "union" /\ <<b, c>>[1] = b /\ <<b, c>>[2] = c
        /\ b \in 1..Len(buffers) /\ c \in 1..Len(buffers)
    BY <2>1 DEF CanRead
  <2> HIDE DEF op
  <2>5. InputsThere(op, <<b, c>>, Len(buffers))
    BY <2>4 DEF InputsThere
  <2>6. RightOutput(heap, buffers, op, <<b, c>>, UnionOf(all))
    BY <2>3, <2>4 DEF RightOutput
  <2> HIDE DEF all
  <2> QED BY <1>1, <2>1, <2>5, <2>6, OutStep
<1> QED BY <1>2, <1>3

LEMMA OutJoin ==
  ASSUME OutInv, NEW b, NEW c, NEW how, NEW key, Join(b, c, how, key)
  PROVE  OutInv'
<1> DEFINE op == [op |-> "join", how |-> how, key |-> key]
<1>1. RecInv /\ RecInv' /\ Extends(heap', heap)
  BY JoinStep DEF OutInv
<1>2. PICK h, list : Buffer(op, <<b, c>>, h, list) /\ JoinIsRight(h, list, buffers[b], buffers[c], how, key)
  BY <1>1, JoinRight
<1>3. /\ op.op = "join" /\ op.how = how /\ op.key = key /\ <<b, c>>[1] = b /\ <<b, c>>[2] = c
      /\ b \in 1..Len(buffers) /\ c \in 1..Len(buffers)
  BY DEF Join, CanRead
<1> HIDE DEF op
<1>4. InputsThere(op, <<b, c>>, Len(buffers))
  BY <1>3 DEF InputsThere
<1>5. RightOutput(h, buffers, op, <<b, c>>, list)
  BY <1>2, <1>3 DEF RightOutput
<1> QED BY <1>1, <1>2, <1>4, <1>5, OutStep

LEMMA OutStart == RecordsInit => OutInv
<1> SUFFICES ASSUME RecordsInit PROVE OutInv
  OBVIOUS
<1>1. RecInv
  BY RecordsStart
<1>2. Len(buffers) = 2
  BY DEF RecordsInit
<1>3. \A b \in 1..2 : made[b].op.op = "source"
  BY DEF RecordsInit
<1>4. \A b \in 1..2 : /\ InputsThere(made[b].op, made[b].ins, 2)
                      /\ RightOutput(heap, buffers, made[b].op, made[b].ins, buffers[b])
  BY <1>3 DEF InputsThere, RightOutput
<1> QED BY <1>1, <1>2, <1>4 DEF OutInv

LEMMA OutNext == OutInv /\ [RecordsStep]_recordVars => OutInv'
<1> SUFFICES ASSUME OutInv, [RecordsStep]_recordVars PROVE OutInv'
  OBVIOUS
<1>1. CASE RecordsStep
  <2>1. PICK b \in 1..Len(buffers) :
        \/ \/ \E paths : SelectFields(b, paths)
           \/ \E from, to : RenameField(b, from, to)
           \/ \E p : FilterRecords(b, p)
           \/ \E to : ComputeField(b, to)
        \/ \E onMissing : Decrypt(b, onMissing)
        \/ \E c : Concat(b, c) \/ Union(b, c)
        \/ \E c, how, key : Join(b, c, how, key)
    BY <1>1 DEF RecordsStep
  <2> QED BY <2>1, OutTransform, OutDecrypt, OutConcat, OutJoin
<1>2. CASE UNCHANGED recordVars
  <2>1. RecInv'
    BY <1>2, RecordsNext DEF OutInv
  <2> QED BY <1>2, <2>1 DEF recordVars, OutInv
<1> QED BY <1>1, <1>2

\* merge and decrypt give what their strategy names: a join the relational
\* join, row by row, a union each record once, a decryption the same records
\* with the token replaced; for any records, lists, keys and joins, and
\* however many nodes the records have been through.
THEOREM MergeAndDecryptAreRight == RecordsSpec => []OutputsAreRight
<1>1. OutInv => OutputsAreRight
  BY DEF OutInv, OutputsAreRight, RightOutput
<1> QED BY <1>1, OutStart, OutNext, PTL DEF RecordsSpec

-----------------------------------------------------------------------------
(* The node library as a whole: kinds of nodes that are at rest, and the   *)
(* one that is executed.                                                   *)

LEMMA FilesAtRest == NoFileSinks => FileTypeOK /\ FileInv
<1> SUFFICES ASSUME NoFileSinks PROVE FileTypeOK /\ FileInv
  OBVIOUS
<1>1. <<>> \in Tokens /\ Range(<<>>) = {}
  BY DEF Tokens, Range
<1>2. FileTypeOK
  <2>1. target \in [fmt : Formats, mode : {"overwrite", "append", "error"}, header : BOOLEAN]
    BY DEF NoFileSinks, Formats
  <2>2. file \in [there : BOOLEAN, body : Tokens, ok : BOOLEAN]
    BY <1>1 DEF NoFileSinks, NoFile
  <2>3. thread \in [Writers -> ThreadType]
    BY <1>1 DEF NoFileSinks, ThreadType
  <2> QED BY <1>1, <2>1, <2>2, <2>3 DEF NoFileSinks, FileTypeOK
<1>3. SinkInv /\ AloneInv
  BY <1>1 DEF NoFileSinks, SinkInv, AloneInv, ThreadAt, InWrite
<1>4. ContentInv
  BY DEF NoFileSinks, ContentInv, Kept, Expected, ThreadAt, InWrite, NoFile
<1> QED BY <1>2, <1>3, <1>4 DEF FileInv

LEMMA TablesAtRest == NoTableSinks => TableTypeOK /\ TableInv
<1> SUFFICES ASSUME NoTableSinks PROVE TableTypeOK /\ TableInv
  OBVIOUS
<1>1. NoTransaction \in TxType /\ NoTransaction.pc = "none" /\ NoTransaction.deleted = {}
      /\ NoTransaction.began = 0
  BY LoadersAssumption DEF NoTransaction, TxType
<1>2. TableTypeOK
  <2>1. sinkConfig \in [mode : {"append", "replace"}, create : BOOLEAN, empty : SUBSET Transactions]
    BY DEF NoTableSinks
  <2>2. table \in [there : BOOLEAN, rows : SUBSET (0..Loaders)]
    BY DEF NoTableSinks
  <2> QED BY <1>1, <2>1, <2>2 DEF NoTableSinks, TableTypeOK, LoadStates
<1>3. Len(committed) = 0 /\ Committed = {} /\ Who = {}
  BY DEF NoTableSinks, Committed, Who
<1>4. OnceInv
  BY <1>1, <1>3 DEF NoTableSinks, OnceInv, Open
<1>5. RowsInv
  BY <1>1, <1>3 DEF NoTableSinks, RowsInv
<1>6. ReplaceInv
  BY DEF NoTableSinks, ReplaceInv
<1> QED BY <1>2, <1>4, <1>5, <1>6 DEF TableInv

LEMMA ProbesAtRest == NoProbe => ProbeInv
<1> SUFFICES ASSUME NoProbe PROVE ProbeInv
  OBVIOUS
<1> DEFINE c == Check("config", "failed")
<1>1. c \in CheckType /\ c.name = "config" /\ c.status = "failed"
  BY DEF Check, CheckType, CheckNames, Statuses
<1>2. /\ source.type = "other" /\ source.secret = "none" /\ source.network /\ source \in Sources
      /\ rung = "end" /\ checks = <<c>> /\ world = Calm
  BY DEF NoProbe, Sources
<1>3. world \in WorldType /\ world.authed = world.bare
  BY <1>2, CalmWorld DEF Calm
<1>4. ~Configured
  BY <1>2 DEF Configured
<1> HIDE DEF c
<1>5. checks \in Seq(CheckType) /\ Len(checks) = 1
  BY <1>1, <1>2
<1>6. WorldInv /\ ClimbInv /\ MetInv
  BY <1>2, <1>3 DEF WorldInv, ClimbInv, MetInv, Climbing
<1>7. LadderShape
  BY <1>2, <1>4, <1>5 DEF LadderShape, c
<1>8. ReportAgreesWithRun
  BY <1>4, <1>7 DEF ReportAgreesWithRun
<1> QED BY <1>2, <1>3, <1>5, <1>6, <1>8 DEF ProbeInv, CheckNames

LEMMA RecordsAtRest == NoRecords => OutInv
<1> SUFFICES ASSUME NoRecords PROVE OutInv
  OBVIOUS
<1>1. heap = <<>> /\ buffers = <<>> /\ made = <<>> /\ image = <<>>
  BY DEF NoRecords
<1>2. IsList(<<>>) /\ Len(<<>>) = 0
  BY DEF IsList
<1>3. RecInv
  BY <1>1, <1>2 DEF RecInv, Closed, BuffersNeverChange
<1> QED BY <1>1, <1>2, <1>3 DEF OutInv

LibraryInv == (FileTypeOK /\ FileInv) /\ (TableTypeOK /\ TableInv) /\ ProbeInv /\ OutInv

\* A step of the library is a step of one kind, and the others stand still.
LEMMA OneKindSteps ==
  Next \/ UNCHANGED vars =>
      [FileStep]_fileVars /\ [TableStep]_tableVars /\ [ProbeStep]_probeVars /\ [RecordsStep]_recordVars
BY DEF Next, Rest, vars, fileVars, tableVars, probeVars, recordVars

LEMMA LibraryInvariance == Spec => []LibraryInv
<1>1. Init => LibraryInv
  BY FileInitInv, TableStart, ProbeStart, OutStart,
     FilesAtRest, TablesAtRest, ProbesAtRest, RecordsAtRest DEF Init, LibraryInv
<1>2. LibraryInv /\ [Next]_vars => LibraryInv'
  <2> SUFFICES ASSUME LibraryInv, [Next]_vars PROVE LibraryInv'
    OBVIOUS
  <2>1. [FileStep]_fileVars /\ [TableStep]_tableVars /\ [ProbeStep]_probeVars /\ [RecordsStep]_recordVars
    BY OneKindSteps
  <2>2. FileTypeOK' /\ FileInv'
    BY <2>1, FileNext DEF LibraryInv
  <2>3. TableTypeOK' /\ TableInv'
    BY <2>1, TableNext DEF LibraryInv
  <2>4. ProbeInv'
    BY <2>1, ProbeNext DEF LibraryInv
  <2>5. OutInv'
    BY <2>1, OutNext DEF LibraryInv
  <2> QED BY <2>2, <2>3, <2>4, <2>5 DEF LibraryInv
<1> QED BY <1>1, <1>2, PTL DEF Spec

\* Type correctness of the library that the run checks: file_sink, db_sink,
\* test_connection and the record-processing nodes in one specification.
THEOREM NodesTypeCorrect == Spec => []TypeOK
<1>1. LibraryInv => TypeOK
  <2> SUFFICES ASSUME LibraryInv PROVE TypeOK
    OBVIOUS
  <2>1. ProbeTypeOK
    BY ProbeTyped DEF LibraryInv
  <2>2. RecordsTypeOK
    BY RecordsTyped DEF LibraryInv, OutInv
  <2> QED BY <2>1, <2>2 DEF LibraryInv, TypeOK
<1> QED BY <1>1, LibraryInvariance, PTL
=============================================================================
