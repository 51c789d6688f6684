----------------------------- MODULE ApiSource -----------------------------
(***************************************************************************)
(* The api_source node: concurrent iterations of one node fetch a paged    *)
(* collection, each request with retries, all of them through the node's   *)
(* rate limiter and the run's http_semaphore.                              *)
(*                                                                         *)
(* Time is discrete and relative: a sleep is the time it has left, and     *)
(* the limiter's next slot the time until it is free.  Time passes only    *)
(* when every fetcher waits for something, so the event loop is prompt.    *)
(* A response takes any time, and is one of a few kinds.                   *)
(***************************************************************************)
EXTENDS Integers, Sequences, FiniteSets, FiniteSetsExt

CONSTANTS
    Fetchers,     \* concurrent executions of the node: finitely many
    Permits,      \* options.max_concurrency: size of http_semaphore
    Interval,     \* 1 / rps
    RetryMax,     \* retry.max
    Backoff,      \* retry.backoff
    RetryAfter,   \* what a server may ask for in Retry-After
    MaxPages,     \* pagination.max_pages
    Total,        \* size of the collection on the server
    Configs       \* node configurations and servers to explore

ASSUME ApiSourceAssumption ==
    /\ IsFiniteSet(Fetchers)
    /\ Permits \in Nat \ {0} /\ MaxPages \in Nat \ {0}
    /\ Interval \in Nat /\ RetryMax \in Nat /\ Backoff \in Nat
    /\ RetryAfter \in Nat /\ Total \in Nat

\* limit: what the client expects of a full page, 0 for None; size: what the
\* server puts on one; looping: the server never stops giving cursors.
ConfigType ==
    [mode : {"none", "cursor", "offset", "page"}, limit : Nat, size : Nat \ {0},
     looping : BOOLEAN, limited : BOOLEAN]

ASSUME ConfigsAssumption == Configs \subseteq ConfigType

VARIABLES
    cfg,          \* the configuration of the node
    pc,           \* position of a fetcher
    wait,         \* how long it still sleeps
    attempts,     \* the local of request_with_retry
    pages,        \* page_count
    param,        \* the offset, page or cursor of the next request
    records,      \* what has been fetched
    warned,       \* was "results may be truncated" logged?
    failure,      \* why it failed
    slotIn,       \* RateLimiter: time until _next_slot
    since         \* history: time since the last request went out, up to Interval

local == <<pages, param, records, warned>>
vars == <<cfg, pc, wait, attempts, local, failure, slotIn, since>>

Ended == {"done", "failed", "cancelled"}
InState(st) == {f \in Fetchers : pc[f] = st}

\* backoff * 2 ** n
Delay[n \in Nat] == IF n = 0 THEN Backoff ELSE 2 * Delay[n - 1]

Longest == Max({Interval * (Cardinality(Fetchers) + 1), RetryAfter, Delay[RetryMax]})

FetchOK ==
    /\ cfg \in Configs
    /\ pc \in [Fetchers -> {"attempt", "limiter", "semaphore", "inflight", "backoff"} \cup Ended]
    /\ attempts \in [Fetchers -> 0..(RetryMax + 1)]
    /\ pages \in [Fetchers -> 0..MaxPages]
    /\ param \in [Fetchers -> Nat]
    /\ records \in [Fetchers -> Seq(1..Total)]
    /\ warned \in [Fetchers -> BOOLEAN]
    /\ failure \in [Fetchers -> {"none", "retryable", "fatal", "validation"}]

\* Nobody sleeps longer than a queue of all fetchers, a backoff or the server
\* makes it.
ClockOK ==
    /\ wait \in [Fetchers -> 0..Longest]
    /\ slotIn \in 0..Longest
    /\ since \in 0..Interval

TypeOK == FetchOK /\ ClockOK

\* _fetch_all starts with the first offset, page or cursor.
Init ==
    /\ cfg \in Configs
    /\ pc = [f \in Fetchers |-> "attempt"]
    /\ wait = [f \in Fetchers |-> 0]
    /\ attempts = [f \in Fetchers |-> 0]
    /\ pages = [f \in Fetchers |-> 0]
    /\ param = [f \in Fetchers |-> IF cfg.mode = "page" THEN 1 ELSE 0]
    /\ records = [f \in Fetchers |-> <<>>]
    /\ warned = [f \in Fetchers |-> FALSE]
    /\ failure = [f \in Fetchers |-> "none"]
    /\ slotIn = 0
    /\ since = Interval

-----------------------------------------------------------------------------
(* request_with_retry and RateLimiter.                                     *)

Goto(f, st) == pc' = [pc EXCEPT ![f] = st]

\* RateLimiter.acquire: reserve the next free slot and sleep until then.
Acquire(f) ==
    /\ slotIn' = slotIn + Interval
    /\ wait' = [wait EXCEPT ![f] = slotIn]
    /\ Goto(f, "limiter")

Attempt(f) ==
    /\ pc[f] = "attempt"
    /\ attempts' = [attempts EXCEPT ![f] = @ + 1]
    /\ IF cfg.limited THEN Acquire(f) ELSE Goto(f, "semaphore") /\ UNCHANGED <<wait, slotIn>>
    /\ UNCHANGED <<cfg, local, failure, since>>

SlotReached(f) ==
    /\ pc[f] = "limiter" /\ wait[f] = 0
    /\ Goto(f, "semaphore")
    /\ UNCHANGED <<cfg, wait, attempts, local, failure, slotIn, since>>

PermitFree == Cardinality(InState("inflight")) < Permits

Send(f) ==
    /\ pc[f] = "semaphore" /\ PermitFree
    /\ Goto(f, "inflight")
    /\ since' = 0
    /\ UNCHANGED <<cfg, wait, attempts, local, failure, slotIn>>

MayRetry(f) == attempts[f] <= RetryMax

\* A transport error, 429 or 5xx with retries left; only a response can say
\* Retry-After.
Retry(f) ==
    LET delay == Delay[attempts[f] - 1] IN
    /\ pc[f] = "inflight" /\ MayRetry(f)
    /\ \E d \in {delay, Max({delay, RetryAfter})} : wait' = [wait EXCEPT ![f] = d]
    /\ Goto(f, "backoff")
    /\ UNCHANGED <<cfg, attempts, local, failure, slotIn, since>>

BackoffOver(f) ==
    /\ pc[f] = "backoff" /\ wait[f] = 0
    /\ Goto(f, "attempt")
    /\ UNCHANGED <<cfg, wait, attempts, local, failure, slotIn, since>>

\* Mutant: the failed attempt is counted again.
FailAndCount(f, why) ==
    /\ pc[f] = "inflight"
    /\ why = "retryable" => ~MayRetry(f)
    /\ failure' = [failure EXCEPT ![f] = why]
    /\ attempts' = [attempts EXCEPT ![f] = @ + 1]
    /\ Goto(f, "failed")
    /\ UNCHANGED <<cfg, wait, local, slotIn, since>>

\* RequestFailure, or a body that is not JSON or lacks the items.
Fail(f, why) ==
    /\ pc[f] = "inflight"
    /\ why = "retryable" => ~MayRetry(f)
    /\ failure' = [failure EXCEPT ![f] = why]
    /\ Goto(f, "failed")
    /\ UNCHANGED <<cfg, wait, attempts, local, slotIn, since>>

-----------------------------------------------------------------------------
(* _fetch_all.                                                             *)

\* The server: what it answers to the request for p.
First(p) == IF cfg.mode = "page" THEN (p - 1) * cfg.size ELSE p
PageSize == CASE cfg.mode = "none" -> Total
              [] cfg.mode = "offset" /\ cfg.limit # 0 -> Min({cfg.limit, cfg.size})
              [] OTHER -> cfg.size
Items(p) == SubSeq([i \in 1..Total |-> i], First(p) + 1, Min({First(p) + PageSize, Total}))
NextCursor(p) ==
    LET next == Min({p + PageSize, Total}) IN
    IF next = Total /\ ~cfg.looping THEN 0 ELSE next

\* Mutant: a full page counts as the last one.
MoreThanFull(p) ==
    CASE cfg.mode = "none" -> FALSE
      [] cfg.mode = "cursor" -> NextCursor(p) # 0
      [] OTHER -> Items(p) # <<>> /\ (cfg.limit = 0 \/ Len(Items(p)) > cfg.limit)

\* Is there another page, as far as this answer tells?
More(p) ==
    CASE cfg.mode = "none" -> FALSE
      [] cfg.mode = "cursor" -> NextCursor(p) # 0
      [] OTHER -> Items(p) # <<>> /\ (cfg.limit = 0 \/ Len(Items(p)) >= cfg.limit)

\* Mutant: the offset advances by the limit that was asked for.
NextParamByLimit(p) ==
    CASE cfg.mode = "cursor" -> NextCursor(p)
      [] cfg.mode = "offset" -> p + cfg.limit
      [] OTHER -> p + 1

NextParam(p) ==
    CASE cfg.mode = "cursor" -> NextCursor(p)
      [] cfg.mode = "offset" -> p + Len(Items(p))
      [] OTHER -> p + 1

\* Mutant: the cap on pages is not looked at.
AtCapNever(f) == FALSE

\* page_count >= max_pages, this page counted.
AtCap(f) == pages[f] + 1 >= MaxPages

\* A usable response: keep its records, then stop or turn the page.
Receive(f) ==
    LET p == param[f]
        stop == ~More(p) \/ AtCap(f)
    IN
    /\ pc[f] = "inflight"
    /\ records' = [records EXCEPT ![f] = @ \o Items(p)]
    /\ pages' = [pages EXCEPT ![f] = Min({@ + 1, MaxPages})]
    /\ param' = IF More(p) THEN [param EXCEPT ![f] = NextParam(p)] ELSE param
    /\ warned' = [warned EXCEPT ![f] = More(p) /\ AtCap(f)]
    /\ attempts' = IF stop THEN attempts ELSE [attempts EXCEPT ![f] = 0]
    /\ Goto(f, IF stop THEN "done" ELSE "attempt")
    /\ UNCHANGED <<cfg, wait, failure, slotIn, since>>

-----------------------------------------------------------------------------
\* Fail-fast: the TaskGroup cancels the other iterations after a failure.
Cancel(f) ==
    /\ InState("failed") # {} /\ pc[f] \notin Ended
    /\ Goto(f, "cancelled")
    /\ UNCHANGED <<cfg, wait, attempts, local, failure, slotIn, since>>

Sleeping == InState("limiter") \cup InState("backoff")

\* Somebody can run without waiting.
Busy ==
    \/ InState("attempt") # {}
    \/ \E f \in Sleeping : wait[f] = 0
    \/ InState("semaphore") # {} /\ PermitFree

TimePasses ==
    /\ ~Busy
    /\ wait' = [f \in Fetchers |-> IF f \in Sleeping THEN wait[f] - 1 ELSE wait[f]]
    /\ slotIn' = Max({slotIn - 1, 0})
    /\ since' = Min({since + 1, Interval})
    /\ UNCHANGED <<cfg, pc, attempts, local, failure>>

Respond(f) ==
    \/ Retry(f) \/ Receive(f)
    \/ \E why \in {"retryable", "fatal", "validation"} : Fail(f, why)

Step(f) == Attempt(f) \/ SlotReached(f) \/ Send(f) \/ Respond(f) \/ BackoffOver(f)

Next == TimePasses \/ \E f \in Fetchers : Step(f) \/ Cancel(f)

\* The event loop runs what can run, time goes on, and timeout_s bounds
\* every response.  Nothing is assumed about cancellation.
Spec == /\ Init /\ [][Next]_vars
        /\ WF_vars(TimePasses) /\ \A f \in Fetchers : WF_vars(Step(f))

-----------------------------------------------------------------------------
(* Properties.                                                             *)

\* The records are a prefix of the collection, without gaps or repetitions,
\* in every pagination mode and whatever was retried.
RecordsInOrder == \A f \in Fetchers : records[f] = [i \in 1..Len(records[f]) |-> i]

\* A fetch that ends without the warning has the whole collection, unless
\* the server puts less on a page than the client takes for a full one.
CompleteOrWarned ==
    \A f \in Fetchers : pc[f] = "done" /\ cfg.limit <= cfg.size =>
        Len(records[f]) = Total \/ warned[f]

\* Every fetch ends: the semaphore, the limiter, backoffs and a server that
\* never stops giving cursors hold nobody for ever.
EveryFetchEnds == \A f \in Fetchers : <>(pc[f] \in Ended)

\* "Per-node rate_limit.rps holds across concurrent iterations of that node":
\* requests go out at least an interval apart.
RateHolds ==
    [][cfg.limited /\ InState("inflight")' \ InState("inflight") # {} => since >= Interval]_vars
=============================================================================
