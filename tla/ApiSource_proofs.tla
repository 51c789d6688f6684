-------------------------- MODULE ApiSource_proofs --------------------------
(* Proofs about ApiSource, for every collection, page size, cap on pages   *)
(* and number of retries, and for any number of fetchers.                  *)
EXTENDS ApiSource, SequenceTheorems, FiniteSetTheorems, NaturalsInduction, TLAPS

Numbers(n) == [i \in 1..n |-> i]

-----------------------------------------------------------------------------
(* The inductive invariant.                                                *)

\* The first record that a fetcher has not asked for yet: a page beyond the
\* end asks for nothing.
Position(p) == Min({First(p), Total})

\* What has been fetched is what lies before the position of the next request,
\* in every mode; of a request that is sent again nothing was kept.
PageInv(f) ==
    /\ cfg.mode = "page" => param[f] >= 1
    /\ cfg.mode = "none" => param[f] = 0
    /\ records[f] = Numbers(Len(records[f]))
    /\ pc[f] # "done" => Len(records[f]) = Position(param[f])
    /\ pc[f] \in {"inflight", "limiter", "semaphore", "backoff"} => attempts[f] >= 1
    /\ pc[f] \in {"attempt", "backoff"} => attempts[f] <= RetryMax

\* The slots that lie more than t ahead belong to different fetchers: to those
\* that wait for them, and to those that were cancelled and left theirs.
Owners(t) == {f \in Fetchers : (pc[f] = "limiter" /\ wait[f] > t) \/ pc[f] = "cancelled"}

QueueInv == \A t \in Nat : slotIn - t <= Interval * (Cardinality(Owners(t)) + 1)

FetchInv == (\A f \in Fetchers : PageInv(f)) /\ CompleteOrWarned

-----------------------------------------------------------------------------
(* Lemmas about the operators.                                             *)

LEMMA MinPair ==
  ASSUME NEW a \in Int, NEW b \in Int
  PROVE  Min({a, b}) = IF a <= b THEN a ELSE b
BY DEF Min

LEMMA NumbersFacts ==
  ASSUME NEW n \in Nat
  PROVE  /\ Numbers(n) \in Seq(Nat)
         /\ Len(Numbers(n)) = n
         /\ \A i \in 1..n : Numbers(n)[i] = i
BY DEF Numbers

\* The server's pages start at a natural number and hold at least one record.
LEMMA PageFacts ==
  ASSUME cfg \in ConfigType, NEW p \in Nat, cfg.mode = "page" => p >= 1
  PROVE  /\ First(p) \in Nat
         /\ PageSize \in Nat
         /\ cfg.mode # "none" => PageSize >= 1
         /\ cfg.mode = "none" => PageSize = Total
         /\ cfg.mode \in {"cursor", "page"} => PageSize = cfg.size
         /\ cfg.mode = "offset" /\ cfg.limit # 0 /\ cfg.limit <= cfg.size => PageSize = cfg.limit
<1>1. cfg.size \in Nat \ {0} /\ cfg.limit \in Nat /\ Total \in Nat
  BY ApiSourceAssumption DEF ConfigType
<1>2. cfg.mode \in {"none", "cursor", "offset", "page"}
  BY DEF ConfigType
<1>3. First(p) \in Nat
  BY <1>1 DEF First
<1>4. Min({cfg.limit, cfg.size}) = IF cfg.limit <= cfg.size THEN cfg.limit ELSE cfg.size
  BY <1>1, MinPair
<1>5. QED
  BY <1>1, <1>2, <1>3, <1>4 DEF PageSize

\* What a page adds to the records before it.
LEMMA ItemsFacts ==
  ASSUME cfg \in ConfigType, NEW p \in Nat, cfg.mode = "page" => p >= 1
  PROVE  /\ Items(p) \in Seq(1..Total)
         /\ Len(Items(p)) = Min({First(p) + PageSize, Total}) - Position(p)
         /\ Numbers(Position(p)) \o Items(p) = Numbers(Min({First(p) + PageSize, Total}))
<1> DEFINE a == First(p)
           b == Min({First(p) + PageSize, Total})
           l == Position(p)
           N == Numbers(Total)
<1>1. a \in Nat /\ PageSize \in Nat /\ Total \in Nat
  BY PageFacts, ApiSourceAssumption
<1>2. b = (IF a + PageSize <= Total THEN a + PageSize ELSE Total) /\ b \in Nat
  BY <1>1, MinPair
<1>3. l = (IF a <= Total THEN a ELSE Total) /\ l \in Nat
  BY <1>1, MinPair DEF Position
<1>4. /\ a < Total => l = a /\ a <= b /\ b <= Total
      /\ a >= Total => l = Total /\ b = Total
  BY <1>1, <1>2, <1>3
<1>5. Items(p) = SubSeq(N, a + 1, b)
  BY DEF Items, Numbers
<1> HIDE DEF a, b, l
<1>6. \A i \in (a + 1)..b : N[i] = i /\ i \in 1..Total
  BY <1>1, <1>2, <1>4, NumbersFacts
<1>7. /\ SubSeq(N, a + 1, b) \in Seq(1..Total)
      /\ Len(SubSeq(N, a + 1, b)) = IF a + 1 <= b THEN b - (a + 1) + 1 ELSE 0
      /\ \A i \in 1..(b - (a + 1) + 1) : SubSeq(N, a + 1, b)[i] = N[(a + 1) + i - 1]
  BY <1>1, <1>2, <1>6, SubSeqProperties
<1> DEFINE s == SubSeq(N, a + 1, b)
           n == Len(s)
<1>8. n = b - l /\ n \in Nat
  BY <1>1, <1>2, <1>3, <1>4, <1>7
<1>9. \A i \in 1..n : s[i] = l + i
  <2> SUFFICES ASSUME NEW i \in 1..n PROVE s[i] = l + i
    OBVIOUS
  <2> HIDE DEF n
  <2>0. n \in Nat /\ n >= 1
    BY <1>8
  <2>1. a < Total /\ l = a /\ n = b - a
    BY <1>1, <1>4, <1>8, <2>0
  <2>2. s[i] = N[a + i] /\ a + i \in (a + 1)..b
    BY <1>1, <1>2, <1>7, <1>8, <2>1
  <2>3. QED
    BY <1>6, <2>1, <2>2
<1>10. s \in Seq(1..Total)
  BY <1>7
<1> HIDE DEF s, N
<1>11. Numbers(l) \o s = Numbers(b)
  <2> DEFINE u == Numbers(l)
             v == Numbers(b)
  <2>1. u \in Seq(Nat) /\ Len(u) = l /\ \A i \in 1..l : u[i] = i
    BY <1>3, NumbersFacts
  <2>2. v \in Seq(Nat) /\ Len(v) = b /\ \A i \in 1..b : v[i] = i
    BY <1>2, NumbersFacts
  <2>3. s \in Seq(Nat)
    BY <1>1, <1>10
  <2> HIDE DEF u, v
  <2>4. /\ u \o s \in Seq(Nat) /\ Len(u \o s) = l + n
        /\ \A i \in 1..(l + n) : (u \o s)[i] = IF i <= l THEN u[i] ELSE s[i - l]
    BY <2>1, <2>3, ConcatProperties DEF n
  <2> DEFINE w == u \o s
  <2> HIDE DEF w, n
  <2>5. Len(w) = b /\ \A i \in 1..b : w[i] = i
    <3>1. l + n = b
      BY <1>2, <1>3, <1>8
    <3>2. ASSUME NEW i \in 1..b PROVE w[i] = i
      <4>1. CASE i <= l
        BY <1>3, <2>1, <2>4, <3>1, <4>1 DEF w
      <4>2. CASE i > l
        <5>1. i - l \in 1..n /\ ~(i <= l)
          BY <1>2, <1>3, <1>8, <4>2
        <5>2. w[i] = s[i - l]
          BY <2>4, <3>1, <5>1 DEF w
        <5>3. QED
          BY <1>3, <1>9, <5>1, <5>2
      <4>3. QED
        BY <1>3, <4>1, <4>2
    <3>3. QED
      BY <2>4, <3>1, <3>2 DEF w
  <2>6. w = v
    BY <2>2, <2>4, <2>5, SeqEqual DEF w
  <2>7. QED
    BY <2>6 DEF w, u, v
<1>12. QED
  BY <1>5, <1>8, <1>10, <1>11 DEF s, n, a, b, l

\* The next request asks for what follows the page that was received.
LEMMA NextPage ==
  ASSUME cfg \in ConfigType, NEW p \in Nat, cfg.mode = "page" => p >= 1, More(p)
  PROVE  /\ NextParam(p) \in Nat
         /\ cfg.mode = "page" => NextParam(p) >= 1
         /\ cfg.mode # "none"
         /\ Position(NextParam(p)) = Min({First(p) + PageSize, Total})
<1> DEFINE a == First(p)
           b == Min({First(p) + PageSize, Total})
           k == Len(Items(p))
<1>1. a \in Nat /\ PageSize \in Nat /\ Total \in Nat
  BY PageFacts, ApiSourceAssumption
<1>2. b = (IF a + PageSize <= Total THEN a + PageSize ELSE Total) /\ b \in Nat
  BY <1>1, MinPair
<1>3. Position(p) = (IF a <= Total THEN a ELSE Total)
  BY <1>1, MinPair DEF Position
<1>4. Min({b, Total}) = b
  BY <1>1, <1>2, MinPair
<1>5. k = b - Position(p) /\ k \in Nat /\ (Items(p) # <<>> => k > 0)
  BY ItemsFacts
<1>6. cfg.mode \in {"none", "cursor", "offset", "page"} /\ cfg.size \in Nat \ {0}
  BY DEF ConfigType
<1> HIDE DEF a, b, k
<1>7. CASE cfg.mode = "cursor"
  <2>1. NextParam(p) = b /\ a = p
    BY <1>7 DEF NextParam, NextCursor, More, a, b, First
  <2>2. First(b) = b
    BY <1>7 DEF First
  <2>3. QED
    BY <1>2, <1>4, <1>7, <2>1, <2>2 DEF Position, b
<1>8. CASE cfg.mode = "offset"
  <2>1. NextParam(p) = p + k /\ a = p /\ Items(p) # <<>>
    BY <1>8 DEF NextParam, More, a, k, First
  <2>2. p + k = b
    BY <1>1, <1>2, <1>3, <1>5, <2>1
  <2>3. First(b) = b
    BY <1>8 DEF First
  <2>4. QED
    BY <1>2, <1>4, <1>8, <2>1, <2>2, <2>3 DEF Position, b
<1>9. CASE cfg.mode = "page"
  <2>1. NextParam(p) = p + 1 /\ PageSize = cfg.size /\ p \in Nat /\ p >= 1
    BY <1>9, PageFacts DEF NextParam
  <2>2. First(p + 1) = p * cfg.size /\ a = (p - 1) * cfg.size
    BY <1>6, <1>9 DEF First, a
  <2>3. p * cfg.size = (p - 1) * cfg.size + cfg.size
    <3> DEFINE z == cfg.size
    <3>1. z \in Int /\ p \in Int
      BY <1>6
    <3> HIDE DEF z
    <3>2. p * z = (p - 1) * z + z
      BY <3>1
    <3>3. QED
      BY <3>2 DEF z
  <2>4. First(NextParam(p)) = a + PageSize
    BY <2>1, <2>2, <2>3
  <2>5. QED
    BY <1>9, <2>1, <2>4 DEF Position, a
<1>10. CASE cfg.mode = "none"
  BY <1>10 DEF More
<1>11. QED
  BY <1>6, <1>7, <1>8, <1>9, <1>10

\* A page without a successor reaches the end of the collection.
LEMMA LastPage ==
  ASSUME cfg \in ConfigType, NEW p \in Nat, cfg.mode = "page" => p >= 1,
         cfg.mode = "none" => p = 0, cfg.limit <= cfg.size, ~More(p)
  PROVE  Min({First(p) + PageSize, Total}) = Total
<1> DEFINE a == First(p)
           b == Min({First(p) + PageSize, Total})
           k == Len(Items(p))
<1>1. a \in Nat /\ PageSize \in Nat /\ Total \in Nat
  BY PageFacts, ApiSourceAssumption
<1>2. b = (IF a + PageSize <= Total THEN a + PageSize ELSE Total) /\ b \in Nat
  BY <1>1, MinPair
<1>3. Position(p) = (IF a <= Total THEN a ELSE Total)
  BY <1>1, MinPair DEF Position
<1>5. k = b - Position(p) /\ k \in Nat /\ (Items(p) = <<>> => k = 0)
  BY ItemsFacts
<1>6. /\ cfg.mode \in {"none", "cursor", "offset", "page"}
      /\ cfg.size \in Nat \ {0} /\ cfg.limit \in Nat
  BY DEF ConfigType
<1> HIDE DEF a, b, k
<1>7. CASE cfg.mode = "none"
  <2>1. a = 0 /\ PageSize = Total
    BY <1>7, PageFacts DEF First, a
  <2>2. QED
    BY <1>1, <1>2, <2>1 DEF b
<1>8. CASE cfg.mode = "cursor"
  <2>1. b = 0 \/ b = Total
    BY <1>8 DEF More, NextCursor, b, First
  <2>2. PageSize >= 1
    BY <1>8, PageFacts
  <2>3. QED
    BY <1>1, <1>2, <2>1, <2>2 DEF b
<1>9. CASE cfg.mode \in {"offset", "page"}
  <2>1. k = 0 \/ (cfg.limit # 0 /\ k < cfg.limit)
    BY <1>5, <1>6, <1>9 DEF More, k
  <2>2. PageSize >= 1 /\ (cfg.limit # 0 => PageSize >= cfg.limit)
    BY <1>6, <1>9, PageFacts
  <2>3. QED
    BY <1>1, <1>2, <1>3, <1>5, <1>6, <2>1, <2>2 DEF b
<1>10. QED
  BY <1>6, <1>7, <1>8, <1>9

-----------------------------------------------------------------------------
(* The invariant, action by action.                                        *)

LEMMA FetchInit == Init => FetchOK /\ FetchInv
<1> SUFFICES ASSUME Init PROVE FetchOK /\ FetchInv
  OBVIOUS
<1>1. cfg \in ConfigType /\ Total \in Nat
  BY ConfigsAssumption, ApiSourceAssumption DEF Init
<1>2. FetchOK
  BY ApiSourceAssumption DEF Init, FetchOK, Ended
<1>3. ASSUME NEW f \in Fetchers PROVE PageInv(f)
  <2>1. First(param[f]) = 0
    BY <1>1 DEF Init, First, ConfigType
  <2>2. Position(param[f]) = 0
    BY <1>1, <2>1, MinPair DEF Position
  <2>3. records[f] = <<>> /\ Numbers(0) = <<>>
    BY DEF Init, Numbers
  <2>4. QED
    BY <1>1, <2>2, <2>3, ApiSourceAssumption DEF Init, PageInv
<1>4. CompleteOrWarned
  BY DEF Init, CompleteOrWarned
<1>5. QED
  BY <1>2, <1>3, <1>4 DEF FetchInv

\* Steps that neither receive nor finish.
LEMMA FetchFrame ==
  ASSUME FetchInv, UNCHANGED <<cfg, pages, param, records, warned>>,
         \A f \in Fetchers :
            /\ pc'[f] = "done" <=> pc[f] = "done"
            /\ pc'[f] \in {"inflight", "limiter", "semaphore", "backoff"} => attempts'[f] >= 1
            /\ pc'[f] \in {"attempt", "backoff"} => attempts'[f] <= RetryMax
  PROVE  FetchInv'
<1>1. \A f \in Fetchers : Position(param[f])' = Position(param[f])
  BY DEF Position, First
<1>2. QED
  BY <1>1 DEF FetchInv, PageInv, CompleteOrWarned

LEMMA ReceiveStep ==
  ASSUME FetchOK, FetchInv, NEW f \in Fetchers, Receive(f)
  PROVE  FetchOK' /\ FetchInv'
<1> DEFINE p == param[f]
           b == Min({First(p) + PageSize, Total})
           stop == ~More(p) \/ AtCap(f)
<1>0. /\ cfg \in ConfigType /\ p \in Nat /\ cfg' = cfg
      /\ Total \in Nat /\ MaxPages \in Nat \ {0} /\ RetryMax \in Nat
  BY ConfigsAssumption, ApiSourceAssumption DEF FetchOK, Receive
<1>1. PageInv(f) /\ pc[f] = "inflight"
  BY DEF FetchInv, Receive
<1>2. records[f] = Numbers(Position(p))
  BY <1>1 DEF PageInv
<1>3. b \in Nat /\ records'[f] = Numbers(b) /\ Len(records'[f]) = b
  <2>0. First(p) \in Nat /\ PageSize \in Nat
    BY <1>0, <1>1, PageFacts DEF PageInv
  <2>1. First(p) + PageSize \in Nat
    BY <2>0
  <2>2. b \in Nat
    BY <1>0, <2>1, MinPair
  <2>3. records'[f] = records[f] \o Items(p)
    BY DEF Receive, FetchOK
  <2>4. records'[f] = Numbers(b)
    BY <1>0, <1>1, <1>2, <2>3, ItemsFacts DEF PageInv
  <2>5. QED
    BY <2>2, <2>4, NumbersFacts
<1>4. \A g \in Fetchers \ {f} : /\ pc'[g] = pc[g] /\ records'[g] = records[g]
                                 /\ param'[g] = param[g] /\ warned'[g] = warned[g]
                                 /\ attempts'[g] = attempts[g]
  BY DEF Receive, Goto, FetchOK
<1>5. /\ pc'[f] = IF stop THEN "done" ELSE "attempt"
      /\ warned'[f] = (More(p) /\ AtCap(f))
      /\ param'[f] = IF More(p) THEN NextParam(p) ELSE p
      /\ attempts'[f] = IF stop THEN attempts[f] ELSE 0
  BY DEF Receive, Goto, FetchOK
<1>6. FetchOK'
  <2>1. param' \in [Fetchers -> Nat]
    BY <1>0, <1>1, NextPage DEF Receive, FetchOK, PageInv
  <2>2. records' \in [Fetchers -> Seq(1..Total)]
    <3>1. Items(p) \in Seq(1..Total) /\ records[f] \in Seq(1..Total)
      BY <1>0, <1>1, ItemsFacts DEF PageInv, FetchOK
    <3>2. records[f] \o Items(p) \in Seq(1..Total)
      BY <3>1
    <3>3. QED
      BY <3>2 DEF Receive, FetchOK
  <2>3. pages' \in [Fetchers -> 0..MaxPages]
    <3>1. pages[f] \in 0..MaxPages
      BY DEF FetchOK
    <3>2. Min({pages[f] + 1, MaxPages}) \in 0..MaxPages
      BY <1>0, <3>1, MinPair
    <3>3. QED
      BY <3>2 DEF Receive, FetchOK
  <2>4. attempts' \in [Fetchers -> 0..(RetryMax + 1)]
    BY <1>0 DEF Receive, FetchOK
  <2>5. warned' \in [Fetchers -> BOOLEAN]
    <3>1. (More(p) /\ AtCap(f)) \in BOOLEAN
      OBVIOUS
    <3>2. QED
      BY <3>1, Zenon DEF Receive, FetchOK
  <2>6. QED
    BY <2>1, <2>2, <2>3, <2>4, <2>5 DEF Receive, Goto, FetchOK, Ended
<1>7. PageInv(f)'
  <2>1. Position(param[f])' = Position(param'[f])
    BY <1>0 DEF Position, First
  <2>2. pc'[f] # "done" => b = Position(param'[f])
    BY <1>0, <1>1, <1>5, NextPage DEF PageInv
  <2>3. /\ cfg.mode = "page" => param'[f] >= 1
        /\ cfg.mode = "none" => param'[f] = 0
    BY <1>0, <1>1, <1>5, NextPage DEF PageInv
  <2>4. /\ pc'[f] \in {"done", "attempt"}
        /\ pc'[f] = "attempt" => attempts'[f] <= RetryMax
    BY <1>0, <1>5
  <2>5. QED
    BY <1>0, <1>3, <2>1, <2>2, <2>3, <2>4 DEF PageInv
<1>8. \A g \in Fetchers \ {f} : PageInv(g)'
  BY <1>0, <1>4 DEF FetchInv, PageInv, Position, First
<1>9. CompleteOrWarned'
  <2>1. ASSUME pc'[f] = "done", cfg.limit <= cfg.size PROVE b = Total \/ warned'[f]
    <3>1. CASE More(p)
      BY <1>5, <2>1, <3>1
    <3>2. CASE ~More(p)
      BY <1>0, <1>1, <2>1, <3>2, LastPage DEF PageInv
    <3>3. QED
      BY <3>1, <3>2
  <2>2. QED
    BY <1>0, <1>3, <1>4, <2>1 DEF FetchInv, CompleteOrWarned
<1>10. QED
  BY <1>6, <1>7, <1>8, <1>9 DEF FetchInv

\* One step keeps types and invariant.
LEMMA FetchStep ==
  ASSUME FetchOK, FetchInv, [Next]_vars
  PROVE  FetchOK' /\ FetchInv'
<1> USE DEF Goto, local
<1>0. RetryMax \in Nat /\ \A f \in Fetchers : PageInv(f) /\ attempts[f] \in 0..(RetryMax + 1)
  BY ApiSourceAssumption DEF FetchOK, FetchInv
<1>1. ASSUME NEW f \in Fetchers, Attempt(f) PROVE FetchOK' /\ FetchInv'
  <2>1. attempts[f] <= RetryMax /\ attempts'[f] = attempts[f] + 1 /\ attempts'[f] >= 1
    BY <1>0, <1>1 DEF Attempt, FetchOK, PageInv
  <2>2. pc'[f] \in {"limiter", "semaphore"} /\ pc[f] = "attempt"
    BY <1>1 DEF Attempt, Acquire, FetchOK
  <2>3. /\ \A g \in Fetchers \ {f} : pc'[g] = pc[g] /\ attempts'[g] = attempts[g]
        /\ UNCHANGED <<cfg, pages, param, records, warned, failure>>
    BY <1>1 DEF Attempt, Acquire, FetchOK
  <2>4. FetchOK'
    <3>1. attempts' \in [Fetchers -> 0..(RetryMax + 1)]
      BY <1>0, <1>1, <2>1 DEF Attempt, FetchOK
    <3>2. QED
      BY <1>1, <2>3, <3>1 DEF Attempt, Acquire, FetchOK, Ended
  <2>5. FetchInv'
    BY <1>0, <2>1, <2>2, <2>3, FetchFrame DEF PageInv
  <2>6. QED
    BY <2>4, <2>5
<1>2. ASSUME NEW f \in Fetchers,
             \/ SlotReached(f) \/ Send(f) \/ Retry(f) \/ BackoffOver(f) \/ Cancel(f)
             \/ \E why \in {"retryable", "fatal", "validation"} : Fail(f, why)
      PROVE  FetchOK' /\ FetchInv'
  <2>1. UNCHANGED <<cfg, pages, param, records, warned, attempts>>
    BY <1>2 DEF SlotReached, Send, Retry, BackoffOver, Cancel, Fail
  <2>2. FetchOK'
    BY <1>2, <2>1 DEF SlotReached, Send, Retry, BackoffOver, Cancel, Fail, FetchOK, Ended
  <2>3. /\ \A g \in Fetchers \ {f} : pc'[g] = pc[g]
        /\ pc[f] # "done" /\ pc'[f] # "done"
        /\ pc'[f] = "attempt" => pc[f] = "backoff"
        /\ pc'[f] = "backoff" => pc[f] = "inflight" /\ MayRetry(f)
        /\ pc'[f] \in {"semaphore", "inflight"} => pc[f] \in {"limiter", "semaphore"}
        /\ pc'[f] # "limiter"
    BY <1>2 DEF SlotReached, Send, Retry, BackoffOver, Cancel, Fail, FetchOK, Ended
  <2>4. FetchInv'
    BY <1>0, <2>1, <2>3, FetchFrame DEF PageInv, MayRetry
  <2>5. QED
    BY <2>2, <2>4
<1>3. CASE TimePasses
  <2>1. UNCHANGED <<cfg, pc, attempts, local, failure>>
    BY <1>3 DEF TimePasses
  <2>2. QED
    BY <1>0, <2>1, FetchFrame DEF FetchOK, PageInv
<1>4. CASE UNCHANGED vars
  <2>1. UNCHANGED <<cfg, pc, attempts, local, failure>>
    BY <1>4 DEF vars
  <2>2. QED
    BY <1>0, <2>1, FetchFrame DEF FetchOK, PageInv
<1>5. QED
  BY <1>1, <1>2, <1>3, <1>4, ReceiveStep DEF Next, Step, Respond

\* The invariant holds throughout.
LEMMA FetchInvariance == Spec => [](FetchOK /\ FetchInv)
<1>1. FetchOK /\ FetchInv /\ [Next]_vars => FetchOK' /\ FetchInv'
  BY FetchStep
<1>2. QED
  BY <1>1, FetchInit, PTL DEF Spec

\* Whatever the pagination mode, the sizes of pages on either side and the
\* retries, _fetch_all keeps each record once and in order.
THEOREM FetchKeepsOrder == Spec => []RecordsInOrder
<1>1. FetchInv => RecordsInOrder
  BY DEF FetchInv, PageInv, RecordsInOrder, Numbers
<1>2. QED
  BY <1>1, FetchInvariance, PTL

\* A fetch that ends has everything or has logged that it may not, for every
\* collection and cap, if the server fills pages of the size asked for.
THEOREM FetchIsCompleteOrWarned == Spec => []CompleteOrWarned
<1>1. FetchInv => CompleteOrWarned
  BY DEF FetchInv
<1>2. QED
  BY <1>1, FetchInvariance, PTL

-----------------------------------------------------------------------------
(* Time: backoffs and the queue of the rate limiter.                       *)

LEMMA LeastNat ==
  ASSUME NEW T, T \subseteq Nat, T # {}
  PROVE  \E x \in T : \A y \in T : x <= y
<1> DEFINE R == OpToRel(<, Nat)
<1>1. IsWellFoundedOn(R, Nat)
  BY NatLessThanWellFounded
<1>2. \A x, y \in Nat : x < y => <<x, y>> \in R
  BY DEF OpToRel
<1> HIDE DEF R
<1>3. PICK x \in T : \A y \in T : ~(<<y, x>> \in R)
  BY <1>1, WFMin
<1>4. ASSUME NEW y \in T PROVE x <= y
  <2>1. x \in Nat /\ y \in Nat
    BY <1>3
  <2>2. ~(y < x)
    BY <2>1, <1>2, <1>3
  <2> QED BY <2>1, <2>2
<1> QED BY <1>3, <1>4

\* The backoff of an attempt is the double of the one before.
LEMMA DelayFacts ==
  /\ Delay \in [Nat -> Nat] /\ Delay[0] = Backoff
  /\ \A n \in Nat : n > 0 => Delay[n] = 2 * Delay[n - 1]
<1> DEFINE Good(g, n) == /\ g \in [0..n -> Nat] /\ g[0] = Backoff
                         /\ \A k \in 1..n : g[k] = 2 * g[k - 1]
           Bad == {n \in Nat : ~\E g : Good(g, n)}
<1>1. ASSUME NEW n \in Nat PROVE \E g : Good(g, n)
  <2> SUFFICES ASSUME Bad # {} PROVE FALSE
    OBVIOUS
  <2>1. PICK m \in Bad : \A y \in Bad : m <= y
    BY LeastNat
  <2>2. m # 0
    <3> DEFINE g == [k \in 0..0 |-> Backoff]
    <3>1. Good(g, 0)
      BY ApiSourceAssumption
    <3> QED BY <3>1
  <2>3. m \in Nat /\ m - 1 \in Nat /\ m - 1 < m
    BY <2>2
  <2>4. PICK g : Good(g, m - 1)
    <3>1. m - 1 \notin Bad
      <4> HIDE DEF Bad
      <4> QED BY <2>1, <2>3
    <3> HIDE DEF Good
    <3> QED BY <3>1, <2>3
  <2> DEFINE h == [k \in 0..m |-> IF k = m THEN 2 * g[m - 1] ELSE g[k]]
  <2>5. h \in [0..m -> Nat]
    BY <2>3, <2>4
  <2>6. h[0] = Backoff /\ \A k \in 1..m : h[k] = 2 * h[k - 1]
    BY <2>3, <2>4
  <2>7. Good(h, m)
    BY <2>5, <2>6
  <2> QED BY <2>7
<1>2. ASSUME NEW n \in Nat, NEW m \in 0..n, NEW g, NEW h, Good(g, n), Good(h, m)
      PROVE  \A k \in 0..m : g[k] = h[k]
  <2> DEFINE D == {k \in 0..m : g[k] # h[k]}
  <2> SUFFICES ASSUME D # {} PROVE FALSE
    OBVIOUS
  <2>0. D \subseteq Nat
    OBVIOUS
  <2>1. PICK k \in D : \A y \in D : k <= y
    <3> HIDE DEF D
    <3> QED BY <2>0, LeastNat
  <2>2. k # 0
    BY <1>2
  <2>3. k - 1 \in 0..m /\ k - 1 < k /\ k \in 1..m /\ k \in 1..n
    BY <2>2
  <2>4. g[k - 1] = h[k - 1]
    BY <2>1, <2>3
  <2> QED BY <1>2, <2>3, <2>4
<1> DEFINE G(n) == CHOOSE g : Good(g, n)
           f == [n \in Nat |-> G(n)[n]]
<1>3. ASSUME NEW n \in Nat PROVE Good(G(n), n)
  BY <1>1
<1> HIDE DEF Good, G
<1>4. f \in [Nat -> Nat] /\ f[0] = Backoff
  BY <1>3 DEF Good
<1>5. ASSUME NEW n \in Nat, n > 0 PROVE f[n] = 2 * f[n - 1]
  <2>1. n - 1 \in Nat /\ n - 1 \in 0..n /\ n - 1 \in 0..(n - 1) /\ n \in 1..n
    BY <1>5
  <2>2. G(n)[n] = 2 * G(n)[n - 1]
    BY <2>1, <1>3 DEF Good
  <2>3. G(n)[n - 1] = G(n - 1)[n - 1]
    BY <2>1, <1>2, <1>3
  <2> QED BY <2>1, <2>2, <2>3
<1> HIDE DEF f
<1>6. f = [n \in Nat |-> IF n = 0 THEN Backoff ELSE 2 * f[n - 1]]
  BY <1>4, <1>5
<1>7. \E d : d = [n \in Nat |-> IF n = 0 THEN Backoff ELSE 2 * d[n - 1]]
  BY <1>6
<1>8. Delay = [n \in Nat |-> IF n = 0 THEN Backoff ELSE 2 * Delay[n - 1]]
  BY <1>7, Zenon DEF Delay
<1>9. /\ Delay[0] = Backoff
      /\ \A n \in Nat : n > 0 => Delay[n] = 2 * Delay[n - 1]
  BY <1>8
<1>10. \A n \in Nat : Delay[n] = f[n]
  <2> DEFINE D == {k \in Nat : Delay[k] # f[k]}
  <2> SUFFICES ASSUME D # {} PROVE FALSE
    OBVIOUS
  <2>1. PICK k \in D : \A y \in D : k <= y
    BY LeastNat
  <2>2. k \in Nat /\ k # 0
    BY <1>4, <1>9
  <2>3. k - 1 \in Nat /\ k - 1 < k
    BY <2>2
  <2>4. Delay[k - 1] = f[k - 1]
    BY <2>1, <2>3
  <2> QED BY <1>5, <1>9, <2>2, <2>3, <2>4
<1>11. Delay = [n \in Nat |-> f[n]]
  BY <1>8, <1>10
<1> QED BY <1>4, <1>9, <1>11

LEMMA DelayGrows ==
  ASSUME NEW i \in Nat, NEW j \in Nat, i <= j
  PROVE  Delay[i] <= Delay[j]
<1> DEFINE Bad == {n \in Nat : \E m \in 0..n : Delay[m] > Delay[n]}
<1>1. \A n \in Nat : Delay[n] \in Nat
  BY DelayFacts
<1>2. Bad = {}
  <2> SUFFICES ASSUME Bad # {} PROVE FALSE
    OBVIOUS
  <2>1. PICK n \in Bad : \A y \in Bad : n <= y
    <3>1. Bad \subseteq Nat
      OBVIOUS
    <3> HIDE DEF Bad
    <3> QED BY <3>1, LeastNat
  <2>2. PICK m \in 0..n : Delay[m] > Delay[n]
    BY <2>1
  <2>3. n \in Nat /\ m \in Nat /\ m # n /\ n > 0 /\ n - 1 \in Nat /\ m \in 0..(n - 1)
    BY <1>1, <2>1, <2>2
  <2>4. ~(n - 1 \in Bad)
    <3> HIDE DEF Bad
    <3> QED BY <2>1, <2>3
  <2>5. ~(Delay[m] > Delay[n - 1])
    BY <2>3, <2>4
  <2>6. Delay[n] = 2 * Delay[n - 1]
    BY <2>3, DelayFacts
  <2> QED BY <1>1, <2>2, <2>3, <2>5, <2>6
<1>3. ~(j \in Bad)
  BY <1>2
<1>4. i \in 0..j
  OBVIOUS
<1> QED BY <1>1, <1>3, <1>4

LEMMA LongestFacts ==
  /\ Longest \in Nat
  /\ Interval * (Cardinality(Fetchers) + 1) <= Longest
  /\ RetryAfter <= Longest
  /\ Delay[RetryMax] <= Longest
<1> DEFINE a == Interval * (Cardinality(Fetchers) + 1)
           d == Delay[RetryMax]
<1>1. a \in Nat
  <2>1. Cardinality(Fetchers) \in Nat /\ Interval \in Nat
    BY ApiSourceAssumption, FS_CardinalityType
  <2> QED BY <2>1
<1>2. d \in Nat /\ RetryAfter \in Nat
  BY ApiSourceAssumption, DelayFacts
<1>3. Longest = Max({a, RetryAfter, d})
  BY DEF Longest
<1> HIDE DEF a, d
<1>4. \E x \in {a, RetryAfter, d} : \A y \in {a, RetryAfter, d} : x >= y
  BY <1>1, <1>2
<1>5. Longest \in {a, RetryAfter, d} /\ \A y \in {a, RetryAfter, d} : Longest >= y
  BY <1>3, <1>4 DEF Max
<1> QED BY <1>1, <1>2, <1>5 DEF a, d

\* A product of the interval with a larger number of fetchers is no smaller.
LEMMA Slots ==
  ASSUME NEW n \in Nat, NEW m \in Nat, n <= m
  PROVE  /\ Interval * n \in Nat /\ Interval * n <= Interval * m
         /\ Interval * (n + 1) = Interval * n + Interval
<1>1. Interval \in Nat
  BY ApiSourceAssumption
<1>2. PICK k \in Nat : m = n + k
  <2>1. m - n \in Nat /\ m = n + (m - n)
    OBVIOUS
  <2> QED BY <2>1
<1>3. Interval * m = Interval * n + Interval * k
  BY <1>1, <1>2
<1>4. Interval * k \in Nat /\ Interval * n \in Nat
  BY <1>1, <1>2
<1>5. Interval * (n + 1) = Interval * n + Interval
  BY <1>1
<1> QED BY <1>3, <1>4, <1>5

\* How many own a slot.
LEMMA OwnersFacts ==
  ASSUME NEW t \in Nat
  PROVE  /\ IsFiniteSet(Owners(t)) /\ Cardinality(Owners(t)) \in Nat
         /\ Cardinality(Owners(t)) <= Cardinality(Fetchers)
         /\ Cardinality(Fetchers) \in Nat
<1>1. IsFiniteSet(Fetchers) /\ Owners(t) \subseteq Fetchers
  BY ApiSourceAssumption DEF Owners
<1> QED BY <1>1, FS_Subset, FS_CardinalityType

\* Steps that take no slot, and free none that lies ahead.
LEMMA QueueFrame ==
  ASSUME QueueInv, slotIn \in Nat, slotIn' = slotIn,
         \A t \in Nat : Owners(t) \subseteq Owners(t)'
  PROVE  QueueInv'
<1> SUFFICES ASSUME NEW t \in Nat
             PROVE  slotIn' - t <= Interval * (Cardinality(Owners(t)') + 1)
  BY DEF QueueInv
<1> DEFINE n == Cardinality(Owners(t))
           m == Cardinality(Owners(t)')
<1>1. n \in Nat /\ m \in Nat /\ n <= m
  <2>1. Owners(t)' \subseteq Fetchers
    BY DEF Owners
  <2>2. IsFiniteSet(Owners(t)')
    BY <2>1, ApiSourceAssumption, FS_Subset
  <2> QED BY <2>2, FS_Subset, FS_CardinalityType
<1>2. slotIn - t <= Interval * (n + 1)
  BY DEF QueueInv
<1> HIDE DEF n, m
<1>3. /\ Interval * (n + 1) <= Interval * (m + 1)
      /\ Interval * (n + 1) \in Nat /\ Interval * (m + 1) \in Nat
  <2>1. n + 1 \in Nat /\ m + 1 \in Nat /\ n + 1 <= m + 1
    BY <1>1
  <2> QED BY <2>1, Slots
<1>4. slotIn' - t <= Interval * (m + 1)
  BY <1>2, <1>3
<1> QED BY <1>4 DEF m

\* RateLimiter.acquire: who reserves a slot owns it.
LEMMA AcquireStep ==
  ASSUME FetchOK, ClockOK, QueueInv, NEW f \in Fetchers, pc[f] = "attempt", Acquire(f)
  PROVE  QueueInv'
<1> SUFFICES ASSUME NEW t \in Nat
             PROVE  slotIn' - t <= Interval * (Cardinality(Owners(t)') + 1)
  BY DEF QueueInv
<1> DEFINE n == Cardinality(Owners(t))
           m == Cardinality(Owners(t)')
<1>1. slotIn \in Nat /\ slotIn' = slotIn + Interval /\ Interval \in Nat
  BY LongestFacts, ApiSourceAssumption DEF ClockOK, Acquire
<1>2. /\ pc'[f] = "limiter" /\ wait'[f] = slotIn
      /\ \A g \in Fetchers \ {f} : pc'[g] = pc[g] /\ wait'[g] = wait[g]
  BY DEF Acquire, Goto, FetchOK, ClockOK
<1>3. n \in Nat /\ m \in Nat /\ IsFiniteSet(Owners(t))
  <2>1. Owners(t)' \subseteq Fetchers
    BY DEF Owners
  <2>2. IsFiniteSet(Owners(t)')
    BY <2>1, ApiSourceAssumption, FS_Subset
  <2> QED BY <2>2, FS_CardinalityType, OwnersFacts
<1>4. slotIn - t <= Interval * (n + 1)
  BY DEF QueueInv
<1>5. CASE slotIn > t
  <2>1. f \notin Owners(t) /\ Owners(t)' = Owners(t) \cup {f}
    BY <1>2, <1>5 DEF Owners
  <2>2. m = n + 1
    BY <2>1, <1>3, FS_AddElement
  <2> HIDE DEF n, m
  <2>3. Interval * (m + 1) = Interval * (n + 1) + Interval /\ Interval * (n + 1) \in Nat
    <3>1. n + 1 \in Nat /\ m + 1 = (n + 1) + 1
      BY <1>3, <2>2
    <3>2. Interval * ((n + 1) + 1) = Interval * (n + 1) + Interval /\ Interval * (n + 1) \in Nat
      BY <3>1, Slots
    <3> QED BY <3>1, <3>2
  <2>4. slotIn' - t <= Interval * (m + 1)
    BY <1>1, <1>4, <2>3
  <2> QED BY <2>4 DEF m
<1>6. CASE ~(slotIn > t)
  <2> HIDE DEF n, m
  <2>1. slotIn' - t <= Interval
    BY <1>1, <1>6
  <2>2. Interval * (m + 1) = Interval * m + Interval /\ Interval * m \in Nat
    BY <1>3, Slots
  <2>3. slotIn' - t <= Interval * (m + 1)
    BY <1>1, <2>1, <2>2
  <2> QED BY <2>3 DEF m
<1> QED BY <1>5, <1>6

\* Time brings every slot nearer, and everyone who waits for one.
LEMMA TimeStep ==
  ASSUME FetchOK, ClockOK, QueueInv, TimePasses
  PROVE  ClockOK' /\ QueueInv'
<1>1. /\ wait \in [Fetchers -> 0..Longest] /\ slotIn \in 0..Longest /\ since \in 0..Interval
      /\ Longest \in Nat /\ Interval \in Nat
  BY LongestFacts, ApiSourceAssumption DEF ClockOK
<1>2. slotIn' = IF slotIn = 0 THEN 0 ELSE slotIn - 1
  <2>1. slotIn' = Max({slotIn - 1, 0})
    BY DEF TimePasses
  <2>2. Max({slotIn - 1, 0}) = IF slotIn = 0 THEN 0 ELSE slotIn - 1
    BY <1>1 DEF Max
  <2> QED BY <2>1, <2>2
<1>3. since' \in 0..Interval
  <2>1. since' = Min({since + 1, Interval})
    BY DEF TimePasses
  <2>2. Min({since + 1, Interval}) = IF since + 1 <= Interval THEN since + 1 ELSE Interval
    BY <1>1, MinPair
  <2> QED BY <1>1, <2>1, <2>2
<1>4. /\ pc' = pc
      /\ wait' = [f \in Fetchers |-> IF f \in Sleeping THEN wait[f] - 1 ELSE wait[f]]
      /\ \A f \in Fetchers : pc[f] \in {"limiter", "backoff"} <=> f \in Sleeping
      /\ \A f \in Sleeping : wait[f] # 0
  BY DEF TimePasses, Busy, Sleeping, InState
<1>5. wait' \in [Fetchers -> 0..Longest]
  <2>1. \A f \in Fetchers : (IF f \in Sleeping THEN wait[f] - 1 ELSE wait[f]) \in 0..Longest
    BY <1>1, <1>4
  <2> QED BY <1>4, <2>1
<1>6. ClockOK'
  <2>1. slotIn' \in 0..Longest
    BY <1>1, <1>2
  <2> QED BY <2>1, <1>3, <1>5 DEF ClockOK, Longest
<1>7. ASSUME NEW t \in Nat
      PROVE  slotIn' - t <= Interval * (Cardinality(Owners(t)') + 1)
  <2>1. Owners(t)' = Owners(t + 1)
    <3>1. ASSUME NEW f \in Fetchers, pc[f] = "limiter"
          PROVE  wait'[f] > t <=> wait[f] > t + 1
      <4>1. wait'[f] = wait[f] - 1 /\ wait[f] \in Nat
        BY <1>1, <1>4, <3>1
      <4> QED BY <4>1
    <3> QED BY <3>1, <1>4 DEF Owners
  <2> DEFINE n == Cardinality(Owners(t + 1))
  <2>2. slotIn - (t + 1) <= Interval * (n + 1)
    BY DEF QueueInv
  <2>3. n \in Nat
    BY OwnersFacts
  <2> HIDE DEF n
  <2>4. Interval * (n + 1) \in Nat
    BY <2>3, <1>1
  <2>5. slotIn' - t <= Interval * (n + 1)
    BY <1>1, <1>2, <2>2, <2>4
  <2> QED BY <2>1, <2>5 DEF n
<1>8. QueueInv'
  BY <1>7 DEF QueueInv
<1> QED BY <1>6, <1>8

LEMMA ClockStep ==
  ASSUME FetchOK, FetchInv, ClockOK, QueueInv, [Next]_vars
  PROVE  ClockOK' /\ QueueInv'
<1>1. /\ wait \in [Fetchers -> 0..Longest] /\ slotIn \in 0..Longest /\ since \in 0..Interval
      /\ Longest \in Nat /\ Interval \in Nat /\ slotIn \in Nat /\ Longest' = Longest
  BY LongestFacts, ApiSourceAssumption DEF ClockOK, Longest
<1>2. ASSUME NEW f \in Fetchers, Attempt(f), cfg.limited PROVE ClockOK' /\ QueueInv'
  <2>1. pc[f] = "attempt" /\ Acquire(f) /\ since' = since
    BY <1>2 DEF Attempt
  <2>2. QueueInv'
    BY <2>1, AcquireStep
  <2>3. wait' \in [Fetchers -> 0..Longest]
    BY <1>1, <2>1 DEF Acquire
  <2>4. slotIn' \in 0..Longest
    <3> DEFINE n == Cardinality(Owners(0)')
               m == Cardinality(Fetchers)
    <3>1. slotIn' - 0 <= Interval * (n + 1) /\ slotIn' \in Nat
      BY <2>1, <2>2, <1>1 DEF QueueInv, Acquire
    <3>2. n \in Nat /\ m \in Nat /\ n <= m
      <4>1. Owners(0)' \subseteq Fetchers
        BY DEF Owners
      <4> QED BY <4>1, ApiSourceAssumption, FS_Subset, FS_CardinalityType
    <3>3. Interval * (m + 1) <= Longest
      BY LongestFacts
    <3> HIDE DEF n, m
    <3>4. /\ Interval * (n + 1) <= Interval * (m + 1)
          /\ Interval * (n + 1) \in Nat /\ Interval * (m + 1) \in Nat
      <4>1. n + 1 \in Nat /\ m + 1 \in Nat /\ n + 1 <= m + 1
        BY <3>2
      <4> QED BY <4>1, Slots
    <3> QED BY <3>1, <3>3, <3>4, <1>1
  <2> QED BY <1>1, <2>1, <2>2, <2>3, <2>4 DEF ClockOK
<1>3. ASSUME NEW f \in Fetchers, Retry(f) PROVE ClockOK' /\ QueueInv'
  <2> DEFINE delay == Delay[attempts[f] - 1]
  <2>1. /\ pc[f] = "inflight" /\ attempts[f] \in Nat /\ RetryMax \in Nat
        /\ attempts[f] >= 1 /\ attempts[f] <= RetryMax
    BY <1>3, ApiSourceAssumption DEF Retry, MayRetry, FetchOK, FetchInv, PageInv
  <2>2. delay \in Nat /\ delay <= Longest
    <3>1. attempts[f] - 1 \in Nat /\ attempts[f] - 1 <= RetryMax
      BY <2>1
    <3>2. delay \in Nat /\ Delay[RetryMax] \in Nat /\ delay <= Delay[RetryMax]
      BY <2>1, <3>1, DelayFacts, DelayGrows
    <3>3. Delay[RetryMax] <= Longest
      BY LongestFacts
    <3> QED BY <3>2, <3>3, <1>1
  <2> HIDE DEF delay
  <2>3. Max({delay, RetryAfter}) \in 0..Longest
    <3>1. RetryAfter \in Nat /\ RetryAfter <= Longest
      BY ApiSourceAssumption, LongestFacts
    <3>2. Max({delay, RetryAfter}) = IF delay >= RetryAfter THEN delay ELSE RetryAfter
      BY <2>2, <3>1 DEF Max
    <3> QED BY <1>1, <2>2, <3>1, <3>2
  <2>4. PICK d \in {delay, Max({delay, RetryAfter})} : wait' = [wait EXCEPT ![f] = d]
    BY <1>3 DEF Retry, delay
  <2>5. d \in 0..Longest
    BY <1>1, <2>2, <2>3, <2>4
  <2>6. wait' \in [Fetchers -> 0..Longest] /\ UNCHANGED <<slotIn, since>>
    BY <1>1, <1>3, <2>4, <2>5 DEF Retry
  <2>7. \A g \in Fetchers \ {f} : pc'[g] = pc[g] /\ wait'[g] = wait[g]
    BY <1>1, <1>3, <2>4 DEF Retry, Goto, FetchOK
  <2>8. \A t \in Nat : Owners(t) \subseteq Owners(t)'
    BY <2>1, <2>7 DEF Owners
  <2>9. QueueInv'
    BY <1>1, <2>6, <2>8, QueueFrame
  <2> QED BY <1>1, <2>6, <2>9 DEF ClockOK
<1>4. ASSUME NEW f \in Fetchers,
             \/ Attempt(f) /\ ~cfg.limited
             \/ SlotReached(f) \/ Send(f) \/ Receive(f) \/ BackoffOver(f) \/ Cancel(f)
             \/ \E why \in {"retryable", "fatal", "validation"} : Fail(f, why)
      PROVE  ClockOK' /\ QueueInv'
  <2>1. UNCHANGED <<wait, slotIn>> /\ since' \in {since, 0}
    BY <1>4 DEF Attempt, SlotReached, Send, Receive, BackoffOver, Cancel, Fail
  <2>2. /\ \A g \in Fetchers \ {f} : pc'[g] = pc[g]
        /\ pc[f] = "cancelled" => pc'[f] = "cancelled"
        /\ pc[f] = "limiter" => wait[f] = 0 \/ pc'[f] = "cancelled"
    BY <1>4 DEF Attempt, SlotReached, Send, Receive, BackoffOver, Cancel, Fail, Goto, FetchOK, Ended
  <2>3. \A t \in Nat : Owners(t) \subseteq Owners(t)'
    BY <2>1, <2>2 DEF Owners
  <2>4. QueueInv'
    BY <1>1, <2>1, <2>3, QueueFrame
  <2> QED BY <1>1, <2>1, <2>4 DEF ClockOK
<1>5. CASE UNCHANGED vars
  <2>1. UNCHANGED <<pc, wait, slotIn, since>>
    BY <1>5 DEF vars
  <2>2. \A t \in Nat : Owners(t)' = Owners(t)
    BY <2>1 DEF Owners
  <2>3. QueueInv'
    BY <1>1, <2>1, <2>2, QueueFrame
  <2> QED BY <1>1, <2>1, <2>3 DEF ClockOK
<1> QED BY <1>2, <1>3, <1>4, <1>5, TimeStep DEF Next, Step, Respond

LEMMA ClockInit == Init => ClockOK /\ QueueInv
<1> SUFFICES ASSUME Init PROVE ClockOK /\ QueueInv
  OBVIOUS
<1>1. ClockOK
  BY LongestFacts, ApiSourceAssumption DEF Init, ClockOK
<1>2. ASSUME NEW t \in Nat
      PROVE  slotIn - t <= Interval * (Cardinality(Owners(t)) + 1)
  <2> DEFINE n == Cardinality(Owners(t))
  <2>1. n \in Nat /\ slotIn = 0 /\ Interval \in Nat
    BY OwnersFacts, ApiSourceAssumption DEF Init
  <2> HIDE DEF n
  <2>2. Interval * (n + 1) \in Nat
    BY <2>1
  <2>3. slotIn - t <= Interval * (n + 1)
    BY <2>1, <2>2
  <2> QED BY <2>3 DEF n
<1> QED BY <1>1, <1>2 DEF QueueInv

\* Types of a fetch and of its clocks: at most retry.max + 1 attempts for a
\* request and at most max_pages pages, and for any number of fetchers that fail,
\* retry and are cancelled in any order, nobody sleeps longer than a queue of
\* all of them at the rate limiter, the longest backoff of request_with_retry
\* or the Retry-After of the server makes it.
THEOREM ApiSourceTypeCorrect == Spec => []TypeOK
<1>1. FetchOK /\ FetchInv /\ ClockOK /\ QueueInv /\ [Next]_vars => ClockOK' /\ QueueInv'
  BY ClockStep
<1>2. Spec => [](ClockOK /\ QueueInv)
  BY <1>1, ClockInit, FetchInvariance, PTL DEF Spec
<1> QED BY <1>2, FetchInvariance, PTL DEF TypeOK
=============================================================================
