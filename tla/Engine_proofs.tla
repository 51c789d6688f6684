--------------------------- MODULE Engine_proofs ---------------------------
(* Proofs about Engine, for every graph, any iterators, values and cap.    *)
EXTENDS Engine, FiniteSetTheorems, WellFoundedInduction, TLAPS

-----------------------------------------------------------------------------
(* The inductive invariant.                                                *)

\* What topo_order() has put out so far: every node once, after all it reads.
TopoInv ==
    /\ \A j, k \in 1..Len(topo) : topo[j] = topo[k] => j = k
    /\ \A k \in 1..Len(topo) : \A p \in Predecessors(edges, topo[k]) :
          \E j \in 1..(k - 1) : topo[j] = p

Started == status # "sorting" /\ ~Rejected

\* Before validation, and after a failed one, nothing has run.
StartInv ==
    /\ status = "sorting" => errors = {}
    /\ Rejected => status = "failed"
    /\ ~Started => /\ results = [n \in Nodes |-> "none"]
                   /\ outputs = {} /\ abort = FALSE /\ cursor = 1 /\ active = 0
                   /\ \A e \in errors : e.kind = "invalid"

PlanInv ==
    /\ Len(topo) = N /\ NodeSet(topo) = Nodes
    /\ Valid
    /\ scopes = [i \in iterators |-> Descendants(edges, i)]

\* The loop has dealt with all before the cursor; a fan-out is that of the
\* iterator at the cursor.
LoopInv ==
    /\ \A k \in 1..N : k < cursor => results[topo[k]] # "none"
    /\ active # 0 => /\ status = "running" /\ ~abort /\ cursor <= N
                     /\ active \in iterators /\ topo[cursor] = active
                     /\ results[active] = "none"
                     /\ Predecessors(edges, active) \subseteq outputs
    /\ status # "running" => /\ cursor = N + 1 /\ active = 0
                             /\ status = "failed" <=> errors # {}

\* What has an output succeeded, or is a member of a scope.  The members of
\* a scope have a result once their iterator does, unless the run aborts.
OutputInv ==
    /\ \A n \in Nodes : results[n] = "succeeded" => n \in outputs
    /\ \A n \in outputs : /\ results[n] \in {"succeeded", "failed"}
                          /\ results[n] = "failed" => InScope(n)
    /\ \A i \in iterators : \A m \in Scope(i) :
          /\ results[i] = "none" => results[m] \in {"none", "skipped"}
          /\ results[i] # "none" /\ ~abort => results[m] # "none"

\* Errors, failed nodes and abort go together.
FailureInv ==
    /\ errors # {} => \E n \in Nodes : results[n] = "failed"
    /\ \A n \in Nodes : results[n] = "failed" => \E e \in errors : e.node = n
    /\ \A n \in Nodes : results[n] = "skipped" => errors # {}
    /\ abort <=> ~continueOnError /\ errors # {}
    /\ continueOnError => \A f \in Nodes : results[f] = "failed" =>
          \A m \in Descendants(edges, f) : results[m] # "none"

\* An iteration that runs or failed has a member left, and failed in one of
\* the ways of that member; only a failure cancels.
TaskInv ==
    active # 0 =>
        /\ \A i \in DOMAIN tasks :
              /\ active \in tasks[i].local
              /\ tasks[i].local \subseteq {active} \cup Scope(active)
              /\ tasks[i].st = "waiting" => tasks[i].local = {active}
              /\ tasks[i].st \in {"running", "failed"} => ~(Scope(active) \subseteq tasks[i].local)
              /\ tasks[i].st = "failed" => tasks[i].why \in Failures(IterationNode(i), View(i))
        /\ InState("cancelled") # {} => ~continueOnError /\ InState("failed") # {}

\* No error names a member of a scope that is still to be fanned out.
ErrorInv ==
    \A e \in errors :
        /\ e.node \in Nodes
        /\ \A i \in iterators : results[i] = "none" => e.node \notin Scope(i)

RunInv ==
    /\ PlanInv /\ LoopInv /\ OutputInv /\ FailureInv /\ TaskInv /\ ErrorInv
    /\ InputsSucceeded /\ SkippedIsDownstream /\ UnavailableExplained /\ FanInInOrder

EngineInv == TypeOK /\ TopoInv /\ StartInv /\ (Started => RunInv)
-----------------------------------------------------------------------------
(* Lemmas: least elements, the graph, the order.                           *)

\* Min of a set of naturals is its least element.
LEMMA MinIsLeast ==
  ASSUME NEW T \in SUBSET Nat, T # {}
  PROVE  Min(T) \in T /\ \A y \in T : Min(T) <= y
<1> DEFINE R == OpToRel(<, Nat)
<1>1. IsWellFoundedOn(R, Nat)
  BY NatLessThanWellFounded
<1>2. \A x, y \in Nat : x < y => <<x, y>> \in R
  BY DEF OpToRel
<1> HIDE DEF R
<1>3. PICK x \in T : \A y \in T : ~(<<y, x>> \in R)
  BY <1>1, WFMin
<1>4. ASSUME NEW y \in T PROVE x <= y
  <2>1. x \in Nat /\ y \in Nat
    OBVIOUS
  <2>2. ~(y < x)
    BY <1>2, <1>3, <2>1
  <2>3. QED
    BY <2>1, <2>2
<1>5. QED
  BY <1>4 DEF Min

\* A successor is a descendant, and so is a successor of a descendant.
LEMMA DescendantsClosed ==
  ASSUME NEW E, NEW n \in Nodes, NEW m \in Nodes, NEW k \in Nodes,
         m = n \/ m \in Descendants(E, n), <<m, k>> \in E
  PROVE  k \in Descendants(E, n)
<1> SUFFICES ASSUME NEW S \in SUBSET Nodes, Closed(E, n, S) PROVE k \in S
  BY DEF Descendants
<1>1. m \in {n} \cup S
  BY DEF Descendants
<1>2. QED
  BY <1>1 DEF Closed, Successors

\* What is closed under the edges from n holds its descendants.
LEMMA DescendantsLeast ==
  ASSUME NEW E, NEW n \in Nodes, NEW S \in SUBSET Nodes,
         \A m \in {n} \cup S : \A k \in Nodes : <<m, k>> \in E => k \in S
  PROVE  Descendants(E, n) \subseteq S
<1>1. Closed(E, n, S)
  BY DEF Closed, Successors
<1>2. QED
  BY <1>1 DEF Descendants

LEMMA DescendantsTransitive ==
  ASSUME NEW E, NEW n \in Nodes, NEW m \in Descendants(E, n)
  PROVE  Descendants(E, m) \subseteq Descendants(E, n)
<1>1. m \in Nodes /\ Descendants(E, n) \in SUBSET Nodes
  BY DEF Descendants
<1>2. \A x \in {m} \cup Descendants(E, n) : \A k \in Nodes :
         <<x, k>> \in E => k \in Descendants(E, n)
  BY <1>1, DescendantsClosed
<1>3. QED
  BY <1>1, <1>2, DescendantsLeast

\* n comes before m in the order.
Precedes(n, m) == \E j, k \in 1..N : j < k /\ topo[j] = n /\ topo[k] = m

\* The order has every node before its descendants.
LEMMA DescendantsFollow ==
  ASSUME TypeOK, TopoInv, Len(topo) = N, NodeSet(topo) = Nodes,
         NEW n \in Nodes, NEW m \in Descendants(edges, n)
  PROVE  Precedes(n, m)
<1> DEFINE S == {x \in Nodes : Precedes(n, x)}
<1>1. PICK j \in 1..N : topo[j] = n
  BY DEF NodeSet
<1>2. ASSUME NEW x \in {n} \cup S, NEW y \in Nodes, <<x, y>> \in edges PROVE y \in S
  <2>1. PICK i \in 1..N : topo[i] = x /\ j <= i
    BY <1>1, NAssumption DEF Precedes, TopoInv
  <2>2. PICK k \in 1..N : topo[k] = y
    BY DEF NodeSet
  <2>3. x \in Predecessors(edges, topo[k])
    BY <1>2, <2>2 DEF Predecessors, Nodes
  <2>4. PICK l \in 1..(k - 1) : topo[l] = x
    BY <2>2, <2>3 DEF TopoInv
  <2>5. l = i
    BY <2>1, <2>2, <2>4, NAssumption DEF TopoInv
  <2>6. j < k
    BY <1>1, <2>1, <2>2, <2>4, <2>5, NAssumption
  <2>7. QED
    BY <1>1, <2>2, <2>6 DEF Precedes
<1>3. Descendants(edges, n) \subseteq S
  <2> HIDE DEF S
  <2>1. S \in SUBSET Nodes
    BY DEF S
  <2>2. QED
    BY <1>2, <2>1, DescendantsLeast
<1>4. QED
  BY <1>3
LEMMA PrecedesStrict ==
  ASSUME TopoInv, Len(topo) = N, NEW n, NEW m, Precedes(n, m)
  PROVE  n # m
BY NAssumption DEF Precedes, TopoInv

-----------------------------------------------------------------------------
(* The scopes of a validated pipeline.                                     *)

LEMMA ScopeIs ==
  ASSUME PlanInv, NEW i \in iterators
  PROVE  Scope(i) = Descendants(edges, i) /\ Scope(i) \subseteq Nodes
BY DEF PlanInv, Scope, Descendants

\* A scope is closed under the edges.
LEMMA ScopeClosed ==
  ASSUME TypeOK, PlanInv, NEW i \in iterators, NEW m, m = i \/ m \in Scope(i),
         NEW k \in Nodes, <<m, k>> \in edges
  PROVE  k \in Scope(i)
<1>1. i \in Nodes /\ m \in Nodes
  BY ScopeIs DEF TypeOK
<1>2. QED
  BY <1>1, ScopeIs, DescendantsClosed

\* What an unscoped node reads from is unscoped.
LEMMA OutsideReadsOutside ==
  ASSUME TypeOK, PlanInv, NEW n \in Nodes, NEW p \in Predecessors(edges, n), ~InScope(n)
  PROVE  ~InScope(p)
BY ScopeClosed DEF Predecessors, InScope

LEMMA ScopesDisjoint ==
  ASSUME TypeOK, PlanInv, NEW i \in iterators, NEW j \in iterators,
         NEW m, m \in Scope(i), m \in Scope(j)
  PROVE  i = j
BY ScopeIs DEF PlanInv, Valid, ScopesValid

\* No iterator lies in a scope, its own included.
LEMMA IteratorOutside ==
  ASSUME TypeOK, TopoInv, PlanInv, NEW i \in iterators
  PROVE  ~InScope(i)
<1> SUFFICES ASSUME NEW j \in iterators, i \in Scope(j) PROVE FALSE
  BY DEF InScope
<1>1. CASE i = j
  <2>1. i \in Nodes /\ i \in Descendants(edges, i)
    BY <1>1, ScopeIs DEF TypeOK
  <2>2. Precedes(i, i)
    BY <2>1, DescendantsFollow DEF PlanInv
  <2>3. QED
    BY <2>2, PrecedesStrict DEF PlanInv
<1>2. CASE i # j
  BY <1>2, ScopeIs DEF PlanInv, Valid, ScopesValid
<1>3. QED
  BY <1>1, <1>2

-----------------------------------------------------------------------------
(* Where the main loop stands.                                             *)

LEMMA EarlierHasResult ==
  ASSUME TypeOK, TopoInv, PlanInv, LoopInv, cursor <= N,
         NEW p, NEW n, topo[cursor] = n, Precedes(p, n)
  PROVE  p \in Nodes /\ results[p] # "none"
<1>1. PICK j, k \in 1..N : j < k /\ topo[j] = p /\ topo[k] = n
  BY DEF Precedes
<1>2. cursor \in 1..N
  BY NAssumption DEF TypeOK
<1>3. k = cursor
  BY <1>1, <1>2 DEF TopoInv, PlanInv
<1>4. QED
  BY <1>1, <1>2, <1>3, NAssumption DEF LoopInv, PlanInv, TypeOK

\* What a node reads from, or names in its configuration, is an ancestor of it.
LEMMA AncestorPrecedes ==
  ASSUME TypeOK, TopoInv, PlanInv, NEW n \in Nodes, NEW p,
         p \in Predecessors(edges, n) \/ p \in Named(n)
  PROVE  p \in Nodes /\ Precedes(p, n) /\ n \in Descendants(edges, p)
<1>1. p \in Nodes
  BY DEF Predecessors, Named
<1>2. n \in Descendants(edges, p)
  <2>1. CASE p \in Predecessors(edges, n)
    BY <1>1, <2>1, DescendantsClosed DEF Predecessors
  <2>2. CASE p \in Named(n)
    <3>1. <<p, n>> \in references /\ ReferencesValid(edges, references)
      BY <2>2 DEF Named, PlanInv, Valid
    <3>2. QED
      BY <3>1 DEF ReferencesValid
  <2>3. QED
    BY <2>1, <2>2
<1>3. QED
  BY <1>1, <1>2, DescendantsFollow DEF PlanInv

\* A node that the main loop executes is outside every scope, and all that it
\* names and reads from is there: it fails, if it does, of itself.
LEMMA MainLoopNode ==
  ASSUME TypeOK, TopoInv, RunInv, NEW n \in Nodes, At(n), ~abort
  PROVE  /\ ~InScope(n)
         /\ Predecessors(edges, n) \subseteq outputs
         /\ Failures(n, outputs) = {"node"}
<1> USE DEF RunInv
<1>1. cursor <= N /\ topo[cursor] = n /\ results[n] = "none"
  BY DEF At
<1>2. ~InScope(n)
  <2> SUFFICES ASSUME NEW i \in iterators, n \in Scope(i) PROVE FALSE
    BY DEF InScope
  <2>1. i \in Nodes /\ n \in Descendants(edges, i)
    BY ScopeIs DEF TypeOK
  <2>2. results[i] # "none"
    BY <1>1, <2>1, DescendantsFollow, EarlierHasResult DEF PlanInv
  <2>3. QED
    BY <1>1, <2>2 DEF OutputInv
<1>3. ASSUME NEW p, p \in Predecessors(edges, n) \/ p \in Named(n) PROVE p \in outputs
  <2>1. p \in Nodes /\ Precedes(p, n) /\ n \in Descendants(edges, p)
    BY <1>3, AncestorPrecedes
  <2>2. results[p] # "none"
    BY <1>1, <2>1, EarlierHasResult
  <2>3. ~(results[p] = "failed")
    <3>1. SUFFICES ASSUME results[p] = "failed" PROVE FALSE
      OBVIOUS
    <3>2. continueOnError
      BY <2>1, <3>1 DEF FailureInv, TypeOK
    <3>3. QED
      BY <1>1, <2>1, <3>1, <3>2 DEF FailureInv
  <2>4. ~(results[p] = "skipped")
    <3>1. SUFFICES ASSUME results[p] = "skipped" PROVE FALSE
      OBVIOUS
    <3>2. continueOnError
      BY <2>1, <3>1 DEF FailureInv, TypeOK
    <3>3. PICK f \in Nodes : results[f] = "failed" /\ p \in Descendants(edges, f)
      BY <2>1, <3>1, <3>2 DEF SkippedIsDownstream
    <3>4. n \in Descendants(edges, f)
      BY <2>1, <3>3, DescendantsTransitive
    <3>5. QED
      BY <1>1, <3>2, <3>3, <3>4 DEF FailureInv
  <2>5. results[p] = "succeeded"
    BY <2>1, <2>2, <2>3, <2>4 DEF TypeOK, Statuses
  <2>6. QED
    BY <2>1, <2>5 DEF OutputInv
<1>4. Predecessors(edges, n) \subseteq outputs /\ Named(n) \subseteq outputs
  BY <1>3
<1>5. Failures(n, outputs) = {"node"}
  BY <1>4 DEF Failures, Resolves, Unavailable
<1>6. QED
  BY <1>2, <1>4, <1>5
-----------------------------------------------------------------------------
(* validate_pipeline.                                                      *)

\* An order of N nodes holds every node.
LEMMA OrderCovers ==
  ASSUME TypeOK, TopoInv
  PROVE  Len(topo) = N <=> NodeSet(topo) = Nodes
<1> DEFINE n == Len(topo)
<1>1. n \in Nat /\ topo \in [1..n -> Nodes] /\ DOMAIN topo = 1..n
  BY DEF TypeOK
<1>2. topo \in Injection(1..n, Nodes)
  BY <1>1 DEF TopoInv, Injection, IsInjective
<1>3. IsFiniteSet(Nodes) /\ Cardinality(Nodes) = N
  BY NAssumption, FS_Interval DEF Nodes
<1>4. Cardinality(1..n) = n
  BY <1>1, FS_Interval
<1>5. n = N <=> topo \in Surjection(1..n, Nodes)
  <2>1. Cardinality(1..n) = Cardinality(Nodes) <=> topo \in Surjection(1..n, Nodes)
    BY <1>2, <1>3, FS_Injection
  <2>2. QED
    BY <1>3, <1>4, <2>1
<1>6. topo \in Surjection(1..n, Nodes) <=> NodeSet(topo) = Nodes
  BY <1>1 DEF Surjection, NodeSet
<1>7. QED
  BY <1>5, <1>6

LEMMA TakeReadyKeeps ==
  ASSUME EngineInv, TakeReady
  PROVE  EngineInv'
<1> DEFINE r == Min(Ready)
           n == Len(topo)
<1>1. /\ status = "sorting" /\ topo' = Append(topo, r)
      /\ UNCHANGED <<edges, iterators, references, continueOnError, scopes, cursor, abort, results, outputs,
                     merged, iterations, errors, active, tasks, status>>
  BY DEF TakeReady, pipeline, state, fan
<1>2. TypeOK /\ TopoInv /\ StartInv
  BY DEF EngineInv
<1>3. r \in Nodes /\ r \notin NodeSet(topo) /\ Predecessors(edges, r) \subseteq NodeSet(topo)
  <2>1. Ready \in SUBSET Nat /\ Ready # {}
    BY DEF TakeReady, Ready, Nodes
  <2>2. r \in Ready
    BY <2>1, MinIsLeast
  <2>3. QED
    BY <2>2 DEF Ready
<1>4. n \in Nat /\ n < N
  BY <1>2, <1>3, OrderCovers, NAssumption DEF TypeOK
<1>5. /\ topo' \in Seq(Nodes) /\ Len(topo') = n + 1 /\ topo'[n + 1] = r
      /\ \A k \in 1..n : topo'[k] = topo[k]
  BY <1>1, <1>2, <1>3 DEF TypeOK
<1>6. /\ \A k \in 1..n : topo[k] # r
      /\ \A p \in Predecessors(edges, r) : \E j \in 1..n : topo[j] = p
  BY <1>3 DEF NodeSet
<1> HIDE DEF r
<1>7. TypeOK'
  <2>1. Len(topo') <= N
    BY <1>4, <1>5, NAssumption
  <2>2. QED
    BY <1>1, <1>2, <1>5, <2>1 DEF TypeOK
<1>8. TopoInv'
  <2>1. ASSUME NEW j \in 1..Len(topo'), NEW k \in 1..Len(topo'), topo'[j] = topo'[k]
        PROVE  j = k
    <3>1. \A i \in 1..n : \A l \in 1..n : topo[i] = topo[l] => i = l
      BY <1>2 DEF TopoInv
    <3>2. (j \in 1..n \/ j = n + 1) /\ (k \in 1..n \/ k = n + 1)
      BY <1>4, <1>5
    <3>3. QED
      BY <1>5, <1>6, <2>1, <3>1, <3>2
  <2>2. ASSUME NEW k \in 1..Len(topo'), NEW p \in Predecessors(edges, topo'[k])
        PROVE  \E j \in 1..(k - 1) : topo'[j] = p
    <3>1. CASE k = n + 1
      <4>1. PICK j \in 1..n : topo[j] = p
        BY <1>5, <1>6, <2>2, <3>1
      <4>2. j \in 1..(k - 1) /\ topo'[j] = p
        BY <1>4, <1>5, <3>1, <4>1
      <4>3. QED
        BY <4>2
    <3>2. CASE k # n + 1
      <4>1. k \in 1..n
        BY <1>4, <1>5, <3>2
      <4>2. PICK j \in 1..(k - 1) : topo[j] = p
        BY <1>2, <1>5, <2>2, <4>1 DEF TopoInv
      <4>3. j \in 1..n
        BY <1>4, <4>1
      <4>4. QED
        BY <1>5, <4>2, <4>3
    <3>3. QED
      BY <3>1, <3>2
  <2>3. QED
    BY <1>1, <2>1, <2>2 DEF TopoInv
<1>9. StartInv' /\ ~Started'
  BY <1>1, <1>2 DEF StartInv, Started, Rejected
<1>10. QED
  BY <1>7, <1>8, <1>9 DEF EngineInv

\* A valid pipeline starts with nothing run; an invalid one never starts.
LEMMA ValidateKeeps ==
  ASSUME EngineInv, Validate
  PROVE  EngineInv'
<1>1. TypeOK /\ TopoInv /\ StartInv /\ status = "sorting"
  BY DEF EngineInv, Validate
<1>2. UNCHANGED <<edges, iterators, references, continueOnError, topo, cursor, abort, results, outputs,
                  merged, iterations, active, tasks>>
  BY DEF Validate, pipeline, fan
<1>3. /\ results = [n \in Nodes |-> "none"] /\ outputs = {} /\ abort = FALSE
      /\ cursor = 1 /\ active = 0 /\ errors = {}
  BY <1>1 DEF StartInv, Started
<1>4. TopoInv'
  BY <1>1, <1>2 DEF TopoInv
<1>5. CASE Len(topo) = N /\ Valid
  <2>1. /\ status' = "running" /\ scopes' = [i \in iterators |-> Descendants(edges, i)]
        /\ errors' = {}
    BY <1>3, <1>5 DEF Validate
  <2>2. TypeOK'
    <3>1. scopes' \in [iterators -> SUBSET Nodes]
      BY <2>1 DEF Descendants
    <3>2. QED
      BY <1>1, <1>2, <1>3, <2>1, <3>1 DEF TypeOK
  <2>3. PlanInv'
    BY <1>1, <1>2, <1>5, <2>1, OrderCovers DEF PlanInv, Valid
  <2>4. LoopInv' /\ TaskInv'
    BY <1>2, <1>3, <2>1 DEF LoopInv, TaskInv
  <2>5. OutputInv' /\ InputsSucceeded'
    <3>1. \A i \in iterators : i \in Nodes /\ scopes'[i] \subseteq Nodes
      BY <1>1, <2>1 DEF TypeOK, Descendants
    <3>2. QED
      BY <1>2, <1>3, <3>1 DEF OutputInv, InputsSucceeded, Scope
  <2>6. FailureInv' /\ ErrorInv' /\ SkippedIsDownstream' /\ UnavailableExplained' /\ FanInInOrder'
    BY <1>2, <1>3, <2>1 DEF FailureInv, ErrorInv, SkippedIsDownstream, UnavailableExplained,
       FanInInOrder
  <2>7. StartInv'
    BY <2>1 DEF StartInv, Started, Rejected
  <2>8. QED
    BY <1>4, <2>2, <2>3, <2>4, <2>5, <2>6, <2>7 DEF EngineInv, RunInv
<1>6. CASE ~(Len(topo) = N /\ Valid)
  <2> DEFINE e == [node |-> 0, index |-> 0, kind |-> "invalid"]
  <2>1. status' = "failed" /\ scopes' = scopes /\ errors' = {e}
    BY <1>6 DEF Validate
  <2>2. e \in ErrorType /\ e.kind = "invalid"
    BY NAssumption, EngineAssumption DEF ErrorType
  <2> HIDE DEF e
  <2>3. TypeOK'
    BY <1>1, <1>2, <2>1, <2>2 DEF TypeOK
  <2>4. StartInv' /\ ~Started'
    BY <1>2, <1>3, <2>1, <2>2 DEF StartInv, Started, Rejected
  <2>5. QED
    BY <1>4, <2>3, <2>4 DEF EngineInv
<1>7. QED
  BY <1>5, <1>6

-----------------------------------------------------------------------------
(* Steps of a running pipeline.                                            *)

\* What has to be shown of such a step.
LEMMA RunningKeeps ==
  ASSUME EngineInv, status = "running", UNCHANGED <<pipeline, plan>>, status' # "sorting",
         TypeOK', RunInv', \A e \in errors' : e \in errors \/ e.kind # "invalid"
  PROVE  EngineInv'
<1>1. TopoInv' /\ ~Rejected
  BY DEF EngineInv, TopoInv, StartInv, pipeline, plan
<1>2. ~Rejected'
  BY <1>1 DEF Rejected
<1>3. QED
  BY <1>1, <1>2 DEF EngineInv, StartInv, Started

LEMMA Running ==
  ASSUME EngineInv, status = "running"
  PROVE  TypeOK /\ TopoInv /\ RunInv
BY DEF EngineInv, StartInv, Started, Rejected

\* Steps that change no result, output or error.
LEMMA StateKept ==
  ASSUME RunInv, UNCHANGED <<pipeline, plan, abort, state>>
  PROVE  /\ PlanInv' /\ OutputInv' /\ FailureInv' /\ ErrorInv' /\ InputsSucceeded'
         /\ SkippedIsDownstream' /\ UnavailableExplained' /\ FanInInOrder'
<1>1. UNCHANGED <<edges, iterators, references, continueOnError, topo, scopes, abort, results, outputs,
                  merged, iterations, errors>>
  BY DEF pipeline, plan, state
<1>2. PlanInv' /\ OutputInv'
  BY <1>1 DEF RunInv, PlanInv, Valid, OutputInv, Scope, InScope
<1>3. FailureInv' /\ ErrorInv'
  BY <1>1 DEF RunInv, FailureInv, ErrorInv, Scope
<1>4. InputsSucceeded' /\ SkippedIsDownstream'
  BY <1>1 DEF RunInv, InputsSucceeded, SkippedIsDownstream, Scope, InScope
<1>5. UnavailableExplained'
  BY <1>1 DEF RunInv, UnavailableExplained, Needed, Named, Scope
<1>6. FanInInOrder'
  BY <1>1 DEF RunInv, FanInInOrder, Scope
<1>7. QED
  BY <1>2, <1>3, <1>4, <1>5, <1>6

LEMMA PassOverKeeps ==
  ASSUME EngineInv, PassOver
  PROVE  EngineInv'
<1>1. /\ status = "running" /\ active = 0 /\ cursor <= N /\ results[topo[cursor]] # "none"
      /\ cursor' = cursor + 1
      /\ UNCHANGED <<pipeline, plan, abort, state, fan, status>>
  BY DEF PassOver, Advance
<1>2. TypeOK /\ TopoInv /\ RunInv
  BY <1>1, Running
<1>3. cursor' \in 1..(N + 1)
  BY <1>1, <1>2, NAssumption DEF TypeOK
<1>4. TypeOK'
  BY <1>1, <1>2, <1>3 DEF TypeOK, pipeline, plan, state, fan
<1>5. LoopInv'
  <2>1. \A k \in 1..N : k < cursor' => k < cursor \/ k = cursor
    BY <1>1, <1>2, NAssumption DEF TypeOK
  <2>2. QED
    BY <1>1, <1>2, <2>1 DEF RunInv, LoopInv, plan, state, fan
<1>6. TaskInv'
  BY <1>1 DEF TaskInv, fan
<1>7. RunInv'
  BY <1>1, <1>2, <1>5, <1>6, StateKept DEF RunInv
<1>8. QED
  BY <1>1, <1>4, <1>7, RunningKeeps DEF state

LEMMA FinishKeeps ==
  ASSUME EngineInv, Finish
  PROVE  EngineInv'
<1>1. /\ status = "running" /\ active = 0 /\ cursor > N
      /\ status' = IF errors = {} THEN "succeeded" ELSE "failed"
      /\ UNCHANGED <<pipeline, plan, cursor, abort, state, fan>>
  BY DEF Finish
<1>2. TypeOK /\ TopoInv /\ RunInv
  BY <1>1, Running
<1>3. TypeOK'
  BY <1>1, <1>2 DEF TypeOK, pipeline, plan, state, fan
<1>4. cursor = N + 1
  BY <1>1, <1>2, NAssumption DEF TypeOK
<1>5. LoopInv' /\ TaskInv'
  BY <1>1, <1>2, <1>4 DEF RunInv, LoopInv, TaskInv, plan, state, fan
<1>6. RunInv'
  BY <1>1, <1>2, <1>5, StateKept DEF RunInv
<1>7. QED
  BY <1>1, <1>3, <1>6, RunningKeeps DEF state
-----------------------------------------------------------------------------
(* The fan-out.                                                            *)

\* Steps that change the tasks only.
LEMMA TasksOnly ==
  ASSUME EngineInv, active # 0, TypeOK', TaskInv',
         UNCHANGED <<pipeline, plan, cursor, abort, state, active, status>>
  PROVE  EngineInv'
<1>1. active # 0 => Started
  BY DEF EngineInv, StartInv
<1>2. RunInv /\ status = "running"
  BY <1>1 DEF EngineInv, RunInv, LoopInv
<1>3. LoopInv'
  BY <1>2 DEF RunInv, LoopInv, pipeline, plan, state
<1>4. RunInv'
  BY <1>2, <1>3, StateKept DEF RunInv
<1>5. QED
  BY <1>2, <1>4, RunningKeeps DEF state

LEMMA FanningOut ==
  ASSUME EngineInv, active # 0
  PROVE  /\ TypeOK /\ TopoInv /\ RunInv /\ status = "running"
         /\ active \in iterators /\ active \in Nodes
<1>1. Started
  BY DEF EngineInv, StartInv
<1>2. QED
  BY <1>1 DEF EngineInv, RunInv, LoopInv, TypeOK

LEMMA FanOutKeeps ==
  ASSUME EngineInv, NEW n \in Nodes, FanOut(n)
  PROVE  EngineInv'
<1>1. /\ At(n) /\ ~abort /\ n \in iterators /\ Predecessors(edges, n) \subseteq outputs
      /\ active' = n
      /\ UNCHANGED <<pipeline, plan, cursor, abort, state, status>>
  BY DEF FanOut, Prepared, Unavailable
<1>2. PICK k \in 0..MaxValues : tasks' = [i \in 1..k |-> [st |-> "waiting", local |-> {n}, why |-> "none"]]
  BY DEF FanOut
<1>3. status = "running" /\ cursor <= N /\ topo[cursor] = n /\ results[n] = "none"
  BY <1>1 DEF At
<1>4. TypeOK /\ TopoInv /\ RunInv
  BY <1>3, Running
<1>5. TypeOK'
  <2>1. [st |-> "waiting", local |-> {n}, why |-> "none"] \in TaskType
    BY DEF TaskType
  <2>2. tasks' \in [1..k -> TaskType]
    BY <1>2, <2>1
  <2>3. active' \in 0..N
    BY <1>1, NAssumption DEF Nodes
  <2>4. QED
    BY <1>1, <1>4, <2>2, <2>3 DEF TypeOK, pipeline, plan, state
<1>6. LoopInv'
  BY <1>1, <1>3, <1>4 DEF RunInv, LoopInv, pipeline, plan, state
<1>7. TaskInv'
  <2>1. DOMAIN tasks' = 1..k /\ \A i \in 1..k : tasks'[i].st = "waiting" /\ tasks'[i].local = {n}
    BY <1>2
  <2>2. QED
    BY <1>1, <2>1 DEF TaskInv, InState
<1>8. RunInv'
  BY <1>1, <1>4, <1>6, <1>7, StateKept DEF RunInv
<1>9. QED
  BY <1>1, <1>3, <1>5, <1>8, RunningKeeps DEF state

\* Which member an iteration is at.
LEMMA AtMember ==
  ASSUME TypeOK, TopoInv, RunInv, active # 0, NEW i \in DOMAIN tasks,
         tasks[i].st \in {"running", "failed"}
  PROVE  /\ IterationNode(i) \in Scope(active)
         /\ IterationNode(i) \in Nodes
         /\ IterationNode(i) \notin tasks[i].local
         /\ \A p \in Scope(active) : Precedes(p, IterationNode(i)) => p \in tasks[i].local
<1> DEFINE K == {k \in 1..N : topo[k] \in Scope(active) \ tasks[i].local}
<1>1. active \in iterators /\ PlanInv /\ ~(Scope(active) \subseteq tasks[i].local)
  BY DEF RunInv, LoopInv, TaskInv
<1>2. Scope(active) \subseteq Nodes
  BY <1>1, ScopeIs
<1>3. PICK m \in Scope(active) : m \notin tasks[i].local
  BY <1>1
<1>4. PICK k \in 1..N : topo[k] = m
  BY <1>1, <1>2, <1>3 DEF PlanInv, NodeSet
<1>5. K \in SUBSET Nat /\ K # {}
  BY <1>3, <1>4
<1>6. Min(K) \in K /\ \A y \in K : Min(K) <= y
  BY <1>5, MinIsLeast
<1>7. IterationNode(i) = topo[Min(K)]
  BY DEF IterationNode
<1>8. ASSUME NEW p \in Scope(active), Precedes(p, IterationNode(i)) PROVE p \in tasks[i].local
  <2>1. PICK j, l \in 1..N : j < l /\ topo[j] = p /\ topo[l] = IterationNode(i)
    BY <1>8 DEF Precedes
  <2>2. l = Min(K)
    BY <1>1, <1>6, <1>7, <2>1 DEF TopoInv, PlanInv
  <2>3. j \notin K
    BY <1>6, <2>1, <2>2
  <2>4. QED
    BY <2>1, <2>3
<1> HIDE DEF K
<1>9. Min(K) \in 1..N /\ topo[Min(K)] \in Scope(active) \ tasks[i].local
  BY <1>6 DEF K
<1>10. QED
  BY <1>2, <1>7, <1>8, <1>9

LEMMA TaskShape ==
  ASSUME TypeOK, NEW i \in DOMAIN tasks
  PROVE  tasks[i] \in TaskType /\ tasks[i].local \subseteq Nodes
BY DEF TypeOK, TaskType

\* How an iteration may fail depends on the outputs and on what it has executed.
LEMMA FailuresKept ==
  ASSUME UNCHANGED <<pipeline, plan, active, outputs>>, NEW i, tasks'[i].local = tasks[i].local
  PROVE  (Failures(IterationNode(i), View(i)))' = Failures(IterationNode(i), View(i))
<1>1. UNCHANGED <<edges, references, topo, scopes, active, outputs>>
  BY DEF pipeline, plan
<1>2. (View(i))' = View(i) /\ Scope(active)' = Scope(active)
  BY <1>1 DEF View, Scope
<1>3. (IterationNode(i))' = IterationNode(i)
  BY <1>1, <1>2 DEF IterationNode
<1>4. \A n, view : (Failures(n, view))' = Failures(n, view)
  BY <1>1 DEF Failures, Resolves, Named, Unavailable
<1>5. QED
  BY <1>2, <1>3, <1>4

LEMMA AcquireKeeps ==
  ASSUME EngineInv, NEW i \in DOMAIN tasks, Acquire(i)
  PROVE  EngineInv'
<1> DEFINE s == IF Scope(active) = {} THEN "done" ELSE "running"
<1>1. /\ active # 0 /\ tasks[i].st = "waiting"
      /\ tasks' = [tasks EXCEPT ![i].st = s]
      /\ UNCHANGED <<pipeline, plan, cursor, abort, state, active, status>>
  BY DEF Acquire, InState
<1>2. TypeOK /\ RunInv /\ TopoInv /\ active \in iterators
  BY <1>1, FanningOut
<1>3. PICK k \in 0..MaxValues : tasks \in [1..k -> TaskType]
  BY <1>2 DEF TypeOK
<1>4. /\ tasks' \in [1..k -> TaskType] /\ tasks'[i].st = s /\ tasks'[i].local = tasks[i].local
      /\ \A j \in 1..k : j # i => tasks'[j] = tasks[j]
  BY <1>1, <1>3 DEF TaskType
<1>5. TypeOK'
  BY <1>1, <1>2, <1>4 DEF TypeOK, pipeline, plan, state
<1>6. TaskInv'
  <2>1. active \notin Scope(active)
    BY <1>2, IteratorOutside DEF InScope, RunInv
  <2>2. s = "running" => ~(Scope(active) \subseteq tasks[i].local)
    <3>1. tasks[i].local = {active}
      BY <1>1, <1>2 DEF RunInv, TaskInv
    <3>2. QED
      BY <2>1, <3>1
  <2>3. \A j \in 1..k : /\ tasks'[j].local = tasks[j].local
                       /\ tasks'[j].st = "failed" => tasks[j].st = "failed" /\ tasks'[j].why = tasks[j].why
    BY <1>3, <1>4
  <2>4. \A j \in 1..k : tasks'[j].st = "failed" =>
           tasks'[j].why \in (Failures(IterationNode(j), View(j)))'
    BY <1>1, <1>2, <1>3, <2>3, FailuresKept DEF RunInv, TaskInv, state
  <2>5. QED
    BY <1>1, <1>2, <1>3, <1>4, <2>2, <2>4 DEF RunInv, TaskInv, InState, pipeline, plan, state, Scope
<1>7. QED
  BY <1>1, <1>5, <1>6, TasksOnly

LEMMA RunIterationKeeps ==
  ASSUME EngineInv, NEW i \in DOMAIN tasks, RunIteration(i)
  PROVE  EngineInv'
<1> DEFINE m == IterationNode(i)
           l == tasks[i].local \cup {m}
           s == IF Scope(active) \subseteq l THEN "done" ELSE "running"
<1>1. /\ active # 0 /\ tasks[i].st = "running"
      /\ tasks' = [tasks EXCEPT ![i].local = l, ![i].st = s]
      /\ UNCHANGED <<pipeline, plan, cursor, abort, state, active, status>>
  BY DEF RunIteration, InState
<1>2. TypeOK /\ RunInv /\ TopoInv /\ active \in iterators
  BY <1>1, FanningOut
<1>3. PICK k \in 0..MaxValues : tasks \in [1..k -> TaskType]
  BY <1>2 DEF TypeOK
<1>4. m \in Scope(active) /\ m \in Nodes
  BY <1>1, <1>2, AtMember
<1> HIDE DEF m
<1>5. l \subseteq Nodes
  BY <1>2, <1>4, TaskShape
<1>6. /\ tasks' \in [1..k -> TaskType] /\ tasks'[i].st = s /\ tasks'[i].local = l
      /\ \A j \in 1..k : j # i => tasks'[j] = tasks[j]
  <2>1. s \in {"done", "running"} /\ tasks[i] \in TaskType
    BY <1>2, TaskShape
  <2> DEFINE u == [tasks[i] EXCEPT !.local = l, !.st = s]
  <2>2. tasks' = [tasks EXCEPT ![i] = u]
    BY <1>1
  <2> HIDE DEF l, s
  <2>3. u \in TaskType /\ u.st = s /\ u.local = l
    BY <1>5, <2>1 DEF TaskType
  <2> HIDE DEF u
  <2>4. QED
    BY <1>3, <2>2, <2>3
<1>7. TypeOK'
  BY <1>1, <1>2, <1>6 DEF TypeOK, pipeline, plan, state
<1>8. TaskInv'
  <2>1. /\ active \in l /\ l \subseteq {active} \cup Scope(active)
        /\ s = "running" => ~(Scope(active) \subseteq l)
        /\ s \notin {"waiting", "failed"}
    BY <1>1, <1>2, <1>4 DEF RunInv, TaskInv
  <2> HIDE DEF l
  <2>2. InState("cancelled")' = InState("cancelled") /\ InState("failed")' = InState("failed")
    <3>1. DOMAIN tasks = 1..k /\ DOMAIN tasks' = 1..k
      BY <1>3, <1>6
    <3>2. \A j \in 1..k : \A st \in {"cancelled", "failed"} : tasks'[j].st = st <=> tasks[j].st = st
      <4>1. s \in {"done", "running"}
        OBVIOUS
      <4> HIDE DEF s
      <4>2. tasks[i].st = "running" /\ tasks'[i].st = s
        BY <1>1, <1>6
      <4>3. QED
        BY <1>6, <4>1, <4>2
    <3>3. QED
      BY <3>1, <3>2 DEF InState
  <2> HIDE DEF s
  <2>3. ASSUME NEW j \in 1..k
        PROVE  /\ active \in tasks'[j].local
               /\ tasks'[j].local \subseteq {active} \cup Scope(active)
               /\ tasks'[j].st = "waiting" => tasks'[j].local = {active}
               /\ tasks'[j].st \in {"running", "failed"} => ~(Scope(active) \subseteq tasks'[j].local)
               /\ tasks'[j].st = "failed" =>
                     tasks'[j].why \in (Failures(IterationNode(j), View(j)))'
    <3>1. CASE j = i
      BY <1>6, <2>1, <3>1
    <3>2. CASE j # i
      <4>1. tasks'[j] = tasks[j] /\ j \in DOMAIN tasks
        BY <1>3, <1>6, <3>2
      <4>2. (Failures(IterationNode(j), View(j)))' = Failures(IterationNode(j), View(j))
        BY <1>1, <4>1, FailuresKept DEF state
      <4>3. QED
        BY <1>1, <1>2, <4>1, <4>2 DEF RunInv, TaskInv
    <3>3. QED
      BY <3>1, <3>2
  <2>4. DOMAIN tasks' = 1..k
    BY <1>6
  <2>5. QED
    BY <1>1, <1>2, <2>2, <2>3, <2>4 DEF RunInv, TaskInv, pipeline, plan, Scope
<1>9. QED
  BY <1>1, <1>7, <1>8, TasksOnly

LEMMA FailIterationKeeps ==
  ASSUME EngineInv, NEW i \in DOMAIN tasks, FailIteration(i)
  PROVE  EngineInv'
<1>1. /\ active # 0 /\ tasks[i].st = "running"
      /\ UNCHANGED <<pipeline, plan, cursor, abort, state, active, status>>
  BY DEF FailIteration, InState
<1>2. PICK why \in Failures(IterationNode(i), View(i)) :
         tasks' = [tasks EXCEPT ![i].st = "failed", ![i].why = why]
  BY DEF FailIteration
<1>3. TypeOK /\ RunInv
  BY <1>1, FanningOut
<1>4. PICK k \in 0..MaxValues : tasks \in [1..k -> TaskType]
  BY <1>3 DEF TypeOK
<1>5. why \in Kinds
  BY DEF Failures, Kinds
<1>6. /\ tasks' \in [1..k -> TaskType] /\ tasks'[i].st = "failed" /\ tasks'[i].why = why
      /\ tasks'[i].local = tasks[i].local
      /\ \A j \in 1..k : j # i => tasks'[j] = tasks[j]
  BY <1>2, <1>4, <1>5 DEF TaskType
<1>7. TypeOK'
  BY <1>1, <1>3, <1>6 DEF TypeOK, pipeline, plan, state
<1>8. TaskInv'
  <2>1. \A j \in 1..k : tasks'[j].local = tasks[j].local
    BY <1>4, <1>6
  <2>2. \A j \in 1..k : (Failures(IterationNode(j), View(j)))' = Failures(IterationNode(j), View(j))
    BY <1>1, <2>1, FailuresKept DEF state
  <2>3. \A j \in 1..k : tasks'[j].st = "failed" =>
           tasks'[j].why \in (Failures(IterationNode(j), View(j)))'
    BY <1>1, <1>3, <1>4, <1>6, <2>2 DEF RunInv, TaskInv
  <2>4. QED
    BY <1>1, <1>3, <1>4, <1>6, <2>3 DEF RunInv, TaskInv, InState, pipeline, plan, state, Scope
<1>9. QED
  BY <1>1, <1>7, <1>8, TasksOnly

LEMMA CancelRestKeeps ==
  ASSUME EngineInv, CancelRest
  PROVE  EngineInv'
<1>1. /\ active # 0 /\ ~continueOnError /\ InState("failed") # {}
      /\ tasks' = [i \in DOMAIN tasks |->
                      IF tasks[i].st \in {"waiting", "running"}
                      THEN [tasks[i] EXCEPT !.st = "cancelled"] ELSE tasks[i]]
      /\ UNCHANGED <<pipeline, plan, cursor, abort, state, active, status>>
  BY DEF CancelRest
<1>2. TypeOK /\ RunInv
  BY <1>1, FanningOut
<1>3. PICK k \in 0..MaxValues : tasks \in [1..k -> TaskType]
  BY <1>2 DEF TypeOK
<1>4. /\ tasks' \in [1..k -> TaskType]
      /\ \A j \in 1..k : /\ tasks'[j].local = tasks[j].local
                         /\ tasks'[j].st = tasks[j].st \/ tasks'[j].st = "cancelled"
                         /\ tasks[j].st = "failed" => tasks'[j].st = "failed"
                         /\ tasks'[j].why = tasks[j].why
  BY <1>1, <1>3 DEF TaskType
<1>5. TypeOK'
  BY <1>1, <1>2, <1>4 DEF TypeOK, pipeline, plan, state
<1>6. TaskInv'
  <2>1. \A j \in 1..k : (Failures(IterationNode(j), View(j)))' = Failures(IterationNode(j), View(j))
    BY <1>1, <1>4, FailuresKept DEF state
  <2>2. \A j \in 1..k : tasks[j].st = "failed" => tasks[j].why \in Failures(IterationNode(j), View(j))
    BY <1>1, <1>2, <1>3 DEF RunInv, TaskInv
  <2>3. \A j \in 1..k : tasks'[j].st = "failed" =>
           tasks'[j].why \in (Failures(IterationNode(j), View(j)))'
    BY <1>4, <2>1, <2>2
  <2>4. QED
    BY <1>1, <1>2, <1>3, <1>4, <2>3 DEF RunInv, TaskInv, InState, pipeline, plan, state, Scope
<1>7. QED
  BY <1>1, <1>5, <1>6, TasksOnly
-----------------------------------------------------------------------------
(* The nodes of the main loop.                                             *)

\* The cursor moves past a node that has got its result.
LEMMA LoopAdvances ==
  ASSUME TypeOK, PlanInv, LoopInv, NEW n \in Nodes, At(n), Advance,
         active' = 0, status' = status, topo' = topo,
         results'[n] # "none", \A m \in Nodes : results[m] # "none" => results'[m] # "none"
  PROVE  LoopInv' /\ TaskInv' /\ cursor' \in 1..(N + 1) /\ status = "running"
<1>1. status = "running" /\ cursor <= N /\ topo[cursor] = n /\ cursor' = cursor + 1
  BY DEF At, Advance
<1>2. cursor' \in 1..(N + 1) /\ \A k \in 1..N : k < cursor' => k < cursor \/ k = cursor
  BY <1>1, NAssumption DEF TypeOK
<1>3. \A k \in 1..N : topo[k] \in Nodes
  BY DEF PlanInv, NodeSet
<1>4. LoopInv'
  BY <1>1, <1>2, <1>3 DEF LoopInv
<1>5. QED
  BY <1>1, <1>2, <1>4 DEF TaskInv

\* Explanations last as long as what failed or was skipped stays so.
LEMMA ExplainedKept ==
  ASSUME UnavailableExplained, UNCHANGED <<edges, iterators, references, topo, scopes>>,
         \A p \in Nodes : results[p] \in {"failed", "skipped"} => results'[p] \in {"failed", "skipped"},
         \A e \in errors' : e \in errors \/ e.kind = "node"
  PROVE  UnavailableExplained'
<1>0. iterators' = iterators /\ topo' = topo /\ \A x : Needed(x)' = Needed(x) /\ Scope(x)' = Scope(x)
  BY DEF Needed, Named, Scope
<1> SUFFICES ASSUME NEW e \in errors', e.kind \in {"unavailable", "reference"}
             PROVE  \E i \in iterators : \E p \in Needed(e) \ Scope(i) :
                      /\ e.node \in Scope(i)
                      /\ \/ results'[p] \in {"failed", "skipped"}
                         \/ \E j, k \in 1..N : topo[j] = i /\ topo[k] = p /\ j < k
  BY <1>0 DEF UnavailableExplained
<1>1. e \in errors
  OBVIOUS
<1>2. PICK i \in iterators : \E p \in Needed(e) \ Scope(i) :
         /\ e.node \in Scope(i)
         /\ \/ results[p] \in {"failed", "skipped"}
            \/ \E j, k \in 1..N : topo[j] = i /\ topo[k] = p /\ j < k
  BY <1>1 DEF UnavailableExplained
<1>3. PICK p \in Needed(e) \ Scope(i) :
         /\ e.node \in Scope(i)
         /\ \/ results[p] \in {"failed", "skipped"}
            \/ \E j, k \in 1..N : topo[j] = i /\ topo[k] = p /\ j < k
  BY <1>2
<1>4. p \in Nodes
  BY DEF Needed, Named, Predecessors
<1>5. QED
  BY <1>3, <1>4

LEMMA SkipAbortedKeeps ==
  ASSUME EngineInv, NEW n \in Nodes, SkipAborted(n)
  PROVE  EngineInv'
<1>1. /\ At(n) /\ abort /\ results' = Skip(results, {n}) /\ Advance
      /\ UNCHANGED <<edges, iterators, references, continueOnError, topo, scopes, abort, outputs, merged,
                     iterations, errors, active, tasks, status>>
  BY DEF SkipAborted, pipeline, plan, fan
<1>2. status = "running" /\ active = 0 /\ results[n] = "none"
  BY <1>1 DEF At
<1>3. TypeOK /\ TopoInv /\ RunInv
  BY <1>2, Running
<1>4. /\ results' \in [Nodes -> Statuses] /\ results'[n] = "skipped"
      /\ \A m \in Nodes : m # n => results'[m] = results[m]
  BY <1>1, <1>2, <1>3 DEF TypeOK, Skip, Statuses
<1>5. LoopInv' /\ TaskInv' /\ cursor' \in 1..(N + 1)
  BY <1>1, <1>2, <1>3, <1>4, LoopAdvances DEF RunInv
<1>6. TypeOK'
  BY <1>1, <1>3, <1>4, <1>5 DEF TypeOK
<1>7. \A i \in iterators : i \in Nodes /\ Scope(i) \subseteq Nodes
  BY <1>3, ScopeIs DEF RunInv, TypeOK
<1>8. PlanInv' /\ OutputInv'
  <2>1. \A m \in outputs : m \in Nodes /\ m # n
    BY <1>2, <1>3 DEF RunInv, OutputInv, TypeOK
  <2>2. \A m \in outputs : results'[m] = results[m]
    BY <1>4, <2>1
  <2>3. \A m \in Nodes : results'[m] = "succeeded" => m \in outputs
    BY <1>3, <1>4 DEF RunInv, OutputInv
  <2>4. \A i \in iterators : \A m \in Scope(i) :
           results'[i] = "none" => results'[m] \in {"none", "skipped"}
    BY <1>2, <1>3, <1>4, <1>7 DEF RunInv, OutputInv
  <2>5. QED
    BY <1>1, <1>3, <2>2, <2>3, <2>4 DEF RunInv, PlanInv, Valid, OutputInv, Scope, InScope
<1>9. FailureInv' /\ ErrorInv'
  <2>1. ~continueOnError /\ errors # {}
    BY <1>1, <1>3 DEF RunInv, FailureInv
  <2>2. FailureInv'
    BY <1>1, <1>2, <1>3, <1>4, <2>1 DEF RunInv, FailureInv
  <2>3. ErrorInv'
    BY <1>1, <1>2, <1>3, <1>4, <1>7 DEF RunInv, ErrorInv, Scope
  <2>4. QED
    BY <2>2, <2>3
<1>10. InputsSucceeded' /\ SkippedIsDownstream'
  <2>1. ~continueOnError
    BY <1>1, <1>3 DEF RunInv, FailureInv
  <2>2. \A m \in Nodes : results'[m] = "succeeded" <=> results[m] = "succeeded"
    BY <1>2, <1>4
  <2>3. QED
    BY <1>1, <1>3, <2>1, <2>2
       DEF RunInv, InputsSucceeded, SkippedIsDownstream, Scope, InScope, Predecessors
<1>11. UnavailableExplained'
  <2>1. \A p \in Nodes : results[p] \in {"failed", "skipped"} => results'[p] = results[p]
    BY <1>2, <1>4
  <2>2. QED
    BY <1>1, <1>3, <2>1, ExplainedKept DEF RunInv
<1>12. FanInInOrder'
  BY <1>1, <1>3 DEF RunInv, FanInInOrder, Scope
<1>13. RunInv'
  BY <1>5, <1>8, <1>9, <1>10, <1>11, <1>12 DEF RunInv
<1>14. QED
  BY <1>1, <1>2, <1>6, <1>13, RunningKeeps DEF pipeline, plan

LEMMA RunNodeKeeps ==
  ASSUME EngineInv, NEW n \in Nodes, RunNode(n)
  PROVE  EngineInv'
<1>1. /\ At(n) /\ ~abort /\ n \notin iterators
      /\ results' = [results EXCEPT ![n] = "succeeded"] /\ outputs' = outputs \cup {n} /\ Advance
      /\ UNCHANGED <<edges, iterators, references, continueOnError, topo, scopes, abort, merged,
                     iterations, errors, active, tasks, status>>
  BY DEF RunNode, pipeline, plan, fan
<1>2. status = "running" /\ active = 0 /\ results[n] = "none"
  BY <1>1 DEF At
<1>3. TypeOK /\ TopoInv /\ RunInv
  BY <1>2, Running
<1>4. /\ results' \in [Nodes -> Statuses] /\ results'[n] = "succeeded"
      /\ \A m \in Nodes : m # n => results'[m] = results[m]
  BY <1>1, <1>3 DEF TypeOK, Statuses
<1>5. LoopInv' /\ TaskInv' /\ cursor' \in 1..(N + 1)
  BY <1>1, <1>2, <1>3, <1>4, LoopAdvances DEF RunInv
<1>6. TypeOK'
  BY <1>1, <1>3, <1>4, <1>5 DEF TypeOK
<1>7. \A i \in iterators : i \in Nodes /\ Scope(i) \subseteq Nodes /\ i # n
  BY <1>1, <1>3, ScopeIs DEF RunInv, TypeOK
<1>8. ~InScope(n) /\ Predecessors(edges, n) \subseteq outputs
  BY <1>1, <1>3, MainLoopNode
<1>9. PlanInv' /\ OutputInv'
  <2>1. \A i \in iterators : n \notin Scope(i)
    BY <1>8 DEF InScope
  <2>2. QED
    BY <1>1, <1>3, <1>4, <1>7, <2>1 DEF RunInv, PlanInv, Valid, OutputInv, Scope, InScope, TypeOK
<1>10. FailureInv' /\ ErrorInv'
  <2>1. \A m \in Nodes : \A s \in {"failed", "skipped"} : results'[m] = s <=> results[m] = s
    BY <1>2, <1>4
  <2>2. \A m \in Nodes : results[m] # "none" => results'[m] # "none"
    BY <1>4
  <2>3. \A f \in Nodes : Descendants(edges, f) \subseteq Nodes
    BY DEF Descendants
  <2>4. FailureInv'
    BY <1>1, <1>3, <2>1, <2>2, <2>3 DEF RunInv, FailureInv
  <2>5. ErrorInv'
    BY <1>1, <1>3, <1>7, <2>2 DEF RunInv, ErrorInv, Scope
  <2>6. QED
    BY <2>4, <2>5
<1>11. InputsSucceeded'
  <2>1. \A p \in Predecessors(edges, n) : results[p] = "succeeded"
    BY <1>3, <1>8, OutsideReadsOutside DEF RunInv, OutputInv
  <2>2. \A m \in Nodes : results[m] = "succeeded" => results'[m] = "succeeded"
    BY <1>4
  <2>3. \A m \in Nodes : Predecessors(edges, m) \subseteq Nodes
    BY DEF Predecessors
  <2>4. QED
    BY <1>1, <1>3, <1>4, <2>1, <2>2, <2>3 DEF RunInv, InputsSucceeded, Scope, InScope
<1>12. SkippedIsDownstream' /\ UnavailableExplained'
  <2>1. \A p \in Nodes : /\ results'[p] = "failed" <=> results[p] = "failed"
                         /\ results'[p] = "skipped" <=> results[p] = "skipped"
    BY <1>2, <1>4
  <2>2. SkippedIsDownstream'
    BY <1>1, <1>3, <2>1 DEF RunInv, SkippedIsDownstream
  <2>3. \A p \in Nodes : results[p] \in {"failed", "skipped"} => results'[p] \in {"failed", "skipped"}
    BY <2>1
  <2>4. UnavailableExplained'
    BY <1>1, <1>3, <2>3, ExplainedKept DEF RunInv
  <2>5. QED
    BY <2>2, <2>4
<1>13. FanInInOrder'
  <2> SUFFICES ASSUME NEW i \in iterators \cap outputs', NEW m \in {i} \cup Scope(i)
               PROVE  merged[m] = InOrder((1..iterations[i]) \
                        {e.index : e \in {x \in errors : x.node \in Scope(i)}})
    BY <1>1 DEF FanInInOrder, Scope
  <2>1. i \in iterators \cap outputs
    BY <1>1
  <2>2. QED
    BY <1>3, <2>1 DEF RunInv, FanInInOrder
<1>14. RunInv'
  BY <1>5, <1>9, <1>10, <1>11, <1>12, <1>13 DEF RunInv
<1>15. QED
  BY <1>1, <1>2, <1>6, <1>14, RunningKeeps DEF pipeline, plan

\* A failure in the main loop: what is skipped is what lies downstream, or
\* nothing when the run aborts.
LEMMA FailureKeeps ==
  ASSUME EngineInv, NEW n \in Nodes, At(n), ~abort,
         NEW S \in SUBSET Nodes,
         S = Descendants(edges, n) \/ (S = {} /\ ~continueOnError /\ n \notin iterators),
         NEW why \in Failures(n, outputs), errors' = errors \cup {Report(n, 0, why)},
         results' = Skip([results EXCEPT ![n] = "failed"], S),
         abort' = ~continueOnError, Advance,
         UNCHANGED <<edges, iterators, references, continueOnError, topo, scopes, outputs, merged,
                     iterations, active, tasks, status>>
  PROVE  EngineInv'
<1> DEFINE r == Report(n, 0, why)
<1>1. status = "running" /\ active = 0 /\ results[n] = "none"
  BY DEF At
<1>2. TypeOK /\ TopoInv /\ RunInv
  BY <1>1, Running
<1>3. ~InScope(n) /\ r = [node |-> n, index |-> 0, kind |-> "node"]
  BY <1>2, MainLoopNode DEF Report
<1>4. r \in ErrorType /\ r.node = n /\ r.kind = "node"
  BY <1>3, NAssumption, EngineAssumption DEF ErrorType, Kinds, Nodes
<1>5. errors' = errors \cup {r}
  OBVIOUS
<1> HIDE DEF r
<1>6. /\ results' \in [Nodes -> Statuses] /\ results'[n] = "failed"
      /\ \A m \in Nodes : m # n => results'[m] = IF m \in S /\ results[m] = "none"
                                                 THEN "skipped" ELSE results[m]
  BY <1>2 DEF TypeOK, Skip, Statuses
<1>7. LoopInv' /\ TaskInv' /\ cursor' \in 1..(N + 1)
  BY <1>1, <1>2, <1>6, LoopAdvances DEF RunInv
<1>8. TypeOK'
  BY <1>2, <1>4, <1>5, <1>6, <1>7 DEF TypeOK
<1>9. \A i \in iterators : i \in Nodes /\ Scope(i) \subseteq Nodes /\ n \notin Scope(i)
                           /\ Scope(i) = Descendants(edges, i)
  BY <1>2, <1>3, ScopeIs DEF RunInv, TypeOK, InScope
<1>10. \A m \in Nodes : /\ results'[m] = "succeeded" <=> results[m] = "succeeded"
                        /\ results[m] # "none" => results'[m] = results[m]
                        /\ results'[m] = "failed" <=> m = n \/ results[m] = "failed"
                        /\ results'[m] = "skipped" => results[m] = "skipped" \/ m \in S
  BY <1>1, <1>6
<1>11. PlanInv'
  BY <1>2 DEF RunInv, PlanInv, Valid
<1>12. OutputInv'
  <2>1. \A m \in outputs : m \in Nodes /\ results'[m] = results[m]
    BY <1>2, <1>10 DEF RunInv, OutputInv, TypeOK
  <2>2. ASSUME NEW i \in iterators, NEW m \in Scope(i)
        PROVE  /\ results'[i] = "none" => results'[m] \in {"none", "skipped"}
               /\ results'[i] # "none" /\ ~abort' => results'[m] # "none"
    <3>1. m \in Nodes /\ m # n /\ i \in Nodes
      BY <1>9
    <3>2. results'[i] = "none" => results'[m] \in {"none", "skipped"}
      BY <1>2, <1>6, <1>10, <3>1 DEF RunInv, OutputInv
    <3>3. ASSUME results'[i] # "none", ~abort' PROVE results'[m] # "none"
      <4>1. S = Descendants(edges, n)
        BY <3>3 DEF TypeOK
      <4>2. CASE results[i] # "none"
        BY <1>2, <1>10, <3>1, <4>2 DEF RunInv, OutputInv
      <4>3. CASE i = n
        BY <1>6, <1>9, <3>1, <4>1, <4>3
      <4>4. CASE i # n /\ results[i] = "none"
        <5>1. i \in Descendants(edges, n)
          BY <1>6, <3>1, <3>3, <4>1, <4>4
        <5>2. m \in S
          BY <1>9, <4>1, <5>1, DescendantsTransitive
        <5>3. QED
          BY <1>6, <3>1, <5>2
      <4>5. QED
        BY <4>2, <4>3, <4>4
    <3>4. QED
      BY <3>2, <3>3
  <2>3. QED
    BY <1>2, <1>10, <2>1, <2>2 DEF RunInv, OutputInv, Scope, InScope
<1>13. FailureInv'
  <2>1. \A f \in Nodes : Descendants(edges, f) \subseteq Nodes
    BY DEF Descendants
  <2>2. continueOnError => \A f \in Nodes : results'[f] = "failed" =>
           \A m \in Descendants(edges, f) : results'[m] # "none"
    <3> SUFFICES ASSUME continueOnError, NEW f \in Nodes, results'[f] = "failed",
                        NEW m \in Descendants(edges, f)
                 PROVE  results'[m] # "none"
      OBVIOUS
    <3>1. CASE f = n
      BY <1>6, <2>1, <3>1
    <3>2. CASE f # n
      BY <1>2, <1>10, <2>1, <3>2 DEF RunInv, FailureInv
    <3>3. QED
      BY <3>1, <3>2
  <2>3. errors' # {} /\ \E m \in Nodes : results'[m] = "failed"
    BY <1>5, <1>6
  <2>4. \A m \in Nodes : results'[m] = "failed" => \E e \in errors' : e.node = m
    <3> SUFFICES ASSUME NEW m \in Nodes, results'[m] = "failed" PROVE \E e \in errors' : e.node = m
      OBVIOUS
    <3>1. CASE m = n
      BY <1>4, <1>5, <3>1
    <3>2. CASE m # n
      <4>1. PICK e \in errors : e.node = m
        BY <1>2, <1>10, <3>2 DEF RunInv, FailureInv
      <4>2. QED
        BY <1>5, <4>1
    <3>3. QED
      BY <3>1, <3>2
  <2>5. QED
    BY <2>2, <2>3, <2>4 DEF FailureInv
<1>14. ErrorInv'
  <2> SUFFICES ASSUME NEW e \in errors'
               PROVE  e.node \in Nodes /\ \A i \in iterators : results'[i] = "none" => e.node \notin Scope(i)
    BY DEF ErrorInv, Scope
  <2>1. CASE e \in errors
    BY <1>2, <1>9, <1>10, <2>1 DEF RunInv, ErrorInv
  <2>2. CASE e = r
    BY <1>4, <1>9, <1>10, <2>2
  <2>3. QED
    BY <1>5, <2>1, <2>2
<1>15. InputsSucceeded'
  BY <1>2, <1>10 DEF RunInv, InputsSucceeded, Scope, InScope, Predecessors
<1>16. SkippedIsDownstream'
  <2> SUFFICES ASSUME continueOnError, NEW m \in Nodes, results'[m] = "skipped"
               PROVE  \E f \in Nodes : results'[f] = "failed" /\ m \in Descendants(edges, f)
    BY DEF SkippedIsDownstream
  <2>1. CASE results[m] = "skipped"
    BY <1>2, <1>10, <2>1 DEF RunInv, SkippedIsDownstream
  <2>2. CASE m \in S
    BY <1>6, <2>2
  <2>3. QED
    BY <1>10, <2>1, <2>2
<1>17. UnavailableExplained'
  <2>1. \A p \in Nodes : results[p] \in {"failed", "skipped"} => results'[p] \in {"failed", "skipped"}
    BY <1>10
  <2>2. QED
    BY <1>2, <1>4, <1>5, <2>1, ExplainedKept DEF RunInv
<1>18. FanInInOrder'
  <2>1. \A i \in iterators : {x \in errors' : x.node \in Scope(i)} = {x \in errors : x.node \in Scope(i)}
    BY <1>4, <1>5, <1>9
  <2>2. QED
    BY <1>2, <2>1 DEF RunInv, FanInInOrder, Scope
<1>19. RunInv'
  BY <1>7, <1>11, <1>12, <1>13, <1>14, <1>15, <1>16, <1>17, <1>18 DEF RunInv
<1>20. QED
  BY <1>1, <1>4, <1>5, <1>8, <1>19, RunningKeeps DEF pipeline, plan

LEMMA FailNodeKeeps ==
  ASSUME EngineInv, NEW n \in Nodes, FailNode(n) \/ FailIterator(n)
  PROVE  EngineInv'
<1>0. PICK why \in Failures(n, outputs) : errors' = errors \cup {Report(n, 0, why)}
  BY DEF FailNode, FailIterator
<1>1. /\ At(n) /\ ~abort /\ Advance
      /\ UNCHANGED <<edges, iterators, references, continueOnError, topo, scopes, outputs, merged,
                     iterations, active, tasks, status>>
  BY DEF FailNode, FailIterator, pipeline, plan, fan
<1>2. TypeOK /\ RunInv
  BY <1>1, Running DEF At
<1>3. results[n] = "none" /\ results \in [Nodes -> Statuses] /\ abort = FALSE
  BY <1>1, <1>2 DEF At, TypeOK
<1>4. Descendants(edges, n) \in SUBSET Nodes
  BY DEF Descendants
<1>5. CASE FailNode(n) /\ continueOnError
  <2>1. results' = Skip([results EXCEPT ![n] = "failed"], Descendants(edges, n)) /\ abort' = abort
    BY <1>5 DEF FailNode
  <2>2. abort' = ~continueOnError
    BY <1>3, <1>5, <2>1
  <2>3. QED
    BY <1>0, <1>1, <1>4, <2>1, <2>2, FailureKeeps
<1>6. CASE FailNode(n) /\ ~continueOnError
  <2>1. results' = [results EXCEPT ![n] = "failed"] /\ abort' = TRUE /\ n \notin iterators
    BY <1>6 DEF FailNode
  <2>2. results' = Skip([results EXCEPT ![n] = "failed"], {})
    BY <1>3, <2>1 DEF Skip
  <2>3. abort' = ~continueOnError
    BY <1>6, <2>1
  <2>4. {} \in SUBSET Nodes
    OBVIOUS
  <2>5. QED
    BY <1>0, <1>1, <1>6, <2>1, <2>2, <2>3, <2>4, FailureKeeps
<1>7. CASE FailIterator(n)
  <2>1. /\ results' = Skip([results EXCEPT ![n] = "failed"], Scope(n)) /\ abort' = ~continueOnError
        /\ n \in iterators
    BY <1>7 DEF FailIterator
  <2>2. Scope(n) = Descendants(edges, n)
    BY <1>2, <2>1, ScopeIs DEF RunInv
  <2>3. QED
    BY <1>0, <1>1, <1>4, <2>1, <2>2, FailureKeeps
<1>8. QED
  BY <1>5, <1>6, <1>7
-----------------------------------------------------------------------------
(* The end of a fan-out.                                                   *)

\* Before the fan-in neither the iterator nor a member has an output.
LEMMA MembersUntouched ==
  ASSUME TypeOK, TopoInv, RunInv, active # 0
  PROVE  /\ active \in iterators /\ active \in Nodes
         /\ Scope(active) \subseteq Nodes /\ Scope(active) = Descendants(edges, active)
         /\ active \notin Scope(active)
         /\ \A m \in {active} \cup Scope(active) :
               m \notin outputs /\ results[m] \in {"none", "skipped"}
         /\ \A i \in iterators : i # active =>
               /\ i \notin Scope(active) /\ active \notin Scope(i)
               /\ \A m \in Scope(i) : m \notin Scope(active)
<1>1. active \in iterators /\ results[active] = "none" /\ PlanInv
  BY DEF RunInv, LoopInv
<1>2. active \in Nodes /\ Scope(active) \subseteq Nodes /\ Scope(active) = Descendants(edges, active)
  BY <1>1, ScopeIs DEF TypeOK
<1>3. \A m \in {active} \cup Scope(active) : results[m] \in {"none", "skipped"}
  BY <1>1 DEF RunInv, OutputInv
<1>4. \A m \in {active} \cup Scope(active) : m \notin outputs
  BY <1>3 DEF RunInv, OutputInv
<1>5. \A i \in iterators : ~InScope(i)
  BY <1>1, IteratorOutside
<1>6. \A i \in iterators : i # active => \A m \in Scope(i) : m \notin Scope(active)
  BY <1>1, ScopesDisjoint
<1>7. QED
  BY <1>1, <1>2, <1>3, <1>4, <1>5, <1>6 DEF InScope

\* What an execution of the fan-out misses comes from outside the scope: it
\* failed, was skipped or comes later in the order.
Excused(p) ==
    /\ p \notin Scope(active)
    /\ \/ results[p] \in {"failed", "skipped"}
       \/ \E j, k \in 1..N : topo[j] = active /\ topo[k] = p /\ j < k

LEMMA MissingIsExcused ==
  ASSUME TypeOK, TopoInv, RunInv, active # 0, NEW i \in DOMAIN tasks, tasks[i].st = "failed",
         NEW p, p \in Predecessors(edges, IterationNode(i)) \/ p \in Named(IterationNode(i)),
         p \notin View(i)
  PROVE  Excused(p)
<1> DEFINE m == IterationNode(i)
<1>1. /\ m \in Nodes /\ \A x \in Scope(active) : Precedes(x, m) => x \in tasks[i].local
  BY AtMember
<1>2. p \notin outputs /\ p \notin tasks[i].local
  BY DEF View
<1>3. p \in Nodes /\ Precedes(p, m)
  BY <1>1, AncestorPrecedes DEF RunInv
<1>4. p \notin Scope(active)
  BY <1>1, <1>2, <1>3
<1>5. p # active
  BY <1>2 DEF RunInv, TaskInv
<1>6. cursor \in 1..N /\ topo[cursor] = active
  BY NAssumption DEF RunInv, LoopInv, TypeOK
<1>7. PICK k \in 1..N : topo[k] = p
  BY <1>3 DEF RunInv, PlanInv, NodeSet
<1>8. CASE cursor < k
  BY <1>4, <1>6, <1>7, <1>8 DEF Excused
<1>9. CASE ~(cursor < k)
  <2>1. k < cursor
    BY <1>5, <1>6, <1>7, <1>9
  <2>2. results[p] # "none"
    BY <1>7, <2>1 DEF RunInv, LoopInv
  <2>3. results[p] # "succeeded"
    BY <1>2, <1>3 DEF RunInv, OutputInv
  <2>4. results[p] \in {"failed", "skipped"}
    BY <1>3, <2>2, <2>3 DEF TypeOK, Statuses
  <2>5. QED
    BY <1>4, <2>4 DEF Excused
<1>10. QED
  BY <1>8, <1>9

\* The report of a failed iteration, and why something was missing.
LEMMA IterationReport ==
  ASSUME TypeOK, TopoInv, RunInv, active # 0, NEW i \in InState("failed")
  PROVE  LET r == Report(IterationNode(i), i, tasks[i].why) IN
         /\ r \in ErrorType /\ r.node = IterationNode(i) /\ r.index = i
         /\ r.node \in Scope(active) /\ r.node \in Nodes
         /\ r.kind # "invalid"
         /\ r.kind \in {"unavailable", "reference"} => \E p \in Needed(r) : Excused(p)
<1> DEFINE m == IterationNode(i)
           q == tasks[i].why
           r == Report(m, i, q)
<1>1. i \in DOMAIN tasks /\ tasks[i].st = "failed"
  BY DEF InState
<1>2. m \in Scope(active) /\ m \in Nodes
  BY <1>1, AtMember
<1>3. i \in 0..MaxValues
  BY <1>1, EngineAssumption DEF TypeOK
<1>4. q \in Failures(m, View(i))
  BY <1>1 DEF RunInv, TaskInv
<1>5. \A p : (p \in Predecessors(edges, m) \/ p \in Named(m)) /\ p \notin View(i) => Excused(p)
  BY <1>1, MissingIsExcused
<1> HIDE DEF m, q
<1>6. /\ q \in Kinds
      /\ q = "reference" => ~(Named(m) \subseteq View(i))
      /\ q = "unavailable" => ~(Predecessors(edges, m) \subseteq View(i))
  BY <1>4 DEF Failures, Resolves, Unavailable, Kinds
<1>7. r = [node |-> m, index |-> i, kind |-> q]
  BY DEF Report
<1>8. r \in ErrorType /\ r.node = m /\ r.index = i /\ r.kind = q /\ q # "invalid"
  BY <1>2, <1>3, <1>6, <1>7, NAssumption DEF ErrorType, Kinds, Nodes
<1> HIDE DEF r
<1>9. ASSUME q \in {"unavailable", "reference"} PROVE \E p \in Needed(r) : Excused(p)
  <2>1. CASE q = "reference"
    <3>1. PICK p \in Named(m) : p \notin View(i)
      BY <1>6, <2>1
    <3>2. p \in Needed(r) /\ Excused(p)
      BY <1>5, <1>8, <2>1, <3>1 DEF Needed
    <3>3. QED
      BY <3>2
  <2>2. CASE q = "unavailable"
    <3>1. PICK p \in Predecessors(edges, m) : p \notin View(i)
      BY <1>6, <2>2
    <3>2. p \in Needed(r) /\ Excused(p)
      BY <1>5, <1>8, <2>2, <3>1 DEF Needed
    <3>3. QED
      BY <3>2
  <2>3. QED
    BY <1>9, <2>1, <2>2
<1>10. QED
  BY <1>2, <1>8, <1>9 DEF m, q, r

\* The reports of the failed iterations, as a set.
LEMMA IterationReports ==
  ASSUME TypeOK, TopoInv, RunInv, active # 0
  PROVE  /\ IterationErrors \subseteq ErrorType
         /\ \A e \in IterationErrors :
               /\ e.node \in Scope(active) /\ e.kind # "invalid"
               /\ e.kind \in {"unavailable", "reference"} => \E p \in Needed(e) : Excused(p)
         /\ {e.index : e \in IterationErrors} = InState("failed")
         /\ InState("failed") # {} => IterationErrors # {}
         /\ \A i \in InState("failed") : \E e \in IterationErrors : e.node = IterationNode(i)
<1> DEFINE r(i) == Report(IterationNode(i), i, tasks[i].why)
<1>1. IterationErrors = {r(i) : i \in InState("failed")}
  BY DEF IterationErrors
<1>2. \A i \in InState("failed") :
         /\ r(i) \in ErrorType /\ r(i).node = IterationNode(i) /\ r(i).index = i
         /\ r(i).node \in Scope(active) /\ r(i).kind # "invalid"
         /\ r(i).kind \in {"unavailable", "reference"} => \E p \in Needed(r(i)) : Excused(p)
  BY IterationReport
<1> HIDE DEF r
<1>3. QED
  BY <1>1, <1>2

\* New reports need no more explanation than the fan-out gave.
LEMMA FanExplained ==
  ASSUME TypeOK, TopoInv, RunInv, active # 0,
         UNCHANGED <<edges, iterators, references, topo, scopes>>,
         errors' = errors \cup IterationErrors,
         \A p \in Nodes : results[p] \in {"failed", "skipped"} =>
            p \in Scope(active) \/ results'[p] \in {"failed", "skipped"}
  PROVE  UnavailableExplained'
<1>0. iterators' = iterators /\ topo' = topo /\ \A x : Needed(x)' = Needed(x) /\ Scope(x)' = Scope(x)
  BY DEF Needed, Named, Scope
<1> SUFFICES ASSUME NEW e \in errors', e.kind \in {"unavailable", "reference"}
             PROVE  \E i \in iterators : \E p \in Needed(e) \ Scope(i) :
                      /\ e.node \in Scope(i)
                      /\ \/ results'[p] \in {"failed", "skipped"}
                         \/ \E j, k \in 1..N : topo[j] = i /\ topo[k] = p /\ j < k
  BY <1>0 DEF UnavailableExplained
<1>1. \A p \in Needed(e) : p \in Nodes /\ (p \in Predecessors(edges, e.node) \/ p \in Named(e.node))
  BY DEF Needed, Named, Predecessors
<1>2. active \in iterators /\ active \in Nodes /\ PlanInv
  BY MembersUntouched DEF RunInv
<1>3. CASE e \in IterationErrors
  <2>1. e.node \in Scope(active)
    BY <1>3, IterationReports
  <2>2. PICK p \in Needed(e) : Excused(p)
    BY <1>3, IterationReports
  <2>3. QED
    BY <1>1, <1>2, <2>1, <2>2 DEF Excused
<1>4. CASE e \in errors
  <2>1. PICK i \in iterators : \E p \in Needed(e) \ Scope(i) :
           /\ e.node \in Scope(i)
           /\ \/ results[p] \in {"failed", "skipped"}
              \/ \E j, k \in 1..N : topo[j] = i /\ topo[k] = p /\ j < k
    BY <1>4 DEF RunInv, UnavailableExplained
  <2>2. PICK p \in Needed(e) \ Scope(i) :
           /\ e.node \in Scope(i)
           /\ \/ results[p] \in {"failed", "skipped"}
              \/ \E j, k \in 1..N : topo[j] = i /\ topo[k] = p /\ j < k
    BY <2>1
  <2>3. p \in Nodes /\ e.node \in Descendants(edges, p)
    <3>1. e.node \in Nodes
      BY <1>4 DEF RunInv, ErrorInv
    <3>2. QED
      BY <1>1, <1>2, <3>1, AncestorPrecedes
  <2>4. p \notin Scope(active)
    <3>1. SUFFICES ASSUME p \in Scope(active) PROVE FALSE
      OBVIOUS
    <3>2. e.node \in Scope(active)
      BY <1>2, <2>3, <3>1, ScopeIs, DescendantsTransitive
    <3>3. i = active
      BY <1>2, <2>2, <3>2, ScopesDisjoint
    <3>4. QED
      BY <2>2, <3>1, <3>3
  <2>5. QED
    BY <2>2, <2>3, <2>4
<1>5. QED
  BY <1>3, <1>4

\* The bookkeeping that both ends of a fan-out share.
LEMMA FanEnds ==
  ASSUME TypeOK, RunInv, active # 0, EndFanOut, topo' = topo, status' = status,
         results'[active] # "none",
         \A m \in Nodes : results[m] # "none" => results'[m] # "none"
  PROVE  /\ LoopInv' /\ TaskInv' /\ cursor' \in 1..(N + 1) /\ status = "running"
         /\ active' = 0 /\ tasks' = <<>>
<1>1. /\ status = "running" /\ cursor <= N /\ topo[cursor] = active
      /\ cursor' = cursor + 1 /\ active' = 0 /\ tasks' = <<>>
  BY DEF EndFanOut, Advance, RunInv, LoopInv
<1>2. cursor' \in 1..(N + 1) /\ \A k \in 1..N : k < cursor' => k < cursor \/ k = cursor
  BY <1>1, NAssumption DEF TypeOK
<1>3. \A k \in 1..N : topo[k] \in Nodes
  BY DEF RunInv, PlanInv, NodeSet
<1>4. LoopInv'
  BY <1>1, <1>2, <1>3 DEF RunInv, LoopInv
<1>5. QED
  BY <1>1, <1>2, <1>4 DEF TaskInv
LEMMA AbortFanOutKeeps ==
  ASSUME EngineInv, AbortFanOut
  PROVE  EngineInv'
<1> DEFINE first == IterationNode(Min(InState("failed")))
           M == {active} \cup Scope(active)
<1>1. /\ active # 0 /\ ~continueOnError /\ InState("failed") # {}
      /\ errors' = errors \cup IterationErrors
      /\ results' = Skip([results EXCEPT ![first] = "failed"], M)
      /\ abort' = TRUE /\ EndFanOut
      /\ UNCHANGED <<edges, iterators, references, continueOnError, topo, scopes, outputs, merged,
                     iterations, status>>
  BY DEF AbortFanOut, Settled, pipeline, plan
<1>2. TypeOK /\ TopoInv /\ RunInv
  BY <1>1, FanningOut
<1>3. Min(InState("failed")) \in InState("failed")
  <2>1. InState("failed") \in SUBSET Nat
    BY <1>2 DEF InState, TypeOK
  <2>2. QED
    BY <1>1, <2>1, MinIsLeast
<1>4. first \in Scope(active) /\ first \in Nodes
  BY <1>1, <1>2, <1>3, AtMember DEF InState
<1>5. \E e \in IterationErrors : e.node = first
  BY <1>1, <1>2, <1>3, IterationReports
<1> HIDE DEF first
<1>6. /\ active \in iterators /\ active \in Nodes /\ Scope(active) \subseteq Nodes
      /\ active \notin Scope(active)
      /\ \A m \in M : m \notin outputs /\ results[m] \in {"none", "skipped"}
      /\ \A i \in iterators : i # active =>
            /\ i \notin Scope(active) /\ active \notin Scope(i)
            /\ \A m \in Scope(i) : m \notin Scope(active)
  BY <1>1, <1>2, MembersUntouched
<1>7. /\ results' \in [Nodes -> Statuses] /\ results'[first] = "failed"
      /\ \A m \in Nodes : m # first => results'[m] = IF m \in M /\ results[m] = "none"
                                                     THEN "skipped" ELSE results[m]
  BY <1>1, <1>2, <1>4 DEF TypeOK, Skip, Statuses
<1>8. \A m \in Nodes : /\ results'[m] = "succeeded" <=> results[m] = "succeeded"
                       /\ results[m] # "none" => results'[m] # "none"
                       /\ results'[m] = "failed" <=> m = first \/ results[m] = "failed"
                       /\ m \notin M => results'[m] = results[m]
                       /\ m \in M => results'[m] # "none"
                       /\ results[m] \in {"failed", "skipped"} => results'[m] \in {"failed", "skipped"}
  BY <1>4, <1>6, <1>7
<1>9. /\ LoopInv' /\ TaskInv' /\ cursor' \in 1..(N + 1) /\ status = "running"
      /\ active' = 0 /\ tasks' = <<>>
  BY <1>1, <1>2, <1>6, <1>8, FanEnds
<1>10. TypeOK'
  <2>1. errors' \subseteq ErrorType
    BY <1>1, <1>2, IterationReports DEF TypeOK
  <2>2. tasks' \in [1..0 -> TaskType] /\ 0 \in 0..MaxValues /\ active' \in 0..N
    BY <1>9, NAssumption, EngineAssumption
  <2>3. QED
    BY <1>1, <1>2, <1>7, <1>9, <2>1, <2>2 DEF TypeOK
<1>11. \A i \in iterators : i \in Nodes /\ Scope(i) \subseteq Nodes
  BY <1>2, ScopeIs DEF RunInv, TypeOK
<1>12. PlanInv' /\ OutputInv'
  <2>1. \A m \in outputs : m \in Nodes /\ results'[m] = results[m]
    BY <1>2, <1>6, <1>8 DEF TypeOK
  <2>2. \A i \in iterators : \A m \in Scope(i) :
           results'[i] = "none" => results'[m] \in {"none", "skipped"}
    <3> SUFFICES ASSUME NEW i \in iterators, NEW m \in Scope(i), results'[i] = "none"
                 PROVE  results'[m] \in {"none", "skipped"}
      OBVIOUS
    <3>1. i # active /\ results[i] = "none"
      BY <1>6, <1>8, <1>11
    <3>2. m \in Nodes /\ m \notin M
      BY <1>6, <1>11, <3>1
    <3>3. QED
      BY <1>2, <1>8, <3>1, <3>2 DEF RunInv, OutputInv
  <2>3. PlanInv'
    BY <1>1, <1>2 DEF RunInv, PlanInv, Valid
  <2>4. \A m \in Nodes : results'[m] = "succeeded" => m \in outputs
    BY <1>2, <1>8 DEF RunInv, OutputInv
  <2>5. \A m \in outputs : /\ results'[m] \in {"succeeded", "failed"}
                           /\ results'[m] = "failed" => InScope(m)
    BY <1>2, <2>1 DEF RunInv, OutputInv
  <2>6. QED
    BY <1>1, <2>2, <2>3, <2>4, <2>5 DEF OutputInv, Scope, InScope
<1>13. FailureInv'
  <2>1. errors' # {} /\ \E m \in Nodes : results'[m] = "failed"
    BY <1>1, <1>4, <1>5, <1>7
  <2>2. \A m \in Nodes : results'[m] = "failed" => \E e \in errors' : e.node = m
    <3> SUFFICES ASSUME NEW m \in Nodes, results'[m] = "failed" PROVE \E e \in errors' : e.node = m
      OBVIOUS
    <3>1. CASE m = first
      BY <1>1, <1>5, <3>1
    <3>2. CASE m # first
      <4>1. PICK e \in errors : e.node = m
        BY <1>2, <1>8, <3>2 DEF RunInv, FailureInv
      <4>2. QED
        BY <1>1, <4>1
    <3>3. QED
      BY <3>1, <3>2
  <2>3. QED
    BY <1>1, <2>1, <2>2 DEF FailureInv
<1>14. ErrorInv'
  <2> SUFFICES ASSUME NEW e \in errors'
               PROVE  e.node \in Nodes /\ \A i \in iterators : results'[i] = "none" => e.node \notin Scope(i)
    BY <1>1 DEF ErrorInv, Scope
  <2>1. CASE e \in errors
    BY <1>2, <1>8, <1>11, <2>1 DEF RunInv, ErrorInv
  <2>2. CASE e \in IterationErrors
    <3>1. e.node \in Scope(active)
      BY <1>1, <1>2, <2>2, IterationReports
    <3>2. QED
      BY <1>6, <1>8, <3>1
  <2>3. QED
    BY <1>1, <2>1, <2>2
<1>15. InputsSucceeded' /\ SkippedIsDownstream'
  BY <1>1, <1>2, <1>8 DEF RunInv, InputsSucceeded, SkippedIsDownstream, Scope, InScope, Predecessors
<1>16. UnavailableExplained'
  BY <1>1, <1>2, <1>8, FanExplained
<1>17. FanInInOrder'
  <2>0. /\ iterators' = iterators /\ outputs' = outputs /\ merged' = merged
        /\ iterations' = iterations /\ \A i : Scope(i)' = Scope(i)
    BY <1>1 DEF Scope
  <2> SUFFICES ASSUME NEW i \in iterators \cap outputs, NEW m \in {i} \cup Scope(i)
               PROVE  merged[m] = InOrder((1..iterations[i]) \
                        {e.index : e \in {x \in errors' : x.node \in Scope(i)}})
    BY <2>0 DEF FanInInOrder
  <2>1. i # active
    BY <1>6
  <2>2. \A x \in IterationErrors : x.node \notin Scope(i)
    BY <1>1, <1>2, <1>6, <2>1, IterationReports
  <2>3. {x \in errors' : x.node \in Scope(i)} = {x \in errors : x.node \in Scope(i)}
    BY <1>1, <2>2
  <2>4. QED
    BY <1>2, <2>3 DEF RunInv, FanInInOrder
<1>18. RunInv'
  BY <1>9, <1>12, <1>13, <1>14, <1>15, <1>16, <1>17 DEF RunInv
<1>19. \A e \in errors' : e \in errors \/ e.kind # "invalid"
  BY <1>1, <1>2, IterationReports
<1>20. QED
  BY <1>1, <1>9, <1>10, <1>18, <1>19, RunningKeeps DEF pipeline, plan

\* When all tasks have ended and none was cancelled, those that did not fail
\* are done.
LEMMA DoneOrFailed ==
  ASSUME TypeOK, RunInv, Settled, continueOnError \/ InState("failed") = {}
  PROVE  /\ InState("done") = DOMAIN tasks \ InState("failed")
         /\ \E k \in 0..MaxValues : DOMAIN tasks = 1..k /\ Cardinality(DOMAIN tasks) = k
         /\ Cardinality(InState("done")) \in 0..MaxValues
         /\ InState("done") \in SUBSET (1..MaxValues)
<1>1. PICK k \in 0..MaxValues : tasks \in [1..k -> TaskType]
  BY DEF TypeOK
<1>2. InState("cancelled") = {}
  BY DEF RunInv, TaskInv, Settled
<1>3. InState("done") = DOMAIN tasks \ InState("failed")
  <2>1. \A i \in DOMAIN tasks : tasks[i].st \in {"waiting", "running", "done", "failed", "cancelled"}
    BY <1>1 DEF TaskType
  <2>2. QED
    BY <1>2, <2>1 DEF Settled, InState
<1>4. k \in Nat /\ MaxValues \in Nat /\ DOMAIN tasks = 1..k
  BY <1>1, EngineAssumption
<1>5. IsFiniteSet(1..k) /\ Cardinality(1..k) = k
  BY <1>4, FS_Interval
<1>6. InState("done") \in SUBSET (1..k)
  BY <1>4 DEF InState
<1>7. /\ IsFiniteSet(InState("done")) /\ Cardinality(InState("done")) <= k
      /\ Cardinality(InState("done")) \in Nat
  BY <1>5, <1>6, FS_Subset, FS_CardinalityType
<1>8. Cardinality(InState("done")) \in 0..MaxValues
  <2> DEFINE c == Cardinality(InState("done"))
  <2>1. c \in Nat /\ c <= k
    BY <1>7
  <2> HIDE DEF c
  <2>2. c \in 0..MaxValues
    BY <1>4, <2>1
  <2>3. QED
    BY <2>2 DEF c
<1>9. QED
  BY <1>3, <1>4, <1>5, <1>6, <1>8

LEMMA FanInKeeps ==
  ASSUME EngineInv, FanIn
  PROVE  EngineInv'
<1> DEFINE M == {active} \cup Scope(active)
           F == {e.node : e \in IterationErrors}
<1>1. /\ Settled /\ (continueOnError \/ InState("failed") = {})
      /\ errors' = errors \cup IterationErrors
      /\ results' = [n \in Nodes |-> IF n \notin M THEN results[n]
                                     ELSE IF n \in F THEN "failed" ELSE "succeeded"]
      /\ outputs' = outputs \cup M
      /\ merged' = [n \in Nodes |-> IF n \in M THEN InOrder(Completed) ELSE merged[n]]
      /\ iterations' = [n \in Nodes |->
                          IF n = active THEN Cardinality(DOMAIN tasks)
                          ELSE IF n \in M THEN Cardinality(Completed) ELSE iterations[n]]
      /\ EndFanOut
      /\ UNCHANGED <<edges, iterators, references, continueOnError, topo, scopes, abort, status>>
  BY DEF FanIn, pipeline, plan
<1>2. active # 0
  BY <1>1 DEF Settled
<1>3. TypeOK /\ TopoInv /\ RunInv
  BY <1>2, FanningOut
<1>4. /\ active \in iterators /\ active \in Nodes /\ Scope(active) \subseteq Nodes
      /\ Scope(active) = Descendants(edges, active) /\ active \notin Scope(active)
      /\ \A m \in M : m \notin outputs /\ results[m] \in {"none", "skipped"}
      /\ \A i \in iterators : i # active =>
            /\ i \notin Scope(active) /\ active \notin Scope(i)
            /\ \A m \in Scope(i) : m \notin Scope(active)
  BY <1>2, <1>3, MembersUntouched
<1>5. /\ InState("done") = DOMAIN tasks \ InState("failed")
      /\ \E k \in 0..MaxValues : DOMAIN tasks = 1..k /\ Cardinality(DOMAIN tasks) = k
      /\ Cardinality(InState("done")) \in 0..MaxValues
      /\ InState("done") \in SUBSET (1..MaxValues)
  BY <1>1, <1>3, DoneOrFailed
<1>6. /\ IterationErrors \subseteq ErrorType
      /\ F \subseteq Scope(active)
      /\ \A e \in IterationErrors : e.node \in Scope(active) /\ e.kind # "invalid"
      /\ {e.index : e \in IterationErrors} = InState("failed")
  BY <1>2, <1>3, IterationReports
<1>7. /\ results' \in [Nodes -> Statuses]
      /\ \A m \in Nodes : /\ m \notin M => results'[m] = results[m]
                          /\ m \in M => results'[m] = IF m \in F THEN "failed" ELSE "succeeded"
  BY <1>1, <1>3 DEF TypeOK, Statuses
<1>8. \A m \in Nodes : /\ results[m] # "none" => results'[m] # "none"
                       /\ m \in M => results'[m] \in {"failed", "succeeded"}
                       /\ results[m] = "failed" => m \notin M /\ results'[m] = "failed"
                       /\ results[m] = "succeeded" => m \notin M /\ results'[m] = "succeeded"
  BY <1>4, <1>7
<1>9. /\ LoopInv' /\ TaskInv' /\ cursor' \in 1..(N + 1) /\ status = "running"
      /\ active' = 0 /\ tasks' = <<>>
  <2>1. results'[active] # "none"
    BY <1>4, <1>8
  <2>2. QED
    BY <1>1, <1>2, <1>3, <1>8, <2>1, FanEnds
<1>10. \A i \in iterators : i \in Nodes /\ Scope(i) \subseteq Nodes
  BY <1>3, ScopeIs DEF RunInv, TypeOK
<1> HIDE DEF F
<1>11. TypeOK'
  <2>1. errors' \subseteq ErrorType /\ outputs' \subseteq Nodes
    BY <1>1, <1>3, <1>4, <1>6 DEF TypeOK
  <2>2. tasks' \in [1..0 -> TaskType] /\ 0 \in 0..MaxValues /\ active' \in 0..N
    BY <1>9, NAssumption, EngineAssumption
  <2>3. merged' \in [Nodes -> {InOrder(S) : S \in SUBSET (1..MaxValues)}]
    <3>1. InOrder(Completed) \in {InOrder(S) : S \in SUBSET (1..MaxValues)}
      BY <1>5 DEF Completed
    <3>2. QED
      BY <1>1, <1>3, <3>1 DEF TypeOK
  <2>4. iterations' \in [Nodes -> 0..MaxValues]
    BY <1>1, <1>3, <1>5 DEF TypeOK, Completed
  <2>5. QED
    BY <1>1, <1>3, <1>7, <1>9, <2>1, <2>2, <2>3, <2>4 DEF TypeOK
<1>12. PlanInv'
  BY <1>1, <1>3 DEF RunInv, PlanInv, Valid
<1>13. OutputInv'
  <2>1. \A n \in Nodes : results'[n] = "succeeded" => n \in outputs'
    BY <1>1, <1>3, <1>7 DEF RunInv, OutputInv
  <2>2. ASSUME NEW n \in outputs'
        PROVE  results'[n] \in {"succeeded", "failed"} /\ (results'[n] = "failed" => InScope(n))
    <3>1. CASE n \in M
      <4>1. n \in Nodes
        BY <1>4, <3>1
      <4>2. n \in F => InScope(n)
        BY <1>4, <1>6 DEF InScope
      <4>3. QED
        BY <1>7, <3>1, <4>1, <4>2
    <3>2. CASE n \notin M
      <4>1. n \in outputs /\ n \in Nodes
        BY <1>1, <1>3, <3>2 DEF TypeOK
      <4>2. QED
        BY <1>3, <1>7, <3>2, <4>1 DEF RunInv, OutputInv
    <3>3. QED
      BY <3>1, <3>2
  <2>3. ASSUME NEW i \in iterators, NEW m \in Scope(i)
        PROVE  /\ results'[i] = "none" => results'[m] \in {"none", "skipped"}
               /\ results'[i] # "none" /\ ~abort => results'[m] # "none"
    <3>1. CASE i = active
      BY <1>4, <1>8, <1>10, <3>1
    <3>2. CASE i # active
      <4>1. i \in Nodes /\ m \in Nodes /\ i \notin M /\ m \notin M
        BY <1>4, <1>10, <3>2
      <4>2. results'[i] = results[i] /\ results'[m] = results[m]
        BY <1>7, <4>1
      <4>3. QED
        BY <1>3, <4>2 DEF RunInv, OutputInv
    <3>3. QED
      BY <3>1, <3>2
  <2>4. QED
    BY <1>1, <2>1, <2>2, <2>3 DEF OutputInv, Scope, InScope
<1>14. FailureInv'
  <2>1. errors' # {} => \E n \in Nodes : results'[n] = "failed"
    <3>1. CASE errors # {}
      BY <1>3, <1>8, <3>1 DEF RunInv, FailureInv
    <3>2. ASSUME NEW e \in IterationErrors PROVE results'[e.node] = "failed" /\ e.node \in Nodes
      <4>1. e.node \in F /\ e.node \in Scope(active)
        BY <1>6 DEF F
      <4>2. QED
        BY <1>4, <1>7, <4>1
    <3>3. QED
      BY <1>1, <3>1, <3>2
  <2>2. ASSUME NEW n \in Nodes, results'[n] = "failed" PROVE \E e \in errors' : e.node = n
    <3>1. CASE n \in M
      BY <1>1, <1>7, <2>2, <3>1 DEF F
    <3>2. CASE n \notin M
      BY <1>1, <1>3, <1>7, <2>2, <3>2 DEF RunInv, FailureInv
    <3>3. QED
      BY <3>1, <3>2
  <2>3. \A n \in Nodes : results'[n] = "skipped" => errors' # {}
    BY <1>1, <1>3, <1>7, <1>8 DEF RunInv, FailureInv
  <2>4. abort <=> ~continueOnError /\ errors' # {}
    <3>1. ~abort /\ (abort <=> ~continueOnError /\ errors # {})
      BY <1>2, <1>3 DEF RunInv, LoopInv, FailureInv
    <3>2. InState("failed") = {} => IterationErrors = {}
      BY <1>6
    <3>3. QED
      BY <1>1, <3>1, <3>2
  <2>5. ASSUME continueOnError, NEW f \in Nodes, results'[f] = "failed",
               NEW m \in Descendants(edges, f)
        PROVE  results'[m] # "none"
    <3>1. m \in Nodes
      BY DEF Descendants
    <3>2. CASE f \in M
      <4>1. f \in Scope(active)
        BY <1>6, <1>7, <2>5, <3>2
      <4>2. m \in M
        BY <1>4, <4>1, DescendantsTransitive
      <4>3. QED
        BY <1>8, <3>1, <4>2
    <3>3. CASE f \notin M
      BY <1>3, <1>7, <1>8, <2>5, <3>1, <3>3 DEF RunInv, FailureInv
    <3>4. QED
      BY <3>2, <3>3
  <2>6. QED
    BY <1>1, <2>1, <2>2, <2>3, <2>4, <2>5 DEF FailureInv
<1>15. ErrorInv'
  <2> SUFFICES ASSUME NEW e \in errors'
               PROVE  e.node \in Nodes /\ \A i \in iterators : results'[i] = "none" => e.node \notin Scope(i)
    BY <1>1 DEF ErrorInv, Scope
  <2>1. CASE e \in errors
    BY <1>3, <1>8, <1>10, <2>1 DEF RunInv, ErrorInv
  <2>2. CASE e \in IterationErrors
    BY <1>4, <1>6, <1>8, <2>2
  <2>3. QED
    BY <1>1, <2>1, <2>2
<1>16. InputsSucceeded'
  <2> SUFFICES ASSUME NEW n \in Nodes, results'[n] = "succeeded", ~InScope(n),
                      NEW p \in Predecessors(edges, n)
               PROVE  results'[p] = "succeeded"
    BY <1>1 DEF InputsSucceeded, Scope, InScope
  <2>1. p \in Nodes
    BY DEF Predecessors
  <2>2. CASE n \in M
    <3>1. n = active
      BY <1>4, <2>2 DEF InScope
    <3>2. p \in outputs /\ ~InScope(p)
      BY <1>2, <1>3, <3>1, OutsideReadsOutside DEF RunInv, LoopInv
    <3>3. results[p] = "succeeded"
      BY <1>3, <3>2 DEF RunInv, OutputInv
    <3>4. QED
      BY <1>8, <2>1, <3>3
  <2>3. CASE n \notin M
    <3>1. results[p] = "succeeded"
      BY <1>3, <1>7, <2>3 DEF RunInv, InputsSucceeded
    <3>2. QED
      BY <1>8, <2>1, <3>1
  <2>4. QED
    BY <2>2, <2>3
<1>17. SkippedIsDownstream'
  <2> SUFFICES ASSUME continueOnError, NEW n \in Nodes, results'[n] = "skipped"
               PROVE  \E f \in Nodes : results'[f] = "failed" /\ n \in Descendants(edges, f)
    BY <1>1 DEF SkippedIsDownstream
  <2>1. results[n] = "skipped"
    BY <1>7, <1>8
  <2>2. QED
    BY <1>3, <1>8, <2>1 DEF RunInv, SkippedIsDownstream
<1>18. UnavailableExplained'
  <2>1. results[active] = "none"
    BY <1>2, <1>3 DEF RunInv, LoopInv
  <2>2. \A p \in Nodes : results[p] \in {"failed", "skipped"} =>
           p \in Scope(active) \/ results'[p] \in {"failed", "skipped"}
    BY <1>7, <2>1
  <2>3. QED
    BY <1>1, <1>2, <1>3, <2>2, FanExplained
<1>19. FanInInOrder'
  <2>0. iterators' = iterators /\ \A i : Scope(i)' = Scope(i)
    BY <1>1 DEF Scope
  <2> SUFFICES ASSUME NEW i \in iterators \cap outputs', NEW m \in {i} \cup Scope(i)
               PROVE  merged'[m] = InOrder((1..iterations'[i]) \
                        {e.index : e \in {x \in errors' : x.node \in Scope(i)}})
    BY <2>0 DEF FanInInOrder
  <2>1. m \in Nodes /\ i \in Nodes
    BY <1>10
  <2>2. CASE i = active
    <3>1. {x \in errors' : x.node \in Scope(active)} = IterationErrors
      <4>1. \A x \in errors : x.node \notin Scope(active)
        BY <1>2, <1>3, <1>4 DEF RunInv, ErrorInv, LoopInv
      <4>2. QED
        BY <1>1, <1>6, <4>1
    <3>2. iterations'[i] = Cardinality(DOMAIN tasks) /\ merged'[m] = InOrder(Completed)
      BY <1>1, <2>1, <2>2
    <3>3. 1..iterations'[i] = DOMAIN tasks
      BY <1>5, <3>2
    <3>4. QED
      BY <1>5, <1>6, <2>2, <3>1, <3>2, <3>3 DEF Completed
  <2>3. CASE i # active
    <3>1. i \notin M /\ m \notin M /\ i \in outputs
      BY <1>1, <1>4, <2>3
    <3>2. iterations'[i] = iterations[i] /\ merged'[m] = merged[m]
      BY <1>1, <2>1, <2>3, <3>1
    <3>3. {x \in errors' : x.node \in Scope(i)} = {x \in errors : x.node \in Scope(i)}
      BY <1>1, <1>4, <1>6, <2>3
    <3>4. QED
      BY <1>3, <3>1, <3>2, <3>3 DEF RunInv, FanInInOrder
  <2>4. QED
    BY <2>2, <2>3
<1>20. RunInv'
  BY <1>9, <1>12, <1>13, <1>14, <1>15, <1>16, <1>17, <1>18, <1>19 DEF RunInv
<1>21. QED
  BY <1>1, <1>6, <1>9, <1>11, <1>20, RunningKeeps DEF pipeline, plan
-----------------------------------------------------------------------------
(* The invariant holds throughout.                                         *)

LEMMA InitKeeps == Init => EngineInv
<1> SUFFICES ASSUME Init PROVE EngineInv
  OBVIOUS
<1>1. TypeOK
  <2>1. topo \in Seq(Nodes) /\ Len(topo) <= N
    BY NAssumption DEF Init
  <2>2. merged \in [Nodes -> {InOrder(S) : S \in SUBSET (1..MaxValues)}]
    BY DEF Init
  <2>3. iterations \in [Nodes -> 0..MaxValues] /\ 0 \in 0..MaxValues
    BY EngineAssumption DEF Init
  <2>4. tasks \in [1..0 -> TaskType]
    BY DEF Init
  <2>5. scopes \in [iterators -> SUBSET Nodes] /\ results \in [Nodes -> Statuses]
    BY DEF Init, Statuses
  <2>6. edges \subseteq Pairs /\ iterators \subseteq Nodes /\ references \subseteq Pairs
        /\ continueOnError \in BOOLEAN
    BY EngineAssumption DEF Init
  <2>7. cursor \in 1..(N + 1) /\ active \in 0..N
    BY NAssumption DEF Init
  <2>8. QED
    BY <2>1, <2>2, <2>3, <2>4, <2>5, <2>6, <2>7 DEF TypeOK, Init
<1>2. TopoInv
  BY DEF Init, TopoInv
<1>3. StartInv /\ ~Started
  BY DEF Init, StartInv, Started, Rejected
<1>4. QED
  BY <1>1, <1>2, <1>3 DEF EngineInv

LEMMA NextKeeps == EngineInv /\ [Next]_vars => EngineInv'
<1> SUFFICES ASSUME EngineInv, [Next]_vars PROVE EngineInv'
  OBVIOUS
<1>1. CASE TakeReady \/ Validate
  BY <1>1, TakeReadyKeeps, ValidateKeeps
<1>2. CASE MainLoop
  BY <1>2, PassOverKeeps, SkipAbortedKeeps, RunNodeKeeps, FailNodeKeeps, FanOutKeeps DEF MainLoop
<1>3. CASE \E i \in DOMAIN tasks : Iteration(i)
  BY <1>3, AcquireKeeps, RunIterationKeeps, FailIterationKeeps DEF Iteration
<1>4. CASE CancelRest \/ AbortFanOut \/ FanIn \/ Finish
  BY <1>4, CancelRestKeeps, AbortFanOutKeeps, FanInKeeps, FinishKeeps
<1>5. CASE UNCHANGED vars
  <2>1. UNCHANGED <<edges, iterators, references, continueOnError, topo, scopes, cursor, abort, results, outputs,
                    merged, iterations, errors, active, tasks, status>>
    BY <1>5 DEF vars, pipeline, plan, state, fan
  <2>2. TypeOK' /\ TopoInv' /\ StartInv' /\ (Started' => Started)
    BY <2>1 DEF EngineInv, TypeOK, TopoInv, StartInv, Started, Rejected
  <2>3. ASSUME Started PROVE RunInv'
    <3>1. RunInv
      BY <2>3 DEF EngineInv
    <3>2. LoopInv'
      BY <2>1, <3>1 DEF RunInv, LoopInv
    <3>3. \A i : (Failures(IterationNode(i), View(i)))' = Failures(IterationNode(i), View(i))
      BY <2>1, FailuresKept DEF pipeline, plan
    <3>4. TaskInv'
      BY <2>1, <3>1, <3>3 DEF RunInv, TaskInv, Scope, InState
    <3>5. QED
      BY <2>1, <3>1, <3>2, <3>4, StateKept DEF RunInv, pipeline, plan, state
  <2>4. QED
    BY <2>2, <2>3 DEF EngineInv
<1>6. QED
  BY <1>1, <1>2, <1>3, <1>4, <1>5 DEF Next, Step, Done

LEMMA Invariance == Spec => []EngineInv
BY InitKeeps, NextKeeps, PTL DEF Spec

-----------------------------------------------------------------------------
(* The theorems.                                                           *)

\* The state of execute_pipeline stays well formed.
THEOREM EngineTypeCorrect == Spec => []TypeOK
<1>1. EngineInv => TypeOK
  BY DEF EngineInv
<1>2. QED
  BY <1>1, Invariance, PTL

\* The verdict of a run is that of its nodes, for every graph, any iterators
\* and both error modes.
THEOREM VerdictIsTrue == Spec => []VerdictMatchesNodes
<1>1. EngineInv => VerdictMatchesNodes
  <2> SUFFICES ASSUME EngineInv, Ran
               PROVE  /\ \A n \in Nodes : results[n] # "none"
                      /\ status = "failed" <=> \E n \in Nodes : results[n] = "failed"
                      /\ \A n \in Nodes : results[n] = "failed" => \E e \in errors : e.node = n
                      /\ status = "succeeded" => outputs = Nodes
    BY DEF VerdictMatchesNodes
  <2>1. TypeOK /\ RunInv /\ status \in {"succeeded", "failed"}
    BY DEF EngineInv, Started, Ran, Finished
  <2>2. cursor = N + 1 /\ (status = "failed" <=> errors # {})
    BY <2>1 DEF RunInv, LoopInv
  <2>3. \A n \in Nodes : results[n] # "none"
    <3>1. \A k \in 1..N : k < cursor
      BY <2>2, NAssumption
    <3>2. \A n \in Nodes : \E k \in 1..N : topo[k] = n
      BY <2>1 DEF RunInv, PlanInv, NodeSet
    <3>3. QED
      BY <2>1, <3>1, <3>2 DEF RunInv, LoopInv
  <2>4. /\ errors # {} <=> \E n \in Nodes : results[n] = "failed"
        /\ \A n \in Nodes : results[n] = "failed" => \E e \in errors : e.node = n
    BY <2>1 DEF RunInv, FailureInv
  <2>5. ASSUME status = "succeeded" PROVE outputs = Nodes
    <3>1. errors = {}
      BY <2>1, <2>2, <2>5
    <3>2. \A n \in Nodes : results[n] = "succeeded"
      BY <2>1, <2>3, <2>4, <3>1 DEF RunInv, FailureInv, TypeOK, Statuses
    <3>3. QED
      BY <2>1, <3>2 DEF RunInv, OutputInv, TypeOK
  <2>6. QED
    BY <2>2, <2>3, <2>4, <2>5
<1>2. QED
  BY <1>1, Invariance, PTL

\* A node outside every scope succeeds only after all it reads from has.
THEOREM InputsSucceedFirst == Spec => []InputsSucceeded
<1>1. EngineInv => InputsSucceeded
  <2>1. ASSUME EngineInv, ~Started PROVE InputsSucceeded
    BY <2>1 DEF EngineInv, StartInv, InputsSucceeded
  <2>2. QED
    BY <2>1 DEF EngineInv, RunInv
<1>2. QED
  BY <1>1, Invariance, PTL

\* The main loop never misses an input or a node that a configuration names,
\* and an iteration misses one only from outside its scope: it failed, was
\* skipped, or comes later in the order than the iterator.
THEOREM MissingInputsExplained == Spec => []UnavailableExplained
<1>1. EngineInv => UnavailableExplained
  <2>1. ASSUME EngineInv, ~Started PROVE UnavailableExplained
    BY <2>1 DEF EngineInv, StartInv, UnavailableExplained
  <2>2. QED
    BY <2>1 DEF EngineInv, RunInv
<1>2. QED
  BY <1>1, Invariance, PTL

\* continue_on_error skips nothing but what lies downstream of a failure.
THEOREM SkipsAreDownstream == Spec => []SkippedIsDownstream
<1>1. EngineInv => SkippedIsDownstream
  <2>1. ASSUME EngineInv, ~Started PROVE SkippedIsDownstream
    BY <2>1 DEF EngineInv, StartInv, SkippedIsDownstream
  <2>2. QED
    BY <2>1 DEF EngineInv, RunInv
<1>2. QED
  BY <1>1, Invariance, PTL

\* Fan-in combines exactly the iterations that did not fail, whatever the
\* order in which the tasks end.
THEOREM FanInIsDeterministic == Spec => []FanInInOrder
<1>1. EngineInv => FanInInOrder
  <2>1. ASSUME EngineInv, ~Started PROVE FanInInOrder
    BY <2>1 DEF EngineInv, StartInv, FanInInOrder
  <2>2. QED
    BY <2>1 DEF EngineInv, RunInv
<1>2. QED
  BY <1>1, Invariance, PTL

\* Fail-fast: after the first error nothing succeeds and nothing is buffered.
THEOREM FailFastStops == Spec => NothingAfterFailure
<1> DEFINE A == ~continueOnError /\ errors # {} =>
                  /\ outputs' = outputs
                  /\ \A n \in Nodes : results'[n] = "succeeded" => results[n] = "succeeded"
<1>1. EngineInv /\ [Next]_vars => [A]_vars
  <2> SUFFICES ASSUME EngineInv, Next, ~continueOnError, errors # {}
               PROVE  /\ outputs' = outputs
                      /\ \A n \in Nodes : results'[n] = "succeeded" => results[n] = "succeeded"
    OBVIOUS
  <2>1. CASE TakeReady \/ Validate
    BY <2>1 DEF TakeReady, Validate, state
  <2>2. CASE Finish \/ Done
    BY <2>2 DEF Finish, Done, state, vars
  <2>3. CASE MainLoop
    <3>1. status = "running"
      BY <2>3 DEF MainLoop, PassOver, SkipAborted, RunNode, FailNode, FailIterator, FanOut, At
    <3>2. abort
      BY <3>1, Running DEF RunInv, FailureInv
    <3>3. CASE PassOver
      BY <3>3 DEF PassOver, state
    <3>4. CASE \E n \in Nodes : SkipAborted(n)
      <4>1. PICK n \in Nodes : SkipAborted(n)
        BY <3>4
      <4>2. results' = [m \in Nodes |-> IF m \in {n} /\ results[m] = "none" THEN "skipped" ELSE results[m]]
        BY <4>1 DEF SkipAborted, Skip
      <4>3. QED
        BY <4>1, <4>2 DEF SkipAborted
    <3>5. QED
      BY <2>3, <3>2, <3>3, <3>4 DEF MainLoop, RunNode, FailNode, FailIterator, FanOut
  <2>4. CASE active # 0
    <3>1. RunInv
      BY <2>4, FanningOut
    <3>2. QED
      BY <2>4, <3>1 DEF RunInv, LoopInv, FailureInv
  <2>5. CASE (\E i \in DOMAIN tasks : Iteration(i)) \/ CancelRest \/ AbortFanOut \/ FanIn
    <3>1. active # 0
      BY <2>5 DEF Iteration, Acquire, RunIteration, FailIteration, CancelRest, AbortFanOut, FanIn, Settled
    <3>2. QED
      BY <2>4, <3>1
  <2>6. QED
    BY <2>1, <2>2, <2>3, <2>5 DEF Next, Step
<1>2. QED
  BY <1>1, Invariance, PTL DEF Spec, NothingAfterFailure

\* When no node is ready any more and the graph has no cycle, the order is
\* complete: among the nodes that are left one with the fewest ancestors
\* would have been ready.
LEMMA KahnCompletes ==
  ASSUME TypeOK, TopoInv, Ready = {}, Acyclic(edges)
  PROVE  NodeSet(topo) = Nodes
<1> DEFINE U == Nodes \ NodeSet(topo)
           A(n) == {x \in Nodes : n \in Descendants(edges, x)}
           C == {Cardinality(A(n)) : n \in U}
<1>1. NodeSet(topo) \subseteq Nodes
  BY DEF NodeSet, TypeOK
<1>2. SUFFICES ASSUME U # {} PROVE FALSE
  BY <1>1
<1>3. IsFiniteSet(Nodes)
  BY NAssumption, FS_Interval DEF Nodes
<1>4. \A n \in Nodes : IsFiniteSet(A(n)) /\ Cardinality(A(n)) \in Nat
  BY <1>3, FS_Subset, FS_CardinalityType
<1>5. C \in SUBSET Nat /\ C # {}
  BY <1>2, <1>4
<1>6. PICK n \in U : \A m \in U : Cardinality(A(n)) <= Cardinality(A(m))
  <2>1. Min(C) \in C /\ \A y \in C : Min(C) <= y
    <3> HIDE DEF C
    <3>1. QED
      BY <1>5, MinIsLeast
  <2>2. PICK n \in U : Min(C) = Cardinality(A(n))
    BY <2>1
  <2>3. \A m \in U : Min(C) <= Cardinality(A(m))
    BY <2>1
  <2>4. QED
    BY <2>2, <2>3
<1>7. PICK p \in Predecessors(edges, n) : p \in U
  BY <1>6 DEF Ready, Predecessors
<1>8. p \in Nodes /\ n \in Descendants(edges, p)
  BY <1>7, DescendantsClosed DEF Predecessors
<1>9. A(p) \subseteq A(n)
  BY <1>8, DescendantsTransitive
<1>10. p \in A(n) /\ p \notin A(p)
  BY <1>8 DEF Acyclic
<1>11. IsFiniteSet(A(n)) /\ Cardinality(A(n)) \in Nat /\ Cardinality(A(p)) \in Nat
  BY <1>4, <1>8
<1> HIDE DEF A, U
<1>12. Cardinality(A(p)) <= Cardinality(A(n)) /\ Cardinality(A(p)) # Cardinality(A(n))
  <2>1. A(p) \in SUBSET A(n) /\ A(p) # A(n)
    BY <1>9, <1>10
  <2>2. QED
    BY <1>11, <2>1, FS_Subset
<1>13. Cardinality(A(n)) <= Cardinality(A(p))
  BY <1>6, <1>7
<1>14. QED
  BY <1>11, <1>12, <1>13

\* topo_order() rejects exactly the graphs with a cycle, and puts every node
\* after all it reads from.
THEOREM KahnIsRight == Spec => OrderIsRight
<1> DEFINE A == status = "sorting" /\ status' # "sorting" =>
                  /\ status' = "running" <=> Acyclic(edges) /\ Valid
                  /\ Acyclic(edges) => /\ NodeSet(topo') = Nodes
                                       /\ \A j, k \in 1..N : <<topo'[j], topo'[k]>> \in edges => j < k
<1>1. EngineInv /\ [Next]_vars => [A]_vars
  <2> SUFFICES ASSUME EngineInv, Next, status = "sorting", status' # "sorting"
               PROVE  /\ status' = "running" <=> Acyclic(edges) /\ Valid
                      /\ Acyclic(edges) => /\ NodeSet(topo) = Nodes
                                           /\ \A j, k \in 1..N : <<topo[j], topo[k]>> \in edges => j < k
                      /\ topo' = topo
    OBVIOUS
  <2>1. TypeOK /\ TopoInv /\ StartInv /\ active = 0
    BY DEF EngineInv, StartInv, Started
  <2>2. Validate
    BY <2>1 DEF Next, Step, Done, Finished, TakeReady, MainLoop, PassOver, SkipAborted, RunNode,
       FailNode, FailIterator, FanOut, At, Iteration, Acquire, RunIteration, FailIteration,
       CancelRest, AbortFanOut, FanIn, Settled, Finish
  <2>3. /\ Ready = {} /\ topo' = topo
        /\ status' = "running" <=> Len(topo) = N /\ Valid
    BY <2>2 DEF Validate
  <2>4. Len(topo) = N <=> NodeSet(topo) = Nodes
    BY <2>1, OrderCovers
  <2>5. ASSUME NodeSet(topo) = Nodes PROVE Acyclic(edges)
    <3>1. SUFFICES ASSUME NEW n \in Nodes, n \in Descendants(edges, n) PROVE FALSE
      BY DEF Acyclic
    <3>2. Precedes(n, n)
      BY <2>1, <2>4, <2>5, <3>1, DescendantsFollow
    <3>3. QED
      BY <2>1, <2>4, <2>5, <3>2, PrecedesStrict
  <2>6. Acyclic(edges) => NodeSet(topo) = Nodes
    BY <2>1, <2>3, KahnCompletes
  <2>7. ASSUME NodeSet(topo) = Nodes, NEW j \in 1..N, NEW k \in 1..N, <<topo[j], topo[k]>> \in edges
        PROVE  j < k
    <3>1. Len(topo) = N
      BY <2>4, <2>7
    <3>2. topo[j] \in Predecessors(edges, topo[k])
      BY <2>1, <2>7, <3>1 DEF Predecessors, TypeOK
    <3>3. PICK l \in 1..(k - 1) : topo[l] = topo[j]
      BY <2>1, <3>1, <3>2 DEF TopoInv
    <3>4. l \in 1..N
      BY NAssumption
    <3>5. l = j
      BY <2>1, <3>1, <3>3, <3>4 DEF TopoInv
    <3>6. QED
      BY <3>3, <3>5
  <2>8. QED
    BY <2>3, <2>4, <2>5, <2>6, <2>7
<1>2. QED
  BY <1>1, Invariance, PTL DEF Spec, OrderIsRight
=============================================================================
