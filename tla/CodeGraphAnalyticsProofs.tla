---------------------- MODULE CodeGraphAnalyticsProofs ----------------------
(***************************************************************************)
(* Proofs about CodeGraphAnalytics: the claims and the semaphore of every  *)
(* process, for any number of processes, repositories and slots, and the   *)
(* freshness of the analytics when there is one process.                   *)
(***************************************************************************)
EXTENDS CodeGraphAnalytics, TLAPS, FiniteSetTheorems

Times  == 0..MaxPushes
Labels == {"none", "snapshot", "entities", "edges", "write"}
Rec    == [at : Labels, snapshot : Times, nodes : Times, edges : Times, large : BOOLEAN]

StoreKinds ==
    /\ clock \in Times
    /\ open \subseteq Repos \X (1..MaxPushes)
    /\ graph \in [Repos -> [push : Times, large : BOOLEAN]]
    /\ state \in [Repos -> [dirty : BOOLEAN, reconciled : Times]]
    /\ settled \in [Repos -> BOOLEAN]
    /\ analytics \in [Repos -> [nodes : Times, edges : Times, betweenness : Times]]

WorkerKinds ==
    /\ loop \in [Procs -> {"wait", "claim", "slot"}]
    /\ queue \in [Procs -> SUBSET Repos]
    /\ claiming \in [Procs -> Repos \cup {NoRepo}]
    /\ inflight \in [Procs -> SUBSET Repos]
    /\ run \in [Procs -> [Repos -> Rec]]
    /\ releasing \in [Procs -> Nat]
    /\ sem \in [Procs -> Nat]

LimitKinds ==
    /\ stopping \in [Procs -> BOOLEAN]
    /\ faults \in 0..MaxFaults
    /\ stops \in 0..MaxStops

Active(p) == {r \in Repos : run[p][r].at # "none"}

\* A process's claims are its running goroutines and the repo that waits for a
\* slot; its slots are those of the goroutines that run or have yet to give
\* theirs back.
Accounted(p) ==
    /\ IsFiniteSet(Active(p))
    /\ sem[p] = Cardinality(Active(p)) + releasing[p]
    /\ sem[p] <= MaxConcurrency
    /\ loop[p] = "slot" => claiming[p] \in Repos /\ claiming[p] \notin Active(p)
    /\ loop[p] # "slot" => claiming[p] = NoRepo
    /\ inflight[p] = Active(p) \cup ({claiming[p]} \ {NoRepo})

AllAccounted == \A p \in Procs : Accounted(p)

Inv == StoreKinds /\ WorkerKinds /\ LimitKinds /\ AllAccounted

USE AnalyticsAssumption
USE DEF store, worker, limits, Fault

\* An idle goroutine's record is of the right kind.
LEMMA NoRunKind == NoRun \in Rec /\ NoRun.at = "none"
<1>1. 0 \in Times
  BY DEF Times
<1>2. QED
  BY <1>1 DEF NoRun, Rec, Labels

\* A goroutine of r that runs on leaves the accounts as they are.
LEMMA KeepsActive ==
  ASSUME Inv, NEW p \in Procs, NEW r \in Repos, NEW v \in Rec, run[p][r].at # "none", v.at # "none",
         run' = [run EXCEPT ![p][r] = v],
         UNCHANGED <<loop, queue, claiming, inflight, releasing, sem>>
  PROVE  WorkerKinds' /\ AllAccounted'
<1>1. /\ run' \in [Procs -> [Repos -> Rec]]
      /\ run'[p][r] = v
      /\ \A q \in Procs, s \in Repos : q # p \/ s # r => run'[q][s] = run[q][s]
  BY DEF Inv, WorkerKinds
<1>2. WorkerKinds'
  BY <1>1 DEF Inv, WorkerKinds
<1>3. ASSUME NEW q \in Procs PROVE Active(q)' = Active(q)
  BY <1>1 DEF Active
<1>4. ASSUME NEW q \in Procs PROVE Accounted(q)'
  BY <1>3 DEF Inv, AllAccounted, Accounted
<1>5. QED
  BY <1>2, <1>4 DEF AllAccounted

\* A goroutine that returns drops its claim and leaves its slot to be released.
LEMMA EndRunStep ==
  ASSUME Inv, NEW p \in Procs, NEW r \in Repos, NEW ok, run[p][r].at # "none", EndRun(p, r, ok),
         UNCHANGED <<loop, queue, claiming, sem>>
  PROVE  WorkerKinds' /\ AllAccounted'
<1> USE DEF Inv
<1>1. /\ run' \in [Procs -> [Repos -> Rec]]
      /\ run'[p][r] = NoRun
      /\ \A q \in Procs, s \in Repos : q # p \/ s # r => run'[q][s] = run[q][s]
  BY NoRunKind DEF EndRun, WorkerKinds
<1>2. WorkerKinds'
  BY <1>1 DEF EndRun, WorkerKinds
<1>3. Active(p)' = Active(p) \ {r} /\ r \in Active(p)
  BY <1>1, NoRunKind DEF Active
<1>4. ASSUME NEW q \in Procs, q # p PROVE Active(q)' = Active(q)
  BY <1>1, <1>4 DEF Active
<1>5. ASSUME NEW q \in Procs PROVE Accounted(q)'
  <2>1. CASE q # p
    BY <1>2, <1>4, <2>1 DEF AllAccounted, Accounted, EndRun, WorkerKinds
  <2>2. CASE q = p
    <3>1. Accounted(p)
      BY DEF AllAccounted
    <3>2. /\ IsFiniteSet(Active(p) \ {r})
          /\ Cardinality(Active(p) \ {r}) = Cardinality(Active(p)) - 1
          /\ Cardinality(Active(p)) \in Nat
      BY <1>3, <3>1, FS_RemoveElement, FS_CardinalityType DEF Accounted
    <3>3. releasing'[p] = releasing[p] + 1 /\ inflight'[p] = inflight[p] \ {r} /\ releasing[p] \in Nat
      BY DEF EndRun, WorkerKinds
    <3>4. sem'[p] = Cardinality(Active(p)') + releasing'[p]
      BY <1>3, <3>1, <3>2, <3>3 DEF Accounted
    <3>5. inflight'[p] = Active(p)' \cup ({claiming'[p]} \ {NoRepo})
      BY <1>3, <3>1, <3>3 DEF Accounted, WorkerKinds
    <3>6. QED
      BY <1>3, <2>2, <3>1, <3>2, <3>4, <3>5 DEF Accounted
  <2>3. QED
    BY <2>1, <2>2
<1>6. QED
  BY <1>2, <1>5 DEF AllAccounted
\* The initial states satisfy the invariant.
LEMMA InitInv == Init => Inv
<1> SUFFICES ASSUME Init PROVE Inv
  OBVIOUS
<1>1. 0 \in Times /\ 0 \in 0..MaxFaults /\ 0 \in 0..MaxStops
  BY DEF Times
<1>2. StoreKinds
  BY <1>1 DEF Init, StoreKinds
<1>3. WorkerKinds /\ LimitKinds
  BY <1>1, NoRunKind DEF Init, WorkerKinds, LimitKinds
<1>4. ASSUME NEW p \in Procs PROVE Accounted(p)
  <2>1. Active(p) = {}
    BY NoRunKind DEF Init, Active
  <2>2. IsFiniteSet({}) /\ Cardinality({}) = 0
    BY FS_EmptySet
  <2>3. QED
    BY <2>1, <2>2 DEF Init, Accounted
<1>5. QED
  BY <1>2, <1>3, <1>4 DEF Inv, AllAccounted

\* Steps that leave the worker's variables alone keep its accounts.
LEMMA WorkerUntouched ==
  ASSUME Inv, UNCHANGED worker
  PROVE  WorkerKinds' /\ AllAccounted'
  BY DEF Inv, WorkerKinds, AllAccounted, Accounted, Active

\* The steps of the loop keep the accounts.
LEMMA LoopAccounted ==
  ASSUME Inv, NEW p \in Procs, LoopStep(p)
  PROVE  WorkerKinds' /\ AllAccounted'
<1> USE DEF Inv
<1>0. Accounted(p) /\ \A q \in Procs : Accounted(q)
  BY DEF AllAccounted
<1>1. CASE Tick(p)
  <2>1. WorkerKinds'
    BY <1>1 DEF Tick, WorkerKinds, DirtyRepos
  <2>2. ASSUME NEW q \in Procs PROVE Accounted(q)'
    BY <1>0, <1>1 DEF Tick, WorkerKinds, Accounted, Active
  <2>3. QED
    BY <2>1, <2>2 DEF AllAccounted
<1>2. CASE Claim(p)
  <2>1. UNCHANGED <<run, releasing, sem>>
    BY <1>2 DEF Claim
  <2>2. ASSUME NEW q \in Procs PROVE Active(q)' = Active(q)
    BY <2>1 DEF Active
  <2>3. CASE /\ loop[p] = "claim"
             /\ loop' = [loop EXCEPT ![p] = "wait"]
             /\ UNCHANGED <<queue, claiming, inflight>>
    <3>1. WorkerKinds'
      BY <2>1, <2>3 DEF WorkerKinds
    <3>2. ASSUME NEW q \in Procs PROVE Accounted(q)'
      BY <1>0, <2>1, <2>2, <2>3 DEF Accounted, WorkerKinds
    <3>3. QED
      BY <3>1, <3>2 DEF AllAccounted
  <2>4. CASE queue' \in [Procs -> SUBSET Repos] /\ UNCHANGED <<loop, claiming, inflight>>
    <3>1. WorkerKinds'
      BY <2>1, <2>4 DEF WorkerKinds
    <3>2. ASSUME NEW q \in Procs PROVE Accounted(q)'
      BY <1>0, <2>1, <2>2, <2>4 DEF Accounted, WorkerKinds
    <3>3. QED
      BY <3>1, <3>2 DEF AllAccounted
  <2>5. ASSUME NEW r \in queue[p], r \notin inflight[p], loop[p] = "claim",
               queue' = [queue EXCEPT ![p] = @ \ {r}],
               inflight' = [inflight EXCEPT ![p] = @ \cup {r}],
               claiming' = [claiming EXCEPT ![p] = r],
               loop' = [loop EXCEPT ![p] = "slot"]
        PROVE  WorkerKinds' /\ AllAccounted'
    <3>1. r \in Repos
      BY DEF WorkerKinds
    <3>2. WorkerKinds'
      BY <2>1, <2>5, <3>1 DEF WorkerKinds
    <3>3. ASSUME NEW q \in Procs PROVE Accounted(q)'
      BY <1>0, <2>1, <2>2, <2>5, <3>1 DEF Accounted, WorkerKinds
    <3>4. QED
      BY <3>2, <3>3 DEF AllAccounted
  <2>6. QED
    <3>1. ASSUME NEW r \in queue[p], queue' = [queue EXCEPT ![p] = @ \ {r}]
          PROVE  queue' \in [Procs -> SUBSET Repos]
      BY <3>1 DEF WorkerKinds
    <3>2. QED
      BY <1>2, <2>3, <2>4, <2>5, <3>1 DEF Claim, Claimed
<1>3. CASE AcquireSlot(p)
  <2> DEFINE r == claiming[p]
             v == [NoRun EXCEPT !.at = "snapshot"]
  <2>1. r \in Repos /\ r \notin Active(p) /\ loop[p] = "slot"
    BY <1>0, <1>3 DEF AcquireSlot, Accounted
  <2>2. v \in Rec /\ v.at = "snapshot"
    <3>1. 0 \in Times
      BY DEF Times
    <3>2. QED
      BY <3>1 DEF NoRun, Rec, Labels
  <2>3. run' = [run EXCEPT ![p][r] = v]
    BY <1>3 DEF AcquireSlot
  <2> HIDE DEF v
  <2>4. /\ run' \in [Procs -> [Repos -> Rec]]
        /\ run'[p][r] = v
        /\ \A q \in Procs, s \in Repos : q # p \/ s # r => run'[q][s] = run[q][s]
    BY <2>1, <2>2, <2>3 DEF WorkerKinds
  <2>5. WorkerKinds'
    BY <1>3, <2>4 DEF AcquireSlot, WorkerKinds
  <2>6. Active(p)' = Active(p) \cup {r}
    BY <2>1, <2>2, <2>4 DEF Active
  <2>7. ASSUME NEW q \in Procs, q # p PROVE Active(q)' = Active(q)
    BY <2>4, <2>7 DEF Active
  <2>8. /\ IsFiniteSet(Active(p) \cup {r})
        /\ Cardinality(Active(p) \cup {r}) = Cardinality(Active(p)) + 1
        /\ Cardinality(Active(p)) \in Nat
    BY <1>0, <2>1, FS_AddElement, FS_CardinalityType DEF Accounted
  <2>9. /\ sem'[p] = sem[p] + 1 /\ sem[p] < MaxConcurrency /\ sem[p] \in Nat /\ releasing[p] \in Nat
        /\ claiming'[p] = NoRepo /\ loop'[p] = "claim"
        /\ releasing'[p] = releasing[p] /\ inflight'[p] = inflight[p]
    BY <1>3 DEF AcquireSlot, WorkerKinds
  <2>10. Accounted(p)'
    <3>1. sem'[p] = Cardinality(Active(p)') + releasing'[p] /\ sem'[p] <= MaxConcurrency
      BY <1>0, <2>6, <2>8, <2>9 DEF Accounted
    <3>2. inflight'[p] = Active(p)' \cup ({claiming'[p]} \ {NoRepo})
      BY <1>0, <2>1, <2>6, <2>9 DEF Accounted
    <3>3. QED
      BY <2>6, <2>8, <2>9, <3>1, <3>2 DEF Accounted
  <2>11. ASSUME NEW q \in Procs, q # p PROVE Accounted(q)'
    BY <1>0, <1>3, <2>7, <2>11 DEF AcquireSlot, WorkerKinds, Accounted
  <2>12. QED
    BY <2>5, <2>10, <2>11 DEF AllAccounted
<1>4. CASE Unclaim(p)
  <2>1. WorkerKinds'
    BY <1>4 DEF Unclaim, WorkerKinds
  <2>2. ASSUME NEW q \in Procs PROVE Active(q)' = Active(q)
    BY <1>4 DEF Active, Unclaim
  <2>3. ASSUME NEW q \in Procs PROVE Accounted(q)'
    BY <1>0, <1>4, <2>2 DEF Unclaim, WorkerKinds, Accounted
  <2>4. QED
    BY <2>1, <2>3 DEF AllAccounted
<1>5. CASE Relaunch(p)
  BY <1>5, WorkerUntouched DEF Relaunch
<1>6. QED
  BY <1>1, <1>2, <1>3, <1>4, <1>5 DEF LoopStep

\* The steps of a goroutine: what becomes of its record, and that it is of the
\* right kind.
LEMMA RunRecord ==
  ASSUME Inv, NEW p \in Procs, NEW r \in Repos, Snapshot(p, r) \/ LoadEntities(p, r) \/ LoadEdges(p, r)
  PROVE  \E v \in Rec :
           /\ run' = [run EXCEPT ![p][r] = v]
           /\ run[p][r].at # "none" /\ v.at # "none"
           /\ Snapshot(p, r) => v.at = "entities" /\ v.snapshot = state[r].reconciled
           /\ LoadEntities(p, r) => /\ run[p][r].at = "entities" /\ v.at = "edges"
                                    /\ v.snapshot = run[p][r].snapshot
                                    /\ v.nodes = graph[r].push /\ v.large = graph[r].large
           /\ LoadEdges(p, r) => /\ run[p][r].at = "edges" /\ v.at = "write"
                                 /\ v.snapshot = run[p][r].snapshot /\ v.nodes = run[p][r].nodes
                                 /\ v.large = run[p][r].large /\ v.edges = graph[r].push
<1>0. /\ run[p][r] \in Rec /\ state[r].reconciled \in Times
      /\ graph[r].push \in Times /\ graph[r].large \in BOOLEAN
  BY DEF Inv, WorkerKinds, StoreKinds
<1>1. CASE Snapshot(p, r)
  <2> DEFINE v == [run[p][r] EXCEPT !.at = "entities", !.snapshot = state[r].reconciled]
  <2>1. v \in Rec /\ v.at = "entities" /\ v.snapshot = state[r].reconciled
    BY <1>0 DEF Rec, Labels
  <2>2. run' = [run EXCEPT ![p][r] = v]
    BY <1>1 DEF Snapshot
  <2>3. run[p][r].at = "snapshot"
    BY <1>1 DEF Snapshot, At
  <2>4. ~LoadEntities(p, r) /\ ~LoadEdges(p, r)
    BY <2>3 DEF LoadEntities, LoadEdges, At
  <2> HIDE DEF v
  <2>5. QED
    BY <2>1, <2>2, <2>3, <2>4
<1>2. CASE LoadEntities(p, r)
  <2> DEFINE v == [run[p][r] EXCEPT !.at = "edges", !.nodes = graph[r].push, !.large = graph[r].large]
  <2>1. /\ v \in Rec /\ v.at = "edges" /\ v.nodes = graph[r].push /\ v.large = graph[r].large
        /\ v.snapshot = run[p][r].snapshot
    BY <1>0 DEF Rec, Labels
  <2>2. run' = [run EXCEPT ![p][r] = v]
    BY <1>2 DEF LoadEntities
  <2>3. run[p][r].at = "entities"
    BY <1>2 DEF LoadEntities, At
  <2>4. ~Snapshot(p, r) /\ ~LoadEdges(p, r)
    BY <2>3 DEF Snapshot, LoadEdges, At
  <2> HIDE DEF v
  <2>5. QED
    BY <2>1, <2>2, <2>3, <2>4
<1>3. CASE LoadEdges(p, r)
  <2> DEFINE v == [run[p][r] EXCEPT !.at = "write", !.edges = graph[r].push]
  <2>1. /\ v \in Rec /\ v.at = "write" /\ v.edges = graph[r].push /\ v.nodes = run[p][r].nodes
        /\ v.snapshot = run[p][r].snapshot /\ v.large = run[p][r].large
    BY <1>0 DEF Rec, Labels
  <2>2. run' = [run EXCEPT ![p][r] = v]
    BY <1>3 DEF LoadEdges
  <2>3. run[p][r].at = "edges"
    BY <1>3 DEF LoadEdges, At
  <2>4. ~Snapshot(p, r) /\ ~LoadEntities(p, r)
    BY <2>3 DEF Snapshot, LoadEntities, At
  <2> HIDE DEF v
  <2>5. QED
    BY <2>1, <2>2, <2>3, <2>4
<1>4. QED
  BY <1>1, <1>2, <1>3

\* The write transaction keeps the kinds of the stored rows.
LEMMA WriteStore ==
  ASSUME Inv, NEW p \in Procs, NEW r \in Repos, WriteAnalytics(p, r)
  PROVE  /\ StoreKinds'
         /\ analytics'[r] = [nodes |-> run[p][r].nodes, edges |-> run[p][r].edges,
                             betweenness |-> IF run[p][r].large THEN analytics[r].betweenness
                                             ELSE run[p][r].nodes]
         /\ state'[r].dirty <=> state[r].dirty /\ ~Unchanged(p, r)
         /\ state'[r].reconciled = state[r].reconciled
         /\ \A q \in Repos : q # r => analytics'[q] = analytics[q] /\ state'[q] = state[q]
<1> DEFINE g == run[p][r]
           a == [nodes |-> g.nodes, edges |-> g.edges,
                 betweenness |-> IF g.large THEN analytics[r].betweenness ELSE g.nodes]
           d == state[r].dirty /\ ~Unchanged(p, r)
<1>0. g \in Rec /\ analytics[r].betweenness \in Times
  BY DEF Inv, WorkerKinds, StoreKinds
<1>1. a \in [nodes : Times, edges : Times, betweenness : Times]
  BY <1>0 DEF Rec
<1>2. analytics' = [analytics EXCEPT ![r] = a]
  BY DEF WriteAnalytics
<1>3. state' = [state EXCEPT ![r].dirty = d]
  BY DEF WriteAnalytics
<1>4. d \in BOOLEAN
  BY DEF Inv, StoreKinds
<1> HIDE DEF a, d
<1>5. /\ analytics' \in [Repos -> [nodes : Times, edges : Times, betweenness : Times]]
      /\ analytics'[r] = a
      /\ \A q \in Repos : q # r => analytics'[q] = analytics[q]
  BY <1>1, <1>2 DEF Inv, StoreKinds
<1>6. /\ state' \in [Repos -> [dirty : BOOLEAN, reconciled : Times]]
      /\ state'[r].dirty = d /\ state'[r].reconciled = state[r].reconciled
      /\ \A q \in Repos : q # r => state'[q] = state[q]
  BY <1>3, <1>4 DEF Inv, StoreKinds
<1>7. StoreKinds'
  BY <1>5, <1>6 DEF Inv, StoreKinds, WriteAnalytics
<1>8. QED
  BY <1>5, <1>6, <1>7 DEF a, d

\* So do the pushes.
LEMMA PushStore ==
  ASSUME Inv, \/ \E r \in Repos : PushBegin(r) \/ Debounce(r)
              \/ \E x \in open : PushAbort(x) \/ \E large \in BOOLEAN : PushCommit(x, large)
  PROVE  StoreKinds'
<1> USE DEF Inv, StoreKinds
<1>1. ASSUME NEW r \in Repos, PushBegin(r) PROVE StoreKinds'
  <2>1. clock + 1 \in 1..MaxPushes /\ clock + 1 \in Times
    BY <1>1 DEF PushBegin, Times
  <2>2. QED
    BY <1>1, <2>1 DEF PushBegin
<1>2. ASSUME NEW r \in Repos, Debounce(r) PROVE StoreKinds'
  BY <1>2 DEF Debounce
<1>3. ASSUME NEW x \in open, PushAbort(x) PROVE StoreKinds'
  BY <1>3 DEF PushAbort
<1>4. ASSUME NEW x \in open, NEW large \in BOOLEAN, PushCommit(x, large) PROVE StoreKinds'
  <2>1. x[1] \in Repos /\ x[2] \in Times
    BY DEF Times
  <2>2. [push |-> x[2], large |-> large] \in [push : Times, large : BOOLEAN]
    BY <2>1
  <2>3. [dirty |-> TRUE, reconciled |-> x[2]] \in [dirty : BOOLEAN, reconciled : Times]
    BY <2>1
  <2>4. QED
    BY <1>4, <2>1, <2>2, <2>3 DEF PushCommit
<1>5. QED
  BY <1>1, <1>2, <1>3, <1>4

\* Every step keeps the kinds of values and the accounts of every process.
LEMMA InvStep == ASSUME Inv, [Next]_vars PROVE Inv'
<1>1. CASE \/ \E r \in Repos : PushBegin(r) \/ Debounce(r)
           \/ \E x \in open : PushAbort(x) \/ \E large \in BOOLEAN : PushCommit(x, large)
  <2>1. UNCHANGED <<worker, stopping, limits>>
    BY <1>1 DEF PushBegin, Debounce, PushAbort, PushCommit
  <2>2. StoreKinds'
    BY <1>1, PushStore
  <2>3. WorkerKinds' /\ AllAccounted'
    BY <2>1, WorkerUntouched
  <2>4. LimitKinds'
    BY <2>1 DEF Inv, LimitKinds
  <2>5. QED
    BY <2>2, <2>3, <2>4 DEF Inv
<1>2. ASSUME NEW p \in Procs, LoopStep(p) PROVE Inv'
  <2>1. UNCHANGED <<store, limits>> /\ stopping' \in [Procs -> BOOLEAN]
    BY <1>2 DEF LoopStep, Tick, Claim, AcquireSlot, Unclaim, Relaunch, Inv, LimitKinds
  <2>2. WorkerKinds' /\ AllAccounted'
    BY <1>2, LoopAccounted
  <2>3. QED
    BY <2>1, <2>2 DEF Inv, StoreKinds, LimitKinds
<1>3. ASSUME NEW p \in Procs, ReleaseSlot(p) PROVE Inv'
  <2>1. UNCHANGED <<store, stopping, limits>>
    BY <1>3 DEF ReleaseSlot
  <2>2. Accounted(p) /\ \A q \in Procs : Accounted(q)
    BY DEF Inv, AllAccounted
  <2>3. /\ releasing[p] \in Nat /\ releasing[p] > 0 /\ sem[p] \in Nat
        /\ Cardinality(Active(p)) \in Nat
        /\ sem[p] = Cardinality(Active(p)) + releasing[p]
    BY <1>3, <2>2, FS_CardinalityType DEF ReleaseSlot, Inv, WorkerKinds, Accounted
  <2>4. WorkerKinds'
    BY <1>3, <2>3 DEF ReleaseSlot, Inv, WorkerKinds
  <2>5. ASSUME NEW q \in Procs PROVE Accounted(q)'
    <3>1. Active(q)' = Active(q)
      BY <1>3 DEF ReleaseSlot, Active
    <3>2. CASE q = p
      <4>1. releasing'[p] = releasing[p] - 1 /\ sem'[p] = sem[p] - 1
        BY <1>3 DEF ReleaseSlot, Inv, WorkerKinds
      <4>2. QED
        BY <1>3, <2>2, <2>3, <3>1, <3>2, <4>1 DEF ReleaseSlot, Accounted
    <3>3. CASE q # p
      BY <1>3, <2>2, <3>1, <3>3 DEF ReleaseSlot, Inv, WorkerKinds, Accounted
    <3>4. QED
      BY <3>2, <3>3
  <2>6. QED
    BY <2>1, <2>4, <2>5 DEF Inv, StoreKinds, LimitKinds, AllAccounted
<1>4. ASSUME NEW p \in Procs, Stop(p) PROVE Inv'
  <2>1. LimitKinds' /\ UNCHANGED <<store, worker>>
    BY <1>4 DEF Stop, Inv, LimitKinds
  <2>2. QED
    BY <2>1, WorkerUntouched DEF Inv, StoreKinds
<1>5. ASSUME NEW p \in Procs, NEW r \in Repos, Snapshot(p, r) \/ LoadEntities(p, r) \/ LoadEdges(p, r)
      PROVE  Inv'
  <2>1. UNCHANGED <<store, loop, queue, claiming, inflight, releasing, sem, stopping, limits>>
    BY <1>5 DEF Snapshot, LoadEntities, LoadEdges
  <2>2. PICK v \in Rec : run' = [run EXCEPT ![p][r] = v] /\ run[p][r].at # "none" /\ v.at # "none"
    BY <1>5, RunRecord
  <2>3. WorkerKinds' /\ AllAccounted'
    BY <2>1, <2>2, KeepsActive
  <2>4. QED
    BY <2>1, <2>3 DEF Inv, StoreKinds, LimitKinds
<1>6. ASSUME NEW p \in Procs, NEW r \in Repos, WriteAnalytics(p, r) PROVE Inv'
  <2>1. StoreKinds'
    BY <1>6, WriteStore
  <2>2. run[p][r].at # "none" /\ EndRun(p, r, TRUE) /\ UNCHANGED <<loop, queue, claiming, sem, stopping, limits>>
    BY <1>6 DEF WriteAnalytics, At
  <2>3. WorkerKinds' /\ AllAccounted'
    BY <2>2, EndRunStep
  <2>4. QED
    BY <2>1, <2>2, <2>3 DEF Inv, LimitKinds
<1>7. ASSUME NEW p \in Procs, NEW r \in Repos, RunFails(p, r) PROVE Inv'
  <2>0. faults' \in 0..MaxFaults
    <3>1. faults \in 0..MaxFaults
      BY DEF Inv, LimitKinds
    <3>2. (faults < MaxFaults /\ faults' = faults + 1) \/ faults' = faults
      BY <1>7 DEF RunFails
    <3>3. QED
      BY <3>1, <3>2
  <2>1. /\ run[p][r].at # "none" /\ EndRun(p, r, FALSE)
        /\ UNCHANGED <<store, loop, queue, claiming, sem, stopping, stops>>
        /\ faults' \in 0..MaxFaults
    BY <1>7, <2>0 DEF RunFails
  <2>2. WorkerKinds' /\ AllAccounted'
    BY <2>1, EndRunStep
  <2>3. QED
    BY <2>1, <2>2 DEF Inv, StoreKinds, LimitKinds
<1>8. CASE UNCHANGED vars
  BY <1>8, WorkerUntouched DEF vars, Inv, StoreKinds, LimitKinds
<1>9. QED
  BY <1>1, <1>2, <1>3, <1>4, <1>5, <1>6, <1>7, <1>8 DEF Next, RunStep

-----------------------------------------------------------------------------
\* Every reachable state satisfies the invariant.
LEMMA InvHolds == Spec => []Inv
<1>1. QED
  BY InitInv, InvStep, PTL DEF Spec

\* The claims of a process (w.inflight) are exactly the repositories whose
\* goroutine runs and the one that waits for a slot, and the slots taken of
\* its semaphore are those of its goroutines: no claim is lost or kept after a
\* run ends, however it ends, and no slot leaks.  For any number of processes.
THEOREM AccountedHolds == Spec => []AllAccounted
<1>1. Inv => AllAccounted
  BY DEF Inv
<1>2. QED
  BY <1>1, InvHolds, PTL

\* Every variable keeps to its kind, and no process runs more recomputes than
\* its semaphore has slots.
THEOREM TypeOKHolds == Spec => []TypeOK
<1>1. ASSUME Inv PROVE TypeOK
  <2>1. ASSUME NEW p \in Procs PROVE sem[p] \in 0..MaxConcurrency /\ releasing[p] \in 0..MaxConcurrency
    <3>1. Accounted(p) /\ sem[p] \in Nat /\ releasing[p] \in Nat
      BY <1>1 DEF Inv, AllAccounted, WorkerKinds
    <3>2. Cardinality(Active(p)) \in Nat
      BY <3>1, FS_CardinalityType DEF Accounted
    <3>3. QED
      BY <3>1, <3>2 DEF Accounted
  <2>2. sem \in [Procs -> 0..MaxConcurrency] /\ releasing \in [Procs -> 0..MaxConcurrency]
    BY <1>1, <2>1 DEF Inv, WorkerKinds
  <2>3. QED
    BY <1>1, <2>2 DEF TypeOK, Inv, StoreKinds, WorkerKinds, LimitKinds, Rec, Labels, Times
<1>2. QED
  BY <1>1, InvHolds, PTL

-----------------------------------------------------------------------------
(* Freshness of the analytics with one process.                            *)

\* The stored analytics are those of the repository's graph.
Current(r) ==
    /\ analytics[r].nodes = graph[r].push
    /\ analytics[r].edges = graph[r].push
    /\ graph[r].large \/ analytics[r].betweenness = graph[r].push

\* now() of a push is not given out twice.
Past(r, t) == t <= clock /\ <<r, t>> \notin open

\* A run that has its snapshot: while no push of the repository has committed
\* since, what it has read is the graph of the snapshot.  Only a run clears the
\* dirty mark, so with one process a clean repository is one whose run, if it
\* has one, has seen the last push.
RunFresh(p, r) ==
    LET g == run[p][r] IN
    /\ g.at \in {"entities", "edges", "write"} =>
         Past(r, g.snapshot) /\ (state[r].dirty \/ state[r].reconciled = g.snapshot)
    /\ g.at \in {"edges", "write"} /\ state[r].reconciled = g.snapshot =>
         g.nodes = g.snapshot /\ g.large = graph[r].large
    /\ g.at = "write" /\ state[r].reconciled = g.snapshot => g.edges = g.snapshot

Fresh(p, r) ==
    /\ graph[r].push = state[r].reconciled
    /\ Past(r, state[r].reconciled)
    /\ RunFresh(p, r)
    /\ state[r].dirty \/ Current(r)

PushTimes == \A x \in open : x[2] <= clock

\* Fresh reads only the record of the run, the rows of the repository, and the
\* clock and the open pushes through Past.
LEMMA FreshFrame ==
  ASSUME Inv, NEW p \in Procs, NEW r \in Repos, Fresh(p, r),
         run'[p][r] = run[p][r] \/ run'[p][r].at \in {"none", "snapshot"},
         graph'[r] = graph[r], state'[r] = state[r], analytics'[r] = analytics[r],
         \A t \in Times : t <= clock /\ <<r, t>> \notin open => t <= clock' /\ <<r, t>> \notin open'
  PROVE  Fresh(p, r)'
<1>1. state[r].reconciled \in Times /\ run[p][r].snapshot \in Times
  BY DEF Inv, StoreKinds, WorkerKinds, Rec
<1>2. state'[r].reconciled <= clock' /\ <<r, state'[r].reconciled>> \notin open'
  BY <1>1 DEF Fresh, Past
<1>3. CASE run'[p][r] = run[p][r]
  BY <1>1, <1>2, <1>3 DEF Fresh, Past, RunFresh, Current
<1>4. CASE run'[p][r].at \in {"none", "snapshot"}
  BY <1>1, <1>2, <1>4 DEF Fresh, Past, RunFresh, Current
<1>5. QED
  BY <1>3, <1>4

\* A push keeps freshness: one that commits leaves its repository dirty, with a
\* reconciled_at that no run has taken as its snapshot.
LEMMA FreshPush ==
  ASSUME Inv, NEW p \in Procs, PushTimes, \A r \in Repos : Fresh(p, r),
         \/ \E r \in Repos : PushBegin(r) \/ Debounce(r)
         \/ \E x \in open : PushAbort(x) \/ \E large \in BOOLEAN : PushCommit(x, large)
  PROVE  PushTimes' /\ \A r \in Repos : Fresh(p, r)'
<1>0. clock \in Times /\ open \subseteq Repos \X (1..MaxPushes) /\ Times \subseteq Nat
  BY DEF Inv, StoreKinds, Times
<1>1. ASSUME NEW q \in Repos, PushBegin(q) PROVE PushTimes' /\ \A r \in Repos : Fresh(p, r)'
  <2>1. clock' = clock + 1 /\ open' = open \cup {<<q, clock + 1>>} /\ UNCHANGED <<run, graph, state, analytics>>
    BY <1>1 DEF PushBegin
  <2>2. PushTimes'
    <3>1. ASSUME NEW x \in open' PROVE x[2] <= clock'
      <4>1. CASE x \in open
        <5>1. x[2] <= clock /\ x[2] \in 1..MaxPushes /\ clock \in Nat
          BY <1>0, <4>1 DEF PushTimes
        <5>2. QED
          BY <2>1, <5>1
      <4>2. CASE x = <<q, clock + 1>>
        BY <1>0, <2>1, <4>2
      <4>3. QED
        BY <2>1, <4>1, <4>2
    <3>2. QED
      BY <3>1 DEF PushTimes
  <2>3. ASSUME NEW r \in Repos, NEW t \in Times, t <= clock, <<r, t>> \notin open
        PROVE  t <= clock' /\ <<r, t>> \notin open'
    <3>1. t \in Nat /\ clock \in Nat
      BY <1>0
    <3>2. t <= clock + 1 /\ t # clock + 1
      BY <2>3, <3>1
    <3>3. QED
      BY <2>1, <2>3, <3>2
  <2>4. QED
    BY <2>1, <2>2, <2>3, FreshFrame
<1>2. ASSUME NEW q \in Repos, Debounce(q) PROVE PushTimes' /\ \A r \in Repos : Fresh(p, r)'
  <2>1. UNCHANGED <<clock, open, run, graph, state, analytics>>
    BY <1>2 DEF Debounce
  <2>2. QED
    BY <2>1, FreshFrame DEF PushTimes
<1>3. ASSUME NEW x \in open, PushAbort(x) PROVE PushTimes' /\ \A r \in Repos : Fresh(p, r)'
  <2>1. open' = open \ {x} /\ UNCHANGED <<clock, run, graph, state, analytics>>
    BY <1>3 DEF PushAbort
  <2>2. QED
    BY <2>1, FreshFrame DEF PushTimes
<1>4. ASSUME NEW x \in open, NEW large \in BOOLEAN, PushCommit(x, large)
      PROVE  PushTimes' /\ \A r \in Repos : Fresh(p, r)'
  <2>1. x[1] \in Repos /\ x[2] \in Nat /\ x = <<x[1], x[2]>>
    BY <1>0
  <2>2. /\ open' = open \ {x} /\ UNCHANGED <<clock, run, analytics>>
        /\ graph'[x[1]].push = x[2]
        /\ state'[x[1]].dirty /\ state'[x[1]].reconciled = x[2]
        /\ \A r \in Repos : r # x[1] => graph'[r] = graph[r] /\ state'[r] = state[r]
    BY <1>4, <2>1 DEF PushCommit, Inv, StoreKinds
  <2>3. PushTimes'
    BY <2>2 DEF PushTimes
  <2>4. ASSUME NEW r \in Repos, r # x[1] PROVE Fresh(p, r)'
    BY <2>2, <2>4, FreshFrame
  <2>5. Fresh(p, x[1])'
    <3>1. <<x[1], x[2]>> \in open /\ <<x[1], x[2]>> \notin open' /\ x[2] <= clock'
      BY <2>1, <2>2 DEF PushTimes
    <3>2. run[p][x[1]].at \in {"entities", "edges", "write"} =>
            /\ run[p][x[1]].snapshot <= clock /\ <<x[1], run[p][x[1]].snapshot>> \notin open
            /\ run[p][x[1]].snapshot # x[2]
      BY <2>1, <3>1 DEF Fresh, RunFresh, Past
    <3>3. (RunFresh(p, x[1]))'
      BY <2>2, <3>2 DEF RunFresh, Past
    <3>4. QED
      BY <2>2, <3>1, <3>3 DEF Fresh, Past
  <2>6. QED
    BY <2>3, <2>4, <2>5
<1>5. QED
  BY <1>1, <1>2, <1>3, <1>4

\* The reads of a run keep freshness.
LEMMA FreshRead ==
  ASSUME Inv, NEW p \in Procs, NEW r \in Repos, \A q \in Repos : Fresh(p, q),
         Snapshot(p, r) \/ LoadEntities(p, r) \/ LoadEdges(p, r)
  PROVE  \A q \in Repos : Fresh(p, q)'
<1>1. UNCHANGED <<clock, open, graph, state, analytics>>
  BY DEF Snapshot, LoadEntities, LoadEdges
<1>2. PICK v \in Rec :
           /\ run' = [run EXCEPT ![p][r] = v]
           /\ Snapshot(p, r) => v.at = "entities" /\ v.snapshot = state[r].reconciled
           /\ LoadEntities(p, r) => /\ run[p][r].at = "entities" /\ v.at = "edges"
                                    /\ v.snapshot = run[p][r].snapshot
                                    /\ v.nodes = graph[r].push /\ v.large = graph[r].large
           /\ LoadEdges(p, r) => /\ run[p][r].at = "edges" /\ v.at = "write"
                                 /\ v.snapshot = run[p][r].snapshot /\ v.nodes = run[p][r].nodes
                                 /\ v.large = run[p][r].large /\ v.edges = graph[r].push
  BY RunRecord
<1>3. run'[p][r] = v /\ \A q \in Repos : q # r => run'[p][q] = run[p][q]
  BY <1>2 DEF Inv, WorkerKinds
<1>4. ASSUME NEW q \in Repos, q # r PROVE Fresh(p, q)'
  BY <1>1, <1>3, <1>4, FreshFrame
<1>5. (RunFresh(p, r))'
  <2>0. Fresh(p, r)
    OBVIOUS
  <2>1. CASE Snapshot(p, r)
    <3>1. run'[p][r].at = "entities" /\ run'[p][r].snapshot = state[r].reconciled
      BY <1>2, <1>3, <2>1
    <3>2. QED
      BY <1>1, <2>0, <3>1 DEF Fresh, RunFresh, Past
  <2>2. CASE LoadEntities(p, r)
    <3>1. /\ run[p][r].at = "entities" /\ run'[p][r].at = "edges"
          /\ run'[p][r].snapshot = run[p][r].snapshot
          /\ run'[p][r].nodes = graph[r].push /\ run'[p][r].large = graph[r].large
      BY <1>2, <1>3, <2>2
    <3>2. QED
      BY <1>1, <2>0, <3>1 DEF Fresh, RunFresh, Past
  <2>3. CASE LoadEdges(p, r)
    <3>1. /\ run[p][r].at = "edges" /\ run'[p][r].at = "write"
          /\ run'[p][r].snapshot = run[p][r].snapshot /\ run'[p][r].nodes = run[p][r].nodes
          /\ run'[p][r].large = run[p][r].large /\ run'[p][r].edges = graph[r].push
      BY <1>2, <1>3, <2>3
    <3>2. QED
      BY <1>1, <2>0, <3>1 DEF Fresh, RunFresh, Past
  <2>4. QED
    BY <2>1, <2>2, <2>3
<1>6. Fresh(p, r)'
  BY <1>1, <1>5 DEF Fresh, Past, Current
<1>7. QED
  BY <1>4, <1>6

\* The write transaction keeps freshness: it leaves the repository clean only
\* when what it wrote is the graph's.
LEMMA FreshWrite ==
  ASSUME Inv, NEW p \in Procs, NEW r \in Repos, \A q \in Repos : Fresh(p, q), WriteAnalytics(p, r)
  PROVE  \A q \in Repos : Fresh(p, q)'
<1>1. UNCHANGED <<clock, open, graph>> /\ run[p][r].at = "write"
  BY DEF WriteAnalytics, At
<1>2. run'[p][r] = NoRun /\ \A q \in Repos : q # r => run'[p][q] = run[p][q]
  BY DEF WriteAnalytics, EndRun, Inv, WorkerKinds
<1>3. /\ analytics'[r] = [nodes |-> run[p][r].nodes, edges |-> run[p][r].edges,
                          betweenness |-> IF run[p][r].large THEN analytics[r].betweenness
                                          ELSE run[p][r].nodes]
      /\ state'[r].dirty <=> state[r].dirty /\ ~Unchanged(p, r)
      /\ state'[r].reconciled = state[r].reconciled
      /\ \A q \in Repos : q # r => analytics'[q] = analytics[q] /\ state'[q] = state[q]
  BY WriteStore
<1>4. ASSUME NEW q \in Repos, q # r PROVE Fresh(p, q)'
  BY <1>1, <1>2, <1>3, <1>4, FreshFrame
<1>5. state'[r].dirty \/ Current(r)'
  <2>1. SUFFICES ASSUME ~state'[r].dirty PROVE Current(r)'
    OBVIOUS
  <2>2. state[r].reconciled = run[p][r].snapshot
    BY <1>1, <1>3, <2>1 DEF Fresh, RunFresh, Unchanged
  <2>3. /\ run[p][r].nodes = graph[r].push /\ run[p][r].edges = graph[r].push
        /\ run[p][r].large = graph[r].large
    BY <1>1, <2>2 DEF Fresh, RunFresh
  <2>4. QED
    BY <1>1, <1>3, <2>3 DEF Current
<1>6. (RunFresh(p, r))'
  BY <1>2, NoRunKind DEF RunFresh
<1>7. Fresh(p, r)'
  BY <1>1, <1>3, <1>5, <1>6 DEF Fresh, Past
<1>8. QED
  BY <1>4, <1>7

\* With one process every step keeps freshness.
LEMMA FreshStep ==
  ASSUME NEW p, Procs = {p}, Inv, PushTimes, \A r \in Repos : Fresh(p, r), [Next]_vars
  PROVE  PushTimes' /\ \A r \in Repos : Fresh(p, r)'
<1>0. p \in Procs
  OBVIOUS
<1>1. CASE \/ \E r \in Repos : PushBegin(r) \/ Debounce(r)
           \/ \E x \in open : PushAbort(x) \/ \E large \in BOOLEAN : PushCommit(x, large)
  BY <1>0, <1>1, FreshPush
<1>2. CASE /\ UNCHANGED <<clock, open, graph, state, analytics>>
           /\ \A r \in Repos : run'[p][r] = run[p][r] \/ run'[p][r].at \in {"none", "snapshot"}
  BY <1>0, <1>2, FreshFrame DEF PushTimes
<1>3. CASE LoopStep(p)
  <2>1. UNCHANGED <<clock, open, graph, state, analytics>>
    BY <1>3 DEF LoopStep, Tick, Claim, AcquireSlot, Unclaim, Relaunch
  <2>2. CASE AcquireSlot(p)
    <3> DEFINE v == [NoRun EXCEPT !.at = "snapshot"]
    <3>1. run' = [run EXCEPT ![p][claiming[p]] = v] /\ v.at = "snapshot"
      BY <2>2 DEF AcquireSlot, NoRun
    <3> HIDE DEF v
    <3>2. \A r \in Repos : run'[p][r] = run[p][r] \/ run'[p][r] = v
      BY <1>0, <3>1 DEF Inv, WorkerKinds
    <3>3. QED
      BY <1>2, <2>1, <3>1, <3>2
  <2>3. CASE Tick(p) \/ Claim(p) \/ Unclaim(p) \/ Relaunch(p)
    <3>1. run' = run
      BY <2>3 DEF Tick, Claim, Unclaim, Relaunch
    <3>2. QED
      BY <1>2, <2>1, <3>1
  <2>4. QED
    BY <1>3, <2>2, <2>3 DEF LoopStep
<1>4. CASE ReleaseSlot(p) \/ Stop(p)
  BY <1>2, <1>4 DEF ReleaseSlot, Stop
<1>5. ASSUME NEW r \in Repos, RunFails(p, r) PROVE PushTimes' /\ \A q \in Repos : Fresh(p, q)'
  <2>1. UNCHANGED <<clock, open, graph, state, analytics>> /\ run' = [run EXCEPT ![p][r] = NoRun]
    BY <1>5 DEF RunFails, EndRun
  <2>2. \A q \in Repos : run'[p][q] = run[p][q] \/ run'[p][q] = NoRun
    BY <1>0, <2>1 DEF Inv, WorkerKinds
  <2>3. QED
    BY <1>2, <2>1, <2>2, NoRunKind
<1>6. ASSUME NEW r \in Repos, Snapshot(p, r) \/ LoadEntities(p, r) \/ LoadEdges(p, r)
      PROVE  PushTimes' /\ \A q \in Repos : Fresh(p, q)'
  <2>1. UNCHANGED <<clock, open>>
    BY <1>6 DEF Snapshot, LoadEntities, LoadEdges
  <2>2. QED
    BY <1>0, <1>6, <2>1, FreshRead DEF PushTimes
<1>7. ASSUME NEW r \in Repos, WriteAnalytics(p, r)
      PROVE  PushTimes' /\ \A q \in Repos : Fresh(p, q)'
  <2>1. UNCHANGED <<clock, open>>
    BY <1>7 DEF WriteAnalytics
  <2>2. QED
    BY <1>0, <1>7, <2>1, FreshWrite DEF PushTimes
<1>8. CASE UNCHANGED vars
  BY <1>2, <1>8 DEF vars
<1>9. QED
  BY <1>1, <1>3, <1>4, <1>5, <1>6, <1>7, <1>8 DEF Next, RunStep

\* With one process a repository that is not dirty shows the analytics of its
\* graph: a push that lands between a run's snapshot and its write keeps the
\* dirty mark, even one whose now() is older than a push already committed.
\* For any number of repositories, slots, pushes, failures and stops.
THEOREM CleanMeansCurrentHolds ==
  ASSUME NEW p, Procs = {p}
  PROVE  Spec => []CleanMeansCurrent
<1> DEFINE FreshInv == PushTimes /\ \A r \in Repos : Fresh(p, r)
<1>1. ASSUME Init PROVE FreshInv
  <2>1. \A r \in Repos : run[p][r].at = "none"
    BY <1>1, NoRunKind DEF Init
  <2>2. QED
    BY <1>1, <2>1 DEF Init, PushTimes, Fresh, Past, RunFresh, Current
<1>2. Inv /\ FreshInv /\ [Next]_vars => FreshInv'
  BY FreshStep
<1>3. FreshInv => CleanMeansCurrent
  BY DEF Fresh, Current, CleanMeansCurrent
<1>4. QED
  BY <1>1, <1>2, <1>3, InvHolds, PTL DEF Spec
=============================================================================
