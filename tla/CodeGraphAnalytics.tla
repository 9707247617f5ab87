------------------------ MODULE CodeGraphAnalytics ------------------------
(***************************************************************************)
(* The code graph's analytics (internal/codegraph): pushes reconcile a      *)
(* repository's graph and mark it dirty; a worker per process recomputes    *)
(* the communities and betweenness of dirty repositories and clears the     *)
(* mark if no push came in between.                                         *)
(*                                                                          *)
(* A graph is known by the push that wrote it last; reconciled_at is that   *)
(* push's now(), which Postgres fixes when the transaction begins, so a     *)
(* long push can set it back.  Every process has one worker; two processes  *)
(* overlap during a rolling update (replicaCount 1, maxSurge 1).            *)
(***************************************************************************)
EXTENDS Naturals, FiniteSets

CONSTANTS
    Repos,
    Procs,           \* processes that run an AnalyticsWorker
    MaxConcurrency,  \* capacity of the worker's semaphore
    MaxPushes,       \* bound on pushes
    MaxFaults,       \* bound on failing store calls
    MaxStops,        \* bound on graceful stops
    NoRepo

ASSUME AnalyticsAssumption ==
    /\ NoRepo \notin Repos
    /\ MaxConcurrency \in Nat \ {0}
    /\ MaxPushes \in Nat
    /\ MaxFaults \in Nat
    /\ MaxStops \in Nat

VARIABLES
    clock,      \* pushes begun so far: the value of now()
    open,       \* transactions of pushes under way: pairs of a repo and their now()
    graph,      \* per repo: the push its rows come from, and whether it has
                \* more nodes than BetweennessMaxNodes
    state,      \* repo_analytics_state: dirty, reconciled_at
    settled,    \* the debounce interval passed since reconciled_at
    analytics,  \* the graph the stored communities and betweenness belong to
    loop,       \* per process: where processOnce is
    queue,      \* per process: repos of the tick still to be started
    claiming,   \* per process: the repo claimed and waiting for a slot
    inflight,   \* per process: w.inflight
    run,        \* per process and repo: the recompute goroutine
    releasing,  \* per process: goroutines that still have to give back their slot
    sem,        \* per process: slots taken
    stopping,   \* per process: its context is done
    faults,
    stops

store  == <<clock, open, graph, state, settled, analytics>>
worker == <<loop, queue, claiming, inflight, run, releasing, sem>>
limits == <<faults, stops>>
vars   == <<store, worker, stopping, limits>>

NoRun == [at |-> "none", snapshot |-> 0, nodes |-> 0, edges |-> 0, large |-> FALSE]

Fault == faults < MaxFaults /\ faults' = faults + 1

Init ==
    /\ clock     = 0
    /\ open      = {}
    /\ graph     = [r \in Repos |-> [push |-> 0, large |-> FALSE]]
    /\ state     = [r \in Repos |-> [dirty |-> FALSE, reconciled |-> 0]]
    /\ settled   = [r \in Repos |-> FALSE]
    /\ analytics = [r \in Repos |-> [nodes |-> 0, edges |-> 0, betweenness |-> 0]]
    /\ loop      = [p \in Procs |-> "wait"]
    /\ queue     = [p \in Procs |-> {}]
    /\ claiming  = [p \in Procs |-> NoRepo]
    /\ inflight  = [p \in Procs |-> {}]
    /\ run       = [p \in Procs |-> [r \in Repos |-> NoRun]]
    /\ releasing = [p \in Procs |-> 0]
    /\ sem       = [p \in Procs |-> 0]
    /\ stopping  = [p \in Procs |-> FALSE]
    /\ faults    = 0
    /\ stops     = 0

-----------------------------------------------------------------------------
(* Pushes.                                                                  *)

\* Reconcile begins its transaction.
PushBegin(r) ==
    /\ clock < MaxPushes
    /\ clock' = clock + 1
    /\ open' = open \cup {<<r, clock + 1>>}
    /\ UNCHANGED <<graph, state, settled, analytics, worker, stopping, limits>>

\* It commits: the rows of the push, the dirty mark and reconciled_at together.
\* Two pushes of one repo commit in either order.
PushCommit(x, large) ==
    /\ x \in open
    /\ open' = open \ {x}
    /\ graph' = [graph EXCEPT ![x[1]] = [push |-> x[2], large |-> large]]
    /\ state' = [state EXCEPT ![x[1]] = [dirty |-> TRUE, reconciled |-> x[2]]]
    /\ settled' = [settled EXCEPT ![x[1]] = FALSE]
    /\ UNCHANGED <<clock, analytics, worker, stopping, limits>>

\* It fails and is rolled back.
PushAbort(x) ==
    /\ x \in open
    /\ open' = open \ {x}
    /\ UNCHANGED <<clock, graph, state, settled, analytics, worker, stopping, limits>>

\* Time passes: reconciled_at < now() - debounce.
Debounce(r) ==
    /\ state[r].reconciled > 0
    /\ ~settled[r]
    /\ settled' = [settled EXCEPT ![r] = TRUE]
    /\ UNCHANGED <<clock, open, graph, state, analytics, worker, stopping, limits>>

-----------------------------------------------------------------------------
(* The loop of AnalyticsWorker.Run and processOnce.                         *)

DirtyRepos == {r \in Repos : state[r].dirty /\ settled[r]}

\* A tick: DirtyRepos, or its error.
Tick(p) ==
    /\ loop[p] = "wait"
    /\ ~stopping[p]
    /\ DirtyRepos # {}
    /\ queue' = [queue EXCEPT ![p] = DirtyRepos]
    /\ loop' = [loop EXCEPT ![p] = "claim"]
    /\ UNCHANGED <<store, claiming, inflight, run, releasing, sem, stopping, limits>>

\* Another goroutine of this process is working on the repo.
Claimed(p, r) == r \in inflight[p]

\* The next repo of the tick: skipped when it is in flight, else claimed.
Claim(p) ==
    /\ loop[p] = "claim"
    /\ \/ /\ queue[p] = {}
          /\ loop' = [loop EXCEPT ![p] = "wait"]
          /\ UNCHANGED <<queue, claiming, inflight>>
       \/ \E r \in queue[p] :
            /\ queue' = [queue EXCEPT ![p] = @ \ {r}]
            /\ \/ Claimed(p, r) /\ UNCHANGED <<loop, claiming, inflight>>
               \/ /\ ~Claimed(p, r)
                  /\ inflight' = [inflight EXCEPT ![p] = @ \cup {r}]
                  /\ claiming' = [claiming EXCEPT ![p] = r]
                  /\ loop' = [loop EXCEPT ![p] = "slot"]
    /\ UNCHANGED <<store, run, releasing, sem, stopping, limits>>

\* The slot is free: the goroutine starts.
AcquireSlot(p) ==
    /\ loop[p] = "slot"
    /\ sem[p] < MaxConcurrency
    /\ sem' = [sem EXCEPT ![p] = @ + 1]
    /\ run' = [run EXCEPT ![p][claiming[p]] = [NoRun EXCEPT !.at = "snapshot"]]
    /\ claiming' = [claiming EXCEPT ![p] = NoRepo]
    /\ loop' = [loop EXCEPT ![p] = "claim"]
    /\ UNCHANGED <<store, queue, inflight, releasing, stopping, limits>>

\* Shutdown while waiting for a slot: the claim is dropped, processOnce returns.
Unclaim(p) ==
    /\ loop[p] = "slot"
    /\ stopping[p]
    /\ inflight' = [inflight EXCEPT ![p] = @ \ {claiming[p]}]
    /\ claiming' = [claiming EXCEPT ![p] = NoRepo]
    /\ queue' = [queue EXCEPT ![p] = {}]
    /\ loop' = [loop EXCEPT ![p] = "wait"]
    /\ UNCHANGED <<store, run, releasing, sem, stopping, limits>>

-----------------------------------------------------------------------------
(* recompute: the goroutine of one repo.                                    *)

At(p, r, label) == run[p][r].at = label

\* Seeded fault: a failed run keeps its claim.
EndRun_ClaimKept(p, r, ok) ==
    /\ run' = [run EXCEPT ![p][r] = NoRun]
    /\ inflight' = IF ok THEN [inflight EXCEPT ![p] = @ \ {r}] ELSE inflight
    /\ releasing' = [releasing EXCEPT ![p] = @ + 1]

\* recompute returns: its defer drops the claim; the slot is given back later.
EndRun(p, r, ok) ==
    /\ run' = [run EXCEPT ![p][r] = NoRun]
    /\ inflight' = [inflight EXCEPT ![p] = @ \ {r}]
    /\ releasing' = [releasing EXCEPT ![p] = @ + 1]

\* The run fails at any of its store calls: a store error or its timeout.
RunFails(p, r) ==
    /\ run[p][r].at # "none"
    /\ \/ Fault
       \/ stopping[p] /\ UNCHANGED faults
    /\ EndRun(p, r, FALSE)
    /\ UNCHANGED <<store, loop, queue, claiming, sem, stopping, stops>>

\* reconciled_at is read before the graph.
Snapshot(p, r) ==
    /\ At(p, r, "snapshot")
    /\ run' = [run EXCEPT ![p][r] = [@ EXCEPT !.at = "entities", !.snapshot = state[r].reconciled]]
    /\ UNCHANGED <<store, loop, queue, claiming, inflight, releasing, sem, stopping, limits>>

\* Entities and edges are read by two statements outside a transaction.
LoadEntities(p, r) ==
    /\ At(p, r, "entities")
    /\ run' = [run EXCEPT ![p][r] = [@ EXCEPT !.at = "edges", !.nodes = graph[r].push,
                                              !.large = graph[r].large]]
    /\ UNCHANGED <<store, loop, queue, claiming, inflight, releasing, sem, stopping, limits>>

LoadEdges(p, r) ==
    /\ At(p, r, "edges")
    /\ run' = [run EXCEPT ![p][r] = [@ EXCEPT !.at = "write", !.edges = graph[r].push]]
    /\ UNCHANGED <<store, loop, queue, claiming, inflight, releasing, sem, stopping, limits>>

\* Seeded fault: "has not advanced" is written <=.
Unchanged_NotAdvanced(p, r) == state[r].reconciled <= run[p][r].snapshot

\* The guard on the dirty flag: no push committed since the snapshot.
Unchanged(p, r) == state[r].reconciled = run[p][r].snapshot

\* The write transaction, after computing and labelling: betweenness only if
\* it was computed, communities, and the dirty flag.
WriteAnalytics(p, r) ==
    LET g == run[p][r] IN
    /\ At(p, r, "write")
    /\ analytics' = [analytics EXCEPT ![r] =
                       [nodes |-> g.nodes, edges |-> g.edges,
                        betweenness |-> IF g.large THEN @.betweenness ELSE g.nodes]]
    /\ state' = [state EXCEPT ![r].dirty = @ /\ ~Unchanged(p, r)]
    /\ EndRun(p, r, TRUE)
    /\ UNCHANGED <<clock, open, graph, settled, loop, queue, claiming, sem, stopping, limits>>

\* The goroutine's last defer.
ReleaseSlot(p) ==
    /\ releasing[p] > 0
    /\ releasing' = [releasing EXCEPT ![p] = @ - 1]
    /\ sem' = [sem EXCEPT ![p] = @ - 1]
    /\ UNCHANGED <<store, loop, queue, claiming, inflight, run, stopping, limits>>

-----------------------------------------------------------------------------
\* The process is told to stop.
Stop(p) ==
    /\ ~stopping[p]
    /\ stops < MaxStops
    /\ stops' = stops + 1
    /\ stopping' = [stopping EXCEPT ![p] = TRUE]
    /\ UNCHANGED <<store, worker, faults>>

Idle(p) == loop[p] = "wait" /\ sem[p] = 0

\* Run returned after wg.Wait, and the next process starts.
Relaunch(p) ==
    /\ stopping[p]
    /\ Idle(p)
    /\ stopping' = [stopping EXCEPT ![p] = FALSE]
    /\ UNCHANGED <<store, worker, limits>>

RunStep(p, r) ==
    \/ Snapshot(p, r)
    \/ LoadEntities(p, r)
    \/ LoadEdges(p, r)
    \/ WriteAnalytics(p, r)

LoopStep(p) == Tick(p) \/ Claim(p) \/ AcquireSlot(p) \/ Unclaim(p) \/ Relaunch(p)

Next ==
    \/ \E r \in Repos : PushBegin(r) \/ Debounce(r)
    \/ \E x \in open : PushAbort(x) \/ \E large \in BOOLEAN : PushCommit(x, large)
    \/ \E p \in Procs :
         \/ LoopStep(p)
         \/ ReleaseSlot(p)
         \/ Stop(p)
         \/ \E r \in Repos : RunStep(p, r) \/ RunFails(p, r)

Spec == Init /\ [][Next]_vars

\* Time passes, the ticker fires, and goroutines that can run do.  Pushes,
\* failures and stops are never forced.
FairSpec ==
    /\ Spec
    /\ \A r \in Repos : WF_vars(Debounce(r))
    /\ \A p \in Procs :
         /\ WF_vars(LoopStep(p))
         /\ WF_vars(ReleaseSlot(p))
         /\ \A r \in Repos : WF_vars(RunStep(p, r))

-----------------------------------------------------------------------------
(* Properties.                                                              *)

\* Every variable holds a value of its kind; the semaphore is never overfull.
TypeOK ==
    /\ clock \in 0..MaxPushes
    /\ open \subseteq Repos \X (1..MaxPushes)
    /\ graph \in [Repos -> [push : 0..MaxPushes, large : BOOLEAN]]
    /\ state \in [Repos -> [dirty : BOOLEAN, reconciled : 0..MaxPushes]]
    /\ settled \in [Repos -> BOOLEAN]
    /\ analytics \in [Repos -> [nodes : 0..MaxPushes, edges : 0..MaxPushes, betweenness : 0..MaxPushes]]
    /\ loop \in [Procs -> {"wait", "claim", "slot"}]
    /\ queue \in [Procs -> SUBSET Repos]
    /\ claiming \in [Procs -> Repos \cup {NoRepo}]
    /\ inflight \in [Procs -> SUBSET Repos]
    /\ run \in [Procs -> [Repos -> [at : {"none", "snapshot", "entities", "edges", "write"},
                                    snapshot : 0..MaxPushes, nodes : 0..MaxPushes,
                                    edges : 0..MaxPushes, large : BOOLEAN]]]
    /\ releasing \in [Procs -> 0..MaxConcurrency]
    /\ sem \in [Procs -> 0..MaxConcurrency]
    /\ stopping \in [Procs -> BOOLEAN]
    /\ faults \in 0..MaxFaults
    /\ stops \in 0..MaxStops

\* A repository that is not dirty shows the analytics of its current graph:
\* communities always, betweenness unless the graph is over the node cap.  A
\* push that lands between a run's snapshot and its commit keeps dirty set.
CleanMeansCurrent ==
    \A r \in Repos :
        ~state[r].dirty =>
            /\ analytics[r].nodes = graph[r].push
            /\ analytics[r].edges = graph[r].push
            /\ graph[r].large \/ analytics[r].betweenness = graph[r].push

\* A dirty repository becomes clean in the end, once the pushes to it cease:
\* whatever failed, timed out or was cut off by a shutdown is tried again.
DirtySettles == \A r \in Repos : state[r].dirty ~> ~state[r].dirty
=============================================================================
