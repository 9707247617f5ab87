----------------------------- MODULE AppProofs -----------------------------
(***************************************************************************)
(* Proofs about App and PgMigrate: the order of shutdown for any number of *)
(* replicas, requests, restarts and failing calls, and the migrations for  *)
(* one replica, every database the runner may meet and every place where   *)
(* an attempt can be cut off.                                              *)
(***************************************************************************)
EXTENDS App, TLAPS

USE MigrateAssumption, AppAssumption
USE DEF replica, startupVars, process

-----------------------------------------------------------------------------
(* The schemas.                                                             *)

\* A schema of features stays one.
LEMMA ExecFeatures ==
  ASSUME NEW S \in SUBSET Features, NEW m \in Migrations
  PROVE  Exec(S, m) \in SUBSET Features
<1>1. Adds[m] \subseteq Features
  BY DEF Adds, Features, Migrations
<1>2. QED
  BY <1>1 DEF Exec

\* The recursive definition of Migrated, unrolled.
LEMMA MigratedUnrolled ==
  ASSUME NEW S
  PROVE  /\ Migrated(S, 0) = S
         /\ \A k \in 1..6 : Migrated(S, k) = Exec(Migrated(S, k - 1), k)
<1> DEFINE R(g) == [i \in 0..6 |-> IF i = 0 THEN S ELSE Exec(g[i - 1], i)]
           f == CHOOSE g : g = R(g)
           e1 == Exec(S, 1)
           e2 == Exec(e1, 2)
           e3 == Exec(e2, 3)
           e4 == Exec(e3, 4)
           e5 == Exec(e4, 5)
           e6 == Exec(e5, 6)
           h == [i \in 0..6 |-> IF i = 0 THEN S ELSE IF i = 1 THEN e1 ELSE IF i = 2 THEN e2
                                ELSE IF i = 3 THEN e3 ELSE IF i = 4 THEN e4 ELSE IF i = 5 THEN e5 ELSE e6]
<1>1. \E g : g = R(g)
  <2>1. ASSUME NEW i \in 0..6 PROVE h[i] = IF i = 0 THEN S ELSE Exec(h[i - 1], i)
    <3>1. i = 0 \/ i = 1 \/ i = 2 \/ i = 3 \/ i = 4 \/ i = 5 \/ i = 6
      OBVIOUS
    <3> HIDE DEF e1, e2, e3, e4, e5, e6
    <3>2. /\ h[0] = S /\ h[1] = e1 /\ h[2] = e2 /\ h[3] = e3 /\ h[4] = e4 /\ h[5] = e5 /\ h[6] = e6
      OBVIOUS
    <3> HIDE DEF h
    <3>3. QED
      BY <3>1, <3>2 DEF e1, e2, e3, e4, e5, e6
  <2>2. h = R(h)
    BY <2>1
  <2>3. QED
    BY <2>2
<1>2. f = R(f)
  BY <1>1
<1>3. \A k : Migrated(S, k) = f[k]
  BY DEF Migrated
<1> HIDE DEF f
<1>4. f[0] = S /\ \A k \in 1..6 : f[k] = Exec(f[k - 1], k)
  BY <1>2
<1>5. QED
  BY <1>3, <1>4

Final == {"tables", "symbols", "graphify", "semantic", "pkey", "float8"}

\* The schema the code expects, computed.
LEMMA FinalSchemaIs ==
  /\ Migrated({}, 0) = {}
  /\ Migrated({}, 1) = {"tables"}
  /\ Migrated({}, 2) = {"tables", "symbols"}
  /\ Migrated({}, 3) = {"tables", "symbols", "graphify", "cohesion", "degree"}
  /\ Migrated({}, 4) = {"tables", "symbols", "graphify", "cohesion", "degree", "semantic"}
  /\ Migrated({}, 5) = {"tables", "symbols", "graphify", "degree", "semantic", "pkey"}
  /\ Migrated({}, 6) = Final
  /\ FinalSchema = Final
<1> DEFINE M(k) == Migrated({}, k)
<1>1. /\ M(0) = {} /\ M(1) = Exec(M(0), 1) /\ M(2) = Exec(M(1), 2) /\ M(3) = Exec(M(2), 3)
      /\ M(4) = Exec(M(3), 4) /\ M(5) = Exec(M(4), 5) /\ M(6) = Exec(M(5), 6)
  <2>1. \A k \in 1..6 : M(k) = Exec(M(k - 1), k)
    BY MigratedUnrolled
  <2>2. M(0) = {}
    BY MigratedUnrolled
  <2> HIDE DEF M
  <2>3. QED
    BY <2>1, <2>2
<1> HIDE DEF M
<1>2. M(1) = {"tables"}
  BY <1>1 DEF Exec, Adds, Drops
<1>3. M(2) = {"tables", "symbols"}
  BY <1>1, <1>2 DEF Exec, Adds, Drops
<1>4. M(3) = {"tables", "symbols", "graphify", "cohesion", "degree"}
  BY <1>1, <1>3 DEF Exec, Adds, Drops
<1>5. M(4) = {"tables", "symbols", "graphify", "cohesion", "degree", "semantic"}
  BY <1>1, <1>4 DEF Exec, Adds, Drops
<1>6. M(5) = {"tables", "symbols", "graphify", "degree", "semantic", "pkey"}
  BY <1>1, <1>5 DEF Exec, Adds, Drops
<1>7. M(6) = Final
  BY <1>1, <1>6 DEF Exec, Adds, Drops, Final
<1>8. QED
  BY <1>1, <1>2, <1>3, <1>4, <1>5, <1>6, <1>7 DEF M, FinalSchema

\* What every database without tracker rows has: the features of the first
\* three migrations come in order.
Ordered(S) ==
    /\ S \in SUBSET Features
    /\ "graphify" \in S => "symbols" \in S
    /\ "symbols" \in S => "tables" \in S

\* Every database the runner may meet is of that shape.
LEMMA LegacyOrdered == \A S \in Legacy : Ordered(S)
<1>1. ASSUME NEW k \in 0..6 PROVE Ordered(Migrated({}, k))
  <2>1. k = 0 \/ k = 1 \/ k = 2 \/ k = 3 \/ k = 4 \/ k = 5 \/ k = 6
    OBVIOUS
  <2>2. QED
    BY <2>1, FinalSchemaIs DEF Ordered, Features, Final
<1>2. ASSUME NEW k \in 0..6 PROVE Ordered(Migrated(FinalSchema, k))
  <2> DEFINE M(j) == Migrated(FinalSchema, j)
             G(S) == S \in SUBSET Features /\ "tables" \in S /\ "symbols" \in S
  <2>1. ASSUME NEW S, G(S), NEW m \in Migrations PROVE G(Exec(S, m))
    <3>1. "tables" \notin Drops[m] /\ "symbols" \notin Drops[m]
      BY DEF Drops, Migrations
    <3>2. QED
      BY <2>1, <3>1, ExecFeatures DEF Exec
  <2>2. M(0) = FinalSchema /\ \A j \in 1..6 : M(j) = Exec(M(j - 1), j)
    BY MigratedUnrolled
  <2>3. G(M(0))
    BY <2>2, FinalSchemaIs DEF Final, Features
  <2> HIDE DEF M, G
  <2>4. G(M(1))
    BY <2>1, <2>2, <2>3 DEF Migrations
  <2>5. G(M(2))
    BY <2>1, <2>2, <2>4 DEF Migrations
  <2>6. G(M(3))
    BY <2>1, <2>2, <2>5 DEF Migrations
  <2>7. G(M(4))
    BY <2>1, <2>2, <2>6 DEF Migrations
  <2>8. G(M(5))
    BY <2>1, <2>2, <2>7 DEF Migrations
  <2>9. G(M(6))
    BY <2>1, <2>2, <2>8 DEF Migrations
  <2>10. k = 0 \/ k = 1 \/ k = 2 \/ k = 3 \/ k = 4 \/ k = 5 \/ k = 6
    OBVIOUS
  <2>11. G(M(k))
    BY <2>3, <2>4, <2>5, <2>6, <2>7, <2>8, <2>9, <2>10
  <2>12. QED
    BY <2>11 DEF G, M, Ordered
<1>3. QED
  BY <1>1, <1>2 DEF Legacy

-----------------------------------------------------------------------------
(* Every variable holds a value of its kind.                                *)

\* The initial states are typed.
LEMMA InitTyped == Init => TypeOK
<1> SUFFICES ASSUME Init PROVE TypeOK
  OBVIOUS
<1>1. StartupTypeOK
  <2>1. schema \in SUBSET Features /\ legacy = schema
    BY LegacyOrdered DEF Init, StartupInit, Ordered
  <2>2. QED
    BY <2>1 DEF Init, StartupInit, StartupTypeOK, Migrations
<1>2. QED
  BY <1>1 DEF Init, TypeOK

\* A step of the startup goroutine keeps the kinds of its variables.
LEMMA StartupTyped ==
  ASSUME StartupTypeOK, NEW r \in Replicas, StartupStep(r) \/ Fail(r) \/ CommitLost(r)
  PROVE  StartupTypeOK'
<1> USE DEF StartupTypeOK
<1>0. at[r] \in 1..6 /\ (at[r] # 6 => at[r] + 1 \in 1..6)
  BY DEF Migrations
<1>1. ASSUME Advance(r) PROVE pc' \in [Replicas -> {"attempt", "check", "probe", "commit", "migrated", "ready"}]
                              /\ at' \in [Replicas -> Migrations]
  BY <1>0, <1>1 DEF Advance, Migrations
<1>2. Exec(schema, at[r]) \in SUBSET Features
  BY ExecFeatures
<1>3. [executed EXCEPT ![at[r]] = IF @ < 2 THEN @ + 1 ELSE 2] \in [Migrations -> 0..2]
  OBVIOUS
<1>4. CASE Attempt(r) \/ Probe(r) \/ MarkReady(r) \/ Fail(r)
  <2>1. CASE Attempt(r)
    BY <2>1 DEF Attempt, Migrations
  <2>2. CASE Probe(r)
    <3>1. execute' \in [Replicas -> BOOLEAN]
      BY <2>2 DEF Probe
    <3>2. QED
      BY <2>2, <3>1 DEF Probe
  <2>3. CASE MarkReady(r)
    BY <2>3 DEF MarkReady
  <2>4. CASE Fail(r)
    BY <2>4 DEF Fail
  <2>5. QED
    BY <1>4, <2>1, <2>2, <2>3, <2>4
<1>5. CASE Applied(r)
  BY <1>1, <1>5 DEF Applied, Skip
<1>6. CASE Commit(r)
  <2>1. schema' \in SUBSET Features /\ executed' \in [Migrations -> 0..2] /\ stamped' \subseteq Migrations
    BY <1>2, <1>3, <1>6 DEF Commit
  <2>2. baselining' \in [Replicas -> BOOLEAN]
    BY <1>6 DEF Commit
  <2>3. QED
    BY <1>1, <1>6, <2>1, <2>2 DEF Commit
<1>7. CASE CommitLost(r)
  <2>1. schema' \in SUBSET Features /\ executed' \in [Migrations -> 0..2] /\ stamped' \subseteq Migrations
    BY <1>2, <1>3, <1>7 DEF CommitLost
  <2>2. faults' \in 0..MaxFaults /\ pc' \in [Replicas -> {"attempt", "check", "probe", "commit", "migrated", "ready"}]
    BY <1>7 DEF CommitLost
  <2>3. QED
    BY <1>7, <2>1, <2>2 DEF CommitLost
<1>8. QED
  BY <1>4, <1>5, <1>6, <1>7 DEF StartupStep

\* So does every step of the processes.
LEMMA TypeOKStep == ASSUME TypeOK, [Next]_vars PROVE TypeOK'
<1> USE DEF TypeOK, Shutdown, Alive, GoTo
<1>1. ASSUME NEW r \in Replicas, Wire(r) \/ Wired(r) \/ Listen(r) \/ Signal(r) \/ Cap(r) PROVE TypeOK'
  <2>1. StartupTypeOK'
    BY <1>1 DEF Wire, Wired, Listen, Signal, Cap, StartupTypeOK
  <2>2. CASE Wire(r)
    BY <2>1, <2>2 DEF Wire
  <2>3. CASE Wired(r)
    BY <2>1, <2>3 DEF Wired
  <2>4. CASE Listen(r) \/ Signal(r)
    BY <2>1, <2>4 DEF Listen, Signal
  <2>5. CASE Cap(r)
    BY <2>1, <2>5 DEF Cap
  <2>6. QED
    BY <1>1, <2>2, <2>3, <2>4, <2>5
<1>2. ASSUME NEW r \in Replicas, Gone(r), UNCHANGED faults \/ (faults < MaxFaults /\ faults' = faults + 1)
      PROVE  TypeOK'
  <2>1. StartupTypeOK'
    BY <1>2 DEF Gone, StartupTypeOK
  <2>2. QED
    BY <1>2, <2>1 DEF Gone
<1>3. ASSUME NEW r \in Replicas, BootFails(r) \/ Crash(r) \/ Exit(r) PROVE TypeOK'
  BY <1>2, <1>3 DEF BootFails, Crash, Exit
<1>4. ASSUME NEW r \in Replicas, Startup(r) PROVE TypeOK'
  <2>1. StartupTypeOK'
    BY <1>4, StartupTyped DEF Startup
  <2>2. startup' \in [Replicas -> {"none", "running", "ended"}]
    BY <1>4 DEF Startup
  <2>3. QED
    BY <1>4, <2>1, <2>2 DEF Startup
<1>5. ASSUME NEW r \in Replicas, StartupFails(r) PROVE TypeOK'
  <2>1. StartupTypeOK'
    BY <1>5, StartupTyped DEF StartupFails
  <2>2. startup' \in [Replicas -> {"none", "running", "ended"}]
    BY <1>5 DEF StartupFails
  <2>3. QED
    BY <1>5, <2>1, <2>2 DEF StartupFails
<1>6. ASSUME NEW r \in Replicas, StartupEnds(r) PROVE TypeOK'
  BY <1>6 DEF StartupEnds, StartupTypeOK
<1>7. ASSUME NEW r \in Replicas, Request(r) PROVE TypeOK'
  <2>1. requests' \in [Replicas -> 0..MaxRequests]
    BY <1>7 DEF Request
  <2>2. StartupTypeOK'
    BY <1>7 DEF Request, StartupTypeOK
  <2>3. QED
    BY <1>7, <2>1, <2>2 DEF Request
<1>8. ASSUME NEW r \in Replicas, TakeItem(r) \/ FinishItem(r) PROVE TypeOK'
  BY <1>8 DEF TakeItem, FinishItem, StartupTypeOK
<1>9. ASSUME NEW r \in Replicas, ShutdownStep(r) PROVE TypeOK'
  BY <1>9 DEF ShutdownStep, StartupTypeOK
<1>10. CASE UNCHANGED vars
  BY <1>10 DEF vars, StartupTypeOK
<1>11. QED
  BY <1>1, <1>3, <1>4, <1>5, <1>6, <1>7, <1>8, <1>9, <1>10 DEF Next

\* Every variable of App and PgMigrate holds a value of its kind.
THEOREM TypeOKHolds == Spec => []TypeOK
<1>1. TypeOK /\ [Next]_vars => TypeOK'
  BY TypeOKStep
<1>2. QED
  BY <1>1, InitTyped, PTL DEF Spec

-----------------------------------------------------------------------------
(* The order of shutdown.                                                   *)

\* What the stages of a process guarantee, in the order of app.shutdown.
InOrder(r) ==
    /\ stage[r] = "down" => requests[r] = 0 /\ ~working[r] /\ startup[r] = "none"
    /\ stage[r] = "wiring" => startup[r] = "none"
    /\ stage[r] \in {"wiring", "wired"} => requests[r] = 0
    /\ stage[r] \in Alive \ {"closed"} => dbOpen[r]
    /\ stage[r] \in {"drain", "stopPool", "closed"} => startup[r] # "running" \/ capped[r]
    /\ stage[r] \in {"stopPool", "closed"} => requests[r] = 0 \/ capped[r]
    /\ stage[r] = "closed" => ~working[r]

\* Every step of every process keeps that order.
LEMMA InOrderStep ==
  ASSUME TypeOK, [Next]_vars, NEW q \in Replicas, InOrder(q)
  PROVE  InOrder(q)'
<1> USE DEF TypeOK, InOrder, Alive, Shutdown, GoTo
<1>1. ASSUME NEW r \in Replicas, Wire(r) PROVE InOrder(q)'
  BY <1>1 DEF Wire
<1>2. ASSUME NEW r \in Replicas, Wired(r) PROVE InOrder(q)'
  BY <1>2 DEF Wired
<1>3. ASSUME NEW r \in Replicas, Listen(r) \/ Signal(r) PROVE InOrder(q)'
  BY <1>3 DEF Listen, Signal
<1>4. ASSUME NEW r \in Replicas, Gone(r) PROVE InOrder(q)'
  BY <1>4 DEF Gone
<1>5. ASSUME NEW r \in Replicas, Startup(r) \/ StartupFails(r) \/ StartupEnds(r) PROVE InOrder(q)'
  <2>1. UNCHANGED <<stage, capped, requests, working, dbOpen>>
    BY <1>5 DEF Startup, StartupFails, StartupEnds
  <2>2. startup'[q] = startup[q] \/ (startup[q] = "running" /\ startup'[q] = "ended")
    BY <1>5 DEF Startup, StartupFails, StartupEnds, Running
  <2>3. QED
    BY <2>1, <2>2
<1>6. ASSUME NEW r \in Replicas, Request(r) PROVE InOrder(q)'
  <2>1. UNCHANGED <<stage, capped, startup, working, dbOpen>>
    BY <1>6 DEF Request
  <2>2. requests[q] \in Nat
    OBVIOUS
  <2>3. requests[q] = 0 => stage[q] \in {"serving", "awaitStartup"} \/ requests'[q] = 0
    BY <1>6, <2>2 DEF Request, Listening
  <2>4. QED
    BY <2>1, <2>3
<1>7. ASSUME NEW r \in Replicas, TakeItem(r) \/ FinishItem(r) PROVE InOrder(q)'
  BY <1>7 DEF TakeItem, FinishItem
<1>8. ASSUME NEW r \in Replicas, Cap(r) PROVE InOrder(q)'
  BY <1>8 DEF Cap
<1>9. ASSUME NEW r \in Replicas, ShutdownStep(r) PROVE InOrder(q)'
  <2>1. UNCHANGED <<capped, requests, startup, working>>
    BY <1>9 DEF ShutdownStep
  <2>2. CASE q # r
    BY <1>9, <2>1, <2>2 DEF ShutdownStep
  <2>3. CASE q = r /\ stage[r] = "awaitStartup"
    BY <1>9, <2>1, <2>3 DEF ShutdownStep, StartupAwaited
  <2>4. CASE q = r /\ stage[r] = "drain"
    BY <1>9, <2>1, <2>4 DEF ShutdownStep, Drained
  <2>5. CASE q = r /\ stage[r] = "stopPool"
    BY <1>9, <2>1, <2>5 DEF ShutdownStep, PoolStopped
  <2>6. QED
    BY <1>9, <2>2, <2>3, <2>4, <2>5 DEF ShutdownStep
<1>10. CASE UNCHANGED vars
  BY <1>10 DEF vars
<1>11. QED
  BY <1>1, <1>2, <1>3, <1>4, <1>5, <1>6, <1>7, <1>8, <1>9, <1>10 DEF Next, BootFails, Crash, Exit

\* For any number of requests and however long the startup attempt, an item or
\* a request takes: the database handle is closed under nobody who was to be
\* waited for.
THEOREM DbClosedLastHolds == Spec => []DbClosedLast
<1> DEFINE Order == \A r \in Replicas : InOrder(r)
<1>1. Init => Order
  BY DEF Init, InOrder, Alive, Shutdown
<1>2. TypeOK /\ Order /\ [Next]_vars => Order'
  BY InOrderStep
<1>3. TypeOK /\ Order => DbClosedLast
  BY DEF TypeOK, InOrder, DbClosedLast, Running, Alive, Shutdown
<1> HIDE DEF Order
<1>4. QED
  BY <1>1, <1>2, <1>3, TypeOKHolds, PTL DEF Spec

-----------------------------------------------------------------------------
(* The migrations.                                                          *)

\* The schema S that the runner has made of L with its first n tracker rows.
SchemaAt(S, L, n) ==
    /\ S \in SUBSET Features
    /\ "tables"   \in S <=> "tables"   \in L \/ n >= 1
    /\ "symbols"  \in S <=> "symbols"  \in L \/ n >= 2
    /\ "graphify" \in S <=> "graphify" \in L \/ n >= 3
    /\ "semantic" \in S <=> "semantic" \in L \/ n >= 4
    /\ "pkey"     \in S <=> "pkey"     \in L \/ n >= 5
    /\ "float8"   \in S <=> "float8"   \in L \/ n >= 6
    /\ "cohesion" \in S <=> n < 5 /\ ("cohesion" \in L \/ (n >= 3 /\ "graphify" \notin L))
    /\ "degree"   \in S <=> n < 6 /\ ("degree"   \in L \/ (n >= 3 /\ "graphify" \notin L))

\* What the probes look for, and what the files do, one by one.
LEMMA ProbesAre ==
  ASSUME NEW S
  PROVE  /\ AlreadyApplied(S, 1) <=> "tables" \in S
         /\ AlreadyApplied(S, 2) <=> "symbols" \in S
         /\ AlreadyApplied(S, 3) <=> "graphify" \in S
         /\ AlreadyApplied(S, 4) <=> "semantic" \in S
         /\ AlreadyApplied(S, 5) <=> "pkey" \in S /\ "cohesion" \notin S
         /\ AlreadyApplied(S, 6) <=> "float8" \in S /\ "degree" \notin S
  BY DEF AlreadyApplied, Adds, Drops

\* The effect of each migration file.
LEMMA ExecsAre ==
  ASSUME NEW S
  PROVE  /\ Exec(S, 1) = S \cup {"tables"}
         /\ Exec(S, 2) = S \cup {"symbols"}
         /\ Exec(S, 3) = S \cup {"graphify", "cohesion", "degree"}
         /\ Exec(S, 4) = S \cup {"semantic"}
         /\ Exec(S, 5) = (S \ {"cohesion"}) \cup {"pkey"}
         /\ Exec(S, 6) = (S \ {"degree"}) \cup {"float8"}
  BY DEF Exec, Adds, Drops

\* Stamping the next migration is right when its probe succeeds, and executing
\* it is right unless it is 0003 on a database that had it.
LEMMA NextSchema ==
  ASSUME NEW S, NEW L, NEW n \in 0..5, SchemaAt(S, L, n)
  PROVE  /\ AlreadyApplied(S, n + 1) => SchemaAt(S, L, n + 1)
         /\ n >= 3 \/ "graphify" \notin L \/ ~AlreadyApplied(S, n + 1) => SchemaAt(Exec(S, n + 1), L, n + 1)
<1>1. CASE n = 0
  <2>1. AlreadyApplied(S, 1) => SchemaAt(S, L, 1)
    BY <1>1, ProbesAre DEF SchemaAt
  <2>2. n >= 3 \/ "graphify" \notin L \/ ~AlreadyApplied(S, 1) => SchemaAt(Exec(S, 1), L, 1)
    <3> DEFINE T == Exec(S, 1)
    <3>1. T \in SUBSET Features
      BY ExecFeatures DEF SchemaAt, Migrations
    <3>2. T = S \cup {"tables"}
      BY ExecsAre
    <3> HIDE DEF T
    <3>3. n >= 3 \/ "graphify" \notin L \/ ~AlreadyApplied(S, 1) => SchemaAt(T, L, 1)
      BY <1>1, <3>1, <3>2, ProbesAre DEF SchemaAt
    <3>4. QED
      BY <3>3 DEF T
  <2>3. QED
    BY <1>1, <2>1, <2>2
<1>2. CASE n = 1
  <2>1. AlreadyApplied(S, 2) => SchemaAt(S, L, 2)
    BY <1>2, ProbesAre DEF SchemaAt
  <2>2. n >= 3 \/ "graphify" \notin L \/ ~AlreadyApplied(S, 2) => SchemaAt(Exec(S, 2), L, 2)
    <3> DEFINE T == Exec(S, 2)
    <3>1. T \in SUBSET Features
      BY ExecFeatures DEF SchemaAt, Migrations
    <3>2. T = S \cup {"symbols"}
      BY ExecsAre
    <3> HIDE DEF T
    <3>3. n >= 3 \/ "graphify" \notin L \/ ~AlreadyApplied(S, 2) => SchemaAt(T, L, 2)
      BY <1>2, <3>1, <3>2, ProbesAre DEF SchemaAt
    <3>4. QED
      BY <3>3 DEF T
  <2>3. QED
    BY <1>2, <2>1, <2>2
<1>3. CASE n = 2
  <2>1. AlreadyApplied(S, 3) => SchemaAt(S, L, 3)
    BY <1>3, ProbesAre DEF SchemaAt
  <2>2. n >= 3 \/ "graphify" \notin L \/ ~AlreadyApplied(S, 3) => SchemaAt(Exec(S, 3), L, 3)
    <3> DEFINE T == Exec(S, 3)
    <3>1. T \in SUBSET Features
      BY ExecFeatures DEF SchemaAt, Migrations
    <3>2. T = S \cup {"graphify", "cohesion", "degree"}
      BY ExecsAre
    <3> HIDE DEF T
    <3>3. n >= 3 \/ "graphify" \notin L \/ ~AlreadyApplied(S, 3) => SchemaAt(T, L, 3)
      BY <1>3, <3>1, <3>2, ProbesAre DEF SchemaAt
    <3>4. QED
      BY <3>3 DEF T
  <2>3. QED
    BY <1>3, <2>1, <2>2
<1>4. CASE n = 3
  <2>1. AlreadyApplied(S, 4) => SchemaAt(S, L, 4)
    BY <1>4, ProbesAre DEF SchemaAt
  <2>2. n >= 3 \/ "graphify" \notin L \/ ~AlreadyApplied(S, 4) => SchemaAt(Exec(S, 4), L, 4)
    <3> DEFINE T == Exec(S, 4)
    <3>1. T \in SUBSET Features
      BY ExecFeatures DEF SchemaAt, Migrations
    <3>2. T = S \cup {"semantic"}
      BY ExecsAre
    <3> HIDE DEF T
    <3>3. n >= 3 \/ "graphify" \notin L \/ ~AlreadyApplied(S, 4) => SchemaAt(T, L, 4)
      BY <1>4, <3>1, <3>2, ProbesAre DEF SchemaAt
    <3>4. QED
      BY <3>3 DEF T
  <2>3. QED
    BY <1>4, <2>1, <2>2
<1>5. CASE n = 4
  <2>1. AlreadyApplied(S, 5) => SchemaAt(S, L, 5)
    BY <1>5, ProbesAre DEF SchemaAt
  <2>2. n >= 3 \/ "graphify" \notin L \/ ~AlreadyApplied(S, 5) => SchemaAt(Exec(S, 5), L, 5)
    <3> DEFINE T == Exec(S, 5)
    <3>1. T \in SUBSET Features
      BY ExecFeatures DEF SchemaAt, Migrations
    <3>2. T = (S \ {"cohesion"}) \cup {"pkey"}
      BY ExecsAre
    <3> HIDE DEF T
    <3>3. n >= 3 \/ "graphify" \notin L \/ ~AlreadyApplied(S, 5) => SchemaAt(T, L, 5)
      BY <1>5, <3>1, <3>2, ProbesAre DEF SchemaAt
    <3>4. QED
      BY <3>3 DEF T
  <2>3. QED
    BY <1>5, <2>1, <2>2
<1>6. CASE n = 5
  <2>1. AlreadyApplied(S, 6) => SchemaAt(S, L, 6)
    BY <1>6, ProbesAre DEF SchemaAt
  <2>2. n >= 3 \/ "graphify" \notin L \/ ~AlreadyApplied(S, 6) => SchemaAt(Exec(S, 6), L, 6)
    <3> DEFINE T == Exec(S, 6)
    <3>1. T \in SUBSET Features
      BY ExecFeatures DEF SchemaAt, Migrations
    <3>2. T = (S \ {"degree"}) \cup {"float8"}
      BY ExecsAre
    <3> HIDE DEF T
    <3>3. n >= 3 \/ "graphify" \notin L \/ ~AlreadyApplied(S, 6) => SchemaAt(T, L, 6)
      BY <1>6, <3>1, <3>2, ProbesAre DEF SchemaAt
    <3>4. QED
      BY <3>3 DEF T
  <2>3. QED
    BY <1>6, <2>1, <2>2
<1>7. QED
  BY <1>1, <1>2, <1>3, <1>4, <1>5, <1>6

\* The only replica r when n migrations are stamped: where it can be, that the
\* decision of its open transaction still fits the schema, and that the runner
\* gives up baselining too late to execute what the database had before.
StampedTo(r, n) ==
    /\ stamped = 1..n
    /\ SchemaAt(schema, legacy, n)
    /\ pc[r] = "check" => at[r] <= n + 1
    /\ pc[r] \in {"probe", "commit"} => at[r] = n + 1
    /\ pc[r] \in {"migrated", "ready"} \/ ready[r] => n = 6
    /\ pc[r] = "commit" => (execute[r] <=> ~(baselining[r] /\ AlreadyApplied(schema, at[r])))
    /\ ~baselining[r] => n >= 3 \/ "graphify" \notin legacy
    /\ legacy = Final => baselining[r]
    /\ \A m \in Migrations : /\ executed[m] <= 1
                             /\ m > n => executed[m] = 0
                             /\ legacy = Final => executed[m] = 0

MigrationInv(r) == Ordered(legacy) /\ \E n \in 0..6 : StampedTo(r, n)

\* On the schema the code expects every probe succeeds.
LEMMA FinalStays ==
  ASSUME NEW S, NEW n \in 0..5, SchemaAt(S, Final, n)
  PROVE  AlreadyApplied(S, n + 1)
<1>1. n = 0 \/ n = 1 \/ n = 2 \/ n = 3 \/ n = 4 \/ n = 5
  OBVIOUS
<1>2. /\ "tables" \in S /\ "symbols" \in S /\ "graphify" \in S /\ "semantic" \in S
      /\ "pkey" \in S /\ "float8" \in S /\ "cohesion" \notin S /\ "degree" \notin S
  BY DEF SchemaAt, Final
<1>3. QED
  BY <1>1, <1>2, ProbesAre

\* The invariant holds on every database the runner may meet.
LEMMA MigrationInit == ASSUME Init, NEW r \in Replicas PROVE MigrationInv(r)
<1>1. Ordered(legacy) /\ schema = legacy
  BY LegacyOrdered DEF Init, StartupInit
<1>2. SchemaAt(schema, legacy, 0)
  BY <1>1 DEF SchemaAt, Ordered
<1>3. stamped = 1..0 /\ at[r] = 1 /\ pc[r] = "attempt" /\ baselining[r] /\ ~ready[r]
      /\ \A m \in Migrations : executed[m] = 0
  BY DEF Init, StartupInit
<1>4. StampedTo(r, 0)
  BY <1>2, <1>3 DEF StampedTo
<1>5. QED
  BY <1>1, <1>4 DEF MigrationInv

\* The commit of an open transaction, heard of or not.
LEMMA MigrationCommit ==
  ASSUME TypeOK, NEW r \in Replicas, NEW n \in 0..6, Ordered(legacy), StampedTo(r, n), pc[r] = "commit",
         schema' = IF execute[r] THEN Exec(schema, at[r]) ELSE schema,
         executed' = IF execute[r]
                     THEN [executed EXCEPT ![at[r]] = IF @ < 2 THEN @ + 1 ELSE 2]
                     ELSE executed,
         stamped' = stamped \cup {at[r]},
         legacy' = legacy
  PROVE  /\ n \in 0..5
         /\ stamped' = 1..(n + 1)
         /\ SchemaAt(schema', legacy', n + 1)
         /\ execute[r] => (n + 1 >= 3 \/ "graphify" \notin legacy) /\ legacy # Final
         /\ \A m \in Migrations : /\ executed'[m] <= 1
                                  /\ m > n + 1 => executed'[m] = 0
                                  /\ legacy' = Final => executed'[m] = 0
<1>1. n \in 0..5 /\ at[r] = n + 1
  <2>1. at[r] = n + 1
    BY DEF StampedTo
  <2>2. at[r] \in 1..6
    BY DEF TypeOK, StartupTypeOK, Migrations
  <2>3. QED
    BY <2>1, <2>2
<1>2. stamped' = 1..(n + 1)
  BY <1>1 DEF StampedTo
<1>3. execute[r] <=> ~(baselining[r] /\ AlreadyApplied(schema, n + 1))
  BY <1>1 DEF StampedTo
<1>4. execute[r] => (n >= 3 \/ "graphify" \notin legacy \/ ~AlreadyApplied(schema, n + 1)) /\ legacy # Final
  BY <1>1, <1>3, FinalStays DEF StampedTo
<1>5. SchemaAt(schema', legacy', n + 1)
  <2>1. CASE execute[r]
    BY <1>1, <1>4, <2>1, NextSchema DEF StampedTo
  <2>2. CASE ~execute[r]
    BY <1>1, <1>3, <2>2, NextSchema DEF StampedTo
  <2>3. QED
    BY <2>1, <2>2
<1>6. ASSUME execute[r] PROVE n + 1 >= 3 \/ "graphify" \notin legacy
  <2>1. CASE n = 0
    BY <1>4, <1>6, <2>1, ProbesAre DEF Ordered, StampedTo, SchemaAt
  <2>2. CASE n = 1
    BY <1>4, <1>6, <2>2, ProbesAre DEF Ordered, StampedTo, SchemaAt
  <2>3. QED
    BY <1>1, <2>1, <2>2
<1>7. ASSUME NEW m \in Migrations
      PROVE  /\ executed'[m] <= 1
             /\ m > n + 1 => executed'[m] = 0
             /\ legacy' = Final => executed'[m] = 0
  <2>1. executed \in [Migrations -> 0..2] /\ n + 1 \in Migrations /\ m \in Nat
    BY <1>1 DEF TypeOK, StartupTypeOK, Migrations
  <2>2. executed[m] <= 1 /\ (m > n => executed[m] = 0) /\ (legacy = Final => executed[m] = 0)
    BY DEF StampedTo
  <2>3. CASE execute[r] /\ m = n + 1
    <3>1. executed[m] = 0
      BY <2>1, <2>2, <2>3
    <3>2. executed'[m] = 1
      BY <1>1, <2>1, <2>3, <3>1
    <3>3. QED
      BY <1>4, <2>3, <3>2
  <2>4. CASE ~(execute[r] /\ m = n + 1)
    <3>1. executed'[m] = executed[m]
      BY <1>1, <2>1, <2>4
    <3>2. QED
      BY <1>1, <2>1, <2>2, <3>1
  <2>5. QED
    BY <2>3, <2>4
<1>8. QED
  BY <1>1, <1>2, <1>4, <1>5, <1>6, <1>7

\* Every step keeps the invariant when there is one replica.
LEMMA MigrationStep ==
  ASSUME NEW r, Replicas = {r}, TypeOK, MigrationInv(r), [Next]_vars
  PROVE  MigrationInv(r)'
<1>0. PICK n \in 0..6 : StampedTo(r, n)
  BY DEF MigrationInv
<1>1. Ordered(legacy) /\ r \in Replicas
  BY DEF MigrationInv
<1>2. /\ pc \in [Replicas -> {"attempt", "check", "probe", "commit", "migrated", "ready"}]
      /\ at[r] \in 1..6 /\ at \in [Replicas -> Migrations] /\ ready \in [Replicas -> BOOLEAN]
      /\ execute \in [Replicas -> BOOLEAN] /\ baselining \in [Replicas -> BOOLEAN]
  BY DEF TypeOK, StartupTypeOK, Migrations
<1>3. CASE UNCHANGED startupVars
  BY <1>3 DEF MigrationInv, StampedTo
<1>4. ASSUME pc'[r] = "attempt", ready'[r] = ready[r] \/ ~ready'[r],
             UNCHANGED <<schema, stamped, executed, legacy, at, baselining, execute>>
      PROVE  MigrationInv(r)'
  <2>1. StampedTo(r, n)'
    BY <1>0, <1>4 DEF StampedTo
  <2>2. QED
    BY <1>1, <1>4, <2>1 DEF MigrationInv
<1>5. CASE Gone(r) \/ StartupEnds(r) \/ Fail(r)
  BY <1>1, <1>2, <1>4, <1>5 DEF Gone, StartupEnds, Fail
<1>6. CASE Attempt(r)
  <2>1. StampedTo(r, n)'
    BY <1>0, <1>1, <1>2, <1>6 DEF Attempt, StampedTo
  <2>2. QED
    BY <1>1, <1>6, <2>1 DEF Attempt, MigrationInv
<1>7. CASE Applied(r)
  <2>1. UNCHANGED <<schema, stamped, executed, legacy, baselining, execute, ready>>
    BY <1>7 DEF Applied, Skip
  <2>2. CASE at[r] \in stamped /\ Advance(r)
    <3>1. at[r] <= n /\ (at[r] = 6 => n = 6)
      BY <1>0, <1>2, <2>2 DEF StampedTo
    <3>2. \/ at[r] = 6 /\ pc'[r] = "migrated"
          \/ at[r] # 6 /\ pc'[r] = "check" /\ at'[r] = at[r] + 1
      BY <1>1, <1>2, <2>2 DEF Advance
    <3>3. StampedTo(r, n)'
      BY <1>0, <1>2, <2>1, <3>1, <3>2 DEF StampedTo
    <3>4. QED
      BY <1>1, <2>1, <3>3 DEF MigrationInv
  <2>3. CASE at[r] \notin stamped /\ pc' = [pc EXCEPT ![r] = "probe"] /\ UNCHANGED at
    <3>1. at[r] = n + 1 /\ pc'[r] = "probe"
      BY <1>0, <1>1, <1>2, <1>7, <2>3 DEF StampedTo, Applied
    <3>2. StampedTo(r, n)'
      BY <1>0, <2>1, <2>3, <3>1 DEF StampedTo
    <3>3. QED
      BY <1>1, <2>1, <3>2 DEF MigrationInv
  <2>4. QED
    BY <1>7, <2>2, <2>3 DEF Applied, Skip
<1>8. CASE Probe(r)
  <2>1. /\ pc[r] = "probe" /\ pc'[r] = "commit"
        /\ execute'[r] <=> ~(baselining[r] /\ AlreadyApplied(schema, at[r]))
        /\ UNCHANGED <<schema, stamped, executed, legacy, at, baselining, ready>>
    BY <1>1, <1>2, <1>8 DEF Probe
  <2>2. StampedTo(r, n)'
    BY <1>0, <2>1 DEF StampedTo
  <2>3. QED
    BY <1>1, <2>1, <2>2 DEF MigrationInv
<1>9. CASE Commit(r)
  <2>1. /\ n \in 0..5
        /\ stamped' = 1..(n + 1)
        /\ SchemaAt(schema', legacy', n + 1)
        /\ execute[r] => (n + 1 >= 3 \/ "graphify" \notin legacy) /\ legacy # Final
        /\ \A m \in Migrations : /\ executed'[m] <= 1
                                 /\ m > n + 1 => executed'[m] = 0
                                 /\ legacy' = Final => executed'[m] = 0
    BY <1>0, <1>1, <1>9, MigrationCommit DEF Commit
  <2>2. at[r] = n + 1 /\ UNCHANGED <<legacy, ready>> /\ (ready[r] => n = 6)
    BY <1>0, <1>9 DEF Commit, StampedTo
  <2>3. \/ n + 1 = 6 /\ pc'[r] = "migrated"
        \/ n + 1 # 6 /\ pc'[r] = "check" /\ at'[r] = n + 2
    BY <1>1, <1>2, <1>9, <2>1, <2>2 DEF Commit, Advance
  <2>4. baselining'[r] <=> baselining[r] /\ ~execute[r]
    BY <1>1, <1>2, <1>9 DEF Commit
  <2>5. StampedTo(r, n + 1)'
    BY <1>0, <2>1, <2>2, <2>3, <2>4 DEF StampedTo
  <2>6. QED
    BY <1>1, <2>1, <2>2, <2>5 DEF MigrationInv
<1>10. CASE CommitLost(r)
  <2>1. /\ n \in 0..5
        /\ stamped' = 1..(n + 1)
        /\ SchemaAt(schema', legacy', n + 1)
        /\ execute[r] => (n + 1 >= 3 \/ "graphify" \notin legacy) /\ legacy # Final
        /\ \A m \in Migrations : /\ executed'[m] <= 1
                                 /\ m > n + 1 => executed'[m] = 0
                                 /\ legacy' = Final => executed'[m] = 0
    BY <1>0, <1>1, <1>10, MigrationCommit DEF CommitLost
  <2>2. pc'[r] = "attempt" /\ UNCHANGED <<legacy, ready, baselining>> /\ (ready[r] => n = 6)
    BY <1>0, <1>1, <1>2, <1>10 DEF CommitLost, StampedTo
  <2>3. StampedTo(r, n + 1)'
    BY <1>0, <2>1, <2>2 DEF StampedTo
  <2>4. QED
    BY <1>1, <2>1, <2>2, <2>3 DEF MigrationInv
<1>11. CASE MarkReady(r)
  <2>1. /\ pc[r] = "migrated" /\ pc'[r] = "ready"
        /\ UNCHANGED <<schema, stamped, executed, legacy, at, baselining, execute>>
    BY <1>1, <1>2, <1>11 DEF MarkReady
  <2>2. StampedTo(r, n)'
    BY <1>0, <2>1 DEF StampedTo
  <2>3. QED
    BY <1>1, <2>1, <2>2 DEF MigrationInv
<1>12. CASE Wire(r) \/ Wired(r) \/ Listen(r) \/ Request(r) \/ TakeItem(r) \/ FinishItem(r) \/ Signal(r)
            \/ Cap(r) \/ ShutdownStep(r) \/ UNCHANGED vars
  BY <1>3, <1>12 DEF Wire, Wired, Listen, Request, TakeItem, FinishItem, Signal, Cap, ShutdownStep, vars
<1>13. QED
  BY <1>5, <1>6, <1>7, <1>8, <1>9, <1>10, <1>11, <1>12 DEF Next, BootFails, Crash, Exit, Startup,
     StartupStep, StartupFails

\* The only replica is ready only on the schema the code expects, whatever
\* database the runner met, wherever its attempts failed and its processes were
\* killed, and whether or not it heard of its commits.
THEOREM ReadyMeansMigratedHolds ==
  ASSUME NEW r, Replicas = {r}
  PROVE  Spec => []ReadyMeansMigrated
<1>1. Init => MigrationInv(r)
  BY MigrationInit
<1>2. TypeOK /\ MigrationInv(r) /\ [Next]_vars => MigrationInv(r)'
  BY MigrationStep
<1>3. MigrationInv(r) => ReadyMeansMigrated
  <2>1. SUFFICES ASSUME StampedTo(r, 6) PROVE schema = FinalSchema /\ stamped = Migrations
    BY DEF MigrationInv, StampedTo, ReadyMeansMigrated
  <2>2. schema = Final
    <3>1. schema \in SUBSET Features /\ "cohesion" \notin schema /\ "degree" \notin schema
      BY <2>1 DEF StampedTo, SchemaAt
    <3>2. /\ "tables" \in schema /\ "symbols" \in schema /\ "graphify" \in schema
          /\ "semantic" \in schema /\ "pkey" \in schema /\ "float8" \in schema
      BY <2>1 DEF StampedTo, SchemaAt
    <3>3. QED
      BY <3>1, <3>2 DEF Final, Features
  <2>3. QED
    BY <2>1, <2>2, FinalSchemaIs DEF StampedTo, Migrations
<1>4. QED
  BY <1>1, <1>2, <1>3, TypeOKHolds, PTL DEF Spec

\* With one replica no migration's SQL is committed twice, and none at all on a
\* database that had every migration before there was a tracker.
THEOREM NeverReplayedHolds ==
  ASSUME NEW r, Replicas = {r}
  PROVE  Spec => []NeverReplayed
<1>1. Init => MigrationInv(r)
  BY MigrationInit
<1>2. TypeOK /\ MigrationInv(r) /\ [Next]_vars => MigrationInv(r)'
  BY MigrationStep
<1>3. MigrationInv(r) => NeverReplayed
  BY FinalSchemaIs DEF MigrationInv, StampedTo, NeverReplayed
<1>4. QED
  BY <1>1, <1>2, <1>3, TypeOKHolds, PTL DEF Spec
=============================================================================
