----------------------------- MODULE PgMigrate -----------------------------
(***************************************************************************)
(* Startup (cmd/tatara-memory/startup.go) and the migration runner          *)
(* (internal/pgmigrate) on the code graph's six migrations.  A replica      *)
(* pings Postgres, runs the migrations one transaction each, and reports    *)
(* itself ready; an attempt that fails anywhere is repeated as a whole.     *)
(*                                                                          *)
(* The module has the steps of one startup goroutine; App gives each of      *)
(* them its place in the life of a process.                                 *)
(*                                                                          *)
(* The schema is the set of features the migrations add and drop and the    *)
(* baseline probes look at.  The database at hand may be empty, or have     *)
(* been left by the runner that had no tracker and replayed every           *)
(* migration on every boot, interrupted anywhere.                           *)
(***************************************************************************)
EXTENDS Naturals, FiniteSets

CONSTANTS
    Replicas,    \* processes that run startup against one database
    MaxFaults    \* bound on failing calls and restarts

ASSUME MigrateAssumption == MaxFaults \in Nat

Migrations == 1..6

Features == {"tables", "symbols", "graphify", "cohesion", "degree", "semantic", "pkey", "float8"}

\* What each migration file adds: 0001 the entity and edge tables, 0002 the
\* symbol table, 0003 hyperedges, community and three analytics columns, 0004
\* extractor and the semantic tables, 0005 the key with the extractor, 0006
\* the widened betweenness.
Adds == <<{"tables"}, {"symbols"}, {"graphify", "cohesion", "degree"},
          {"semantic"}, {"pkey"}, {"float8"}>>

Drops == <<{}, {}, {}, {}, {"cohesion"}, {"degree"}>>

\* One migration file: IF NOT EXISTS and IF EXISTS throughout, and 0005's key
\* is dropped and added again.
Exec(S, m) == (S \ Drops[m]) \cup Adds[m]

\* The schema after the first k migration files were executed on S.
Migrated(S, k) ==
    LET f[i \in 0..6] == IF i = 0 THEN S ELSE Exec(f[i - 1], i) IN f[k]

FinalSchema == Migrated({}, 6)

\* Seeded fault: 0005's probe only looks whether the table has a key.
AlreadyApplied_AnyKey(S, m) ==
    IF m = 5 THEN "tables" \in S ELSE Adds[m] \ {"cohesion", "degree"} \subseteq S

\* The baseline probe of migration m: its own end state.
AlreadyApplied(S, m) ==
    /\ Adds[m] \ {"cohesion", "degree"} \subseteq S
    /\ Drops[m] \cap S = {}

\* Databases the runner may meet that have no tracker rows.
Legacy == {Migrated(S, k) : S \in {{}, FinalSchema}, k \in 0..6}

VARIABLES
    schema,      \* the database's features
    stamped,     \* the tracker table
    executed,    \* how often each migration's SQL was committed: 0, 1 or 2 (= more)
    legacy,      \* the schema the runner met first
    pc,          \* program counter of each replica
    at,          \* the migration it is at
    baselining,  \* no migration had to execute yet in this Run
    execute,     \* the decision taken in the open transaction
    ready,       \* the startup gate is closed for good: /readyz says yes
    faults

replica == <<pc, at, baselining, execute, ready>>
startupVars == <<schema, stamped, executed, legacy, replica, faults>>

StartupInit ==
    /\ schema     \in Legacy
    /\ legacy     = schema
    /\ stamped    = {}
    /\ executed   = [m \in Migrations |-> 0]
    /\ pc         = [r \in Replicas |-> "attempt"]
    /\ at         = [r \in Replicas |-> 1]
    /\ baselining = [r \in Replicas |-> TRUE]
    /\ execute    = [r \in Replicas |-> FALSE]
    /\ ready      = [r \in Replicas |-> FALSE]
    /\ faults     = 0

\* One startupAttempt begins: the ping succeeded and Run starts afresh.
Attempt(r) ==
    /\ pc[r] = "attempt"
    /\ pc' = [pc EXCEPT ![r] = "check"]
    /\ at' = [at EXCEPT ![r] = 1]
    /\ baselining' = [baselining EXCEPT ![r] = TRUE]
    /\ UNCHANGED <<schema, stamped, executed, legacy, execute, ready, faults>>

\* The loop over the migrations goes on, or Run returns.
Advance(r) ==
    /\ pc' = [pc EXCEPT ![r] = IF at[r] = 6 THEN "migrated" ELSE "check"]
    /\ at' = [at EXCEPT ![r] = IF at[r] = 6 THEN 6 ELSE at[r] + 1]

\* Seeded fault: a tracker row ends baselining.
Skip_EndsBaselining(r) ==
    /\ Advance(r)
    /\ baselining' = [baselining EXCEPT ![r] = FALSE]

\* A migration with a tracker row is skipped; baselining goes on.
Skip(r) == Advance(r) /\ UNCHANGED baselining

Applied(r) ==
    /\ pc[r] = "check"
    /\ \/ at[r] \in stamped /\ Skip(r)
       \/ /\ at[r] \notin stamped
          /\ pc' = [pc EXCEPT ![r] = "probe"]
          /\ UNCHANGED <<at, baselining>>
    /\ UNCHANGED <<schema, stamped, executed, legacy, execute, ready, faults>>

\* apply: the transaction is open; the probe decides while baselining.
Probe(r) ==
    /\ pc[r] = "probe"
    /\ execute' = [execute EXCEPT ![r] = ~(baselining[r] /\ AlreadyApplied(schema, at[r]))]
    /\ pc' = [pc EXCEPT ![r] = "commit"]
    /\ UNCHANGED <<schema, stamped, executed, legacy, at, baselining, ready, faults>>

\* The SQL, if it must execute, and the stamp commit together.
Commit(r) ==
    /\ pc[r] = "commit"
    /\ schema' = IF execute[r] THEN Exec(schema, at[r]) ELSE schema
    /\ executed' = IF execute[r]
                   THEN [executed EXCEPT ![at[r]] = IF @ < 2 THEN @ + 1 ELSE 2]
                   ELSE executed
    /\ stamped' = stamped \cup {at[r]}
    /\ baselining' = [baselining EXCEPT ![r] = @ /\ ~execute[r]]
    /\ Advance(r)
    /\ UNCHANGED <<legacy, execute, ready, faults>>

\* Seeded fault: a failed attempt is the last one.
Fail_GivesUp(r) ==
    /\ pc[r] \notin {"migrated", "ready"}
    /\ faults < MaxFaults
    /\ faults' = faults + 1
    /\ pc' = [pc EXCEPT ![r] = "gave up"]
    /\ UNCHANGED <<schema, stamped, executed, legacy, at, baselining, execute, ready>>

\* A call fails, the ping or one of a transaction that rolls back: the next
\* attempt starts from the ping.  Resume's failure is not one of them.
Fail(r) ==
    /\ pc[r] \notin {"migrated", "ready"}
    /\ faults < MaxFaults
    /\ faults' = faults + 1
    /\ pc' = [pc EXCEPT ![r] = "attempt"]
    /\ UNCHANGED <<schema, stamped, executed, legacy, at, baselining, execute, ready>>

\* The commit was applied but its answer was lost.
CommitLost(r) ==
    /\ pc[r] = "commit"
    /\ faults < MaxFaults
    /\ faults' = faults + 1
    /\ schema' = IF execute[r] THEN Exec(schema, at[r]) ELSE schema
    /\ executed' = IF execute[r]
                   THEN [executed EXCEPT ![at[r]] = IF @ < 2 THEN @ + 1 ELSE 2]
                   ELSE executed
    /\ stamped' = stamped \cup {at[r]}
    /\ pc' = [pc EXCEPT ![r] = "attempt"]
    /\ UNCHANGED <<legacy, at, baselining, execute, ready>>

\* Resume is best effort and the gate opens.
MarkReady(r) ==
    /\ pc[r] = "migrated"
    /\ pc' = [pc EXCEPT ![r] = "ready"]
    /\ ready' = [ready EXCEPT ![r] = TRUE]
    /\ UNCHANGED <<schema, stamped, executed, legacy, at, baselining, execute, faults>>

StartupStep(r) == Attempt(r) \/ Applied(r) \/ Probe(r) \/ Commit(r) \/ MarkReady(r)

-----------------------------------------------------------------------------
(* Properties.                                                              *)

\* Every variable holds a value of its kind.
StartupTypeOK ==
    /\ schema \subseteq Features
    /\ legacy \subseteq Features
    /\ stamped \subseteq Migrations
    /\ executed \in [Migrations -> 0..2]
    /\ pc \in [Replicas -> {"attempt", "check", "probe", "commit", "migrated", "ready"}]
    /\ at \in [Replicas -> Migrations]
    /\ baselining \in [Replicas -> BOOLEAN]
    /\ execute \in [Replicas -> BOOLEAN]
    /\ ready \in [Replicas -> BOOLEAN]
    /\ faults \in 0..MaxFaults

\* A replica is ready only on the schema the code expects, whatever database
\* the runner met and wherever its attempts were cut off.
ReadyMeansMigrated ==
    \A r \in Replicas : ready[r] => schema = FinalSchema /\ stamped = Migrations

\* "The statement is never re-run": no migration's SQL is committed twice, and
\* none at all on a database that had every migration before the tracker.
NeverReplayed ==
    \A m \in Migrations :
        /\ executed[m] <= 1
        /\ legacy = FinalSchema => executed[m] = 0
=============================================================================
