-------------------------------- MODULE App --------------------------------
(***************************************************************************)
(* The life of a process (cmd/tatara-memory): run wires the components,     *)
(* listens and serves; the database is awaited and migrated by a goroutine  *)
(* of its own (PgMigrate); a signal or a serve error starts shutdown, which *)
(* cancels the background work, waits for the startup goroutine, drains the *)
(* HTTP server, both within one budget, stops the ingest pool and closes    *)
(* the database.  The kubelet starts the next process.                      *)
(*                                                                          *)
(* Requests and ingest items are known by whether they are under way; what  *)
(* they do is in Requests and IngestPool.  Nobody waits for the reaper and  *)
(* the analytics worker, which MemoryStore and CodeGraphAnalytics model.    *)
(***************************************************************************)
EXTENDS PgMigrate

CONSTANTS
    MaxRequests,   \* bound on the requests under way at once
    MaxBoots       \* bound on the processes started

ASSUME AppAssumption == MaxRequests \in Nat /\ MaxBoots \in Nat

VARIABLES
    stage,      \* where run is in the process of a replica
    startup,    \* the goroutine of awaitDatabase: none, running or ended (startupDone)
    limited,    \* DB_WAIT_TIMEOUT is positive
    capped,     \* shutdownCtx is done
    requests,   \* requests under way
    working,    \* an ingest worker is inside an item
    dbOpen,     \* db.Close was not called yet
    boots

process == <<stage, startup, limited, capped, requests, working, dbOpen, boots>>
vars    == <<startupVars, process>>

\* The stages of shutdown, in order.
Shutdown == {"awaitStartup", "drain", "stopPool", "closed"}
Alive    == {"wiring", "wired", "serving"} \cup Shutdown

Init ==
    /\ StartupInit
    /\ stage    = [r \in Replicas |-> "down"]
    /\ startup  = [r \in Replicas |-> "none"]
    /\ limited  \in [Replicas -> BOOLEAN]
    /\ capped   = [r \in Replicas |-> FALSE]
    /\ requests = [r \in Replicas |-> 0]
    /\ working  = [r \in Replicas |-> FALSE]
    /\ dbOpen   = [r \in Replicas |-> FALSE]
    /\ boots    = 0

GoTo(r, s) == stage' = [stage EXCEPT ![r] = s]

-----------------------------------------------------------------------------
(* run up to serving.                                                       *)

\* The handle is opened (no connection yet), the ingest pool and the
\* analytics worker are started.
Wire(r) ==
    /\ stage[r] = "down"
    /\ boots < MaxBoots
    /\ boots' = boots + 1
    /\ GoTo(r, "wiring")
    /\ dbOpen' = [dbOpen EXCEPT ![r] = TRUE]
    /\ UNCHANGED <<startupVars, startup, limited, capped, requests, working>>

\* The verifier was built; the reaper and awaitDatabase are started.
Wired(r) ==
    /\ stage[r] = "wiring"
    /\ GoTo(r, "wired")
    /\ startup' = [startup EXCEPT ![r] = "running"]
    /\ UNCHANGED <<startupVars, limited, capped, requests, working, dbOpen, boots>>

Listen(r) ==
    /\ stage[r] = "wired"
    /\ GoTo(r, "serving")
    /\ UNCHANGED <<startupVars, startup, limited, capped, requests, working, dbOpen, boots>>

\* The process is gone, with everything that is not in the database.
Gone(r) ==
    /\ GoTo(r, "down")
    /\ startup'  = [startup EXCEPT ![r] = "none"]
    /\ capped'   = [capped EXCEPT ![r] = FALSE]
    /\ requests' = [requests EXCEPT ![r] = 0]
    /\ working'  = [working EXCEPT ![r] = FALSE]
    /\ dbOpen'   = [dbOpen EXCEPT ![r] = FALSE]
    /\ pc'       = [pc EXCEPT ![r] = "attempt"]
    /\ ready'    = [ready EXCEPT ![r] = FALSE]
    /\ UNCHANGED <<schema, stamped, executed, legacy, at, baselining, execute, limited, boots>>

\* NewVerifier or newListener fails and run returns without shutdown.
BootFails(r) ==
    /\ stage[r] \in {"wiring", "wired"}
    /\ Gone(r)
    /\ UNCHANGED faults

\* The process is killed.
Crash(r) ==
    /\ stage[r] \in Alive
    /\ faults < MaxFaults
    /\ faults' = faults + 1
    /\ Gone(r)

-----------------------------------------------------------------------------
(* The startup goroutine.                                                   *)

Running(r) == startup[r] = "running"

\* startupCancel was called.
Cancelled(r) == stage[r] \in Shutdown

\* A step of startupAttempt.  No attempt gets past the ping once its context
\* is cancelled.
Startup(r) ==
    /\ Running(r)
    /\ StartupStep(r)
    /\ pc[r] = "attempt" => ~Cancelled(r)
    /\ startup' = IF ready'[r] THEN [startup EXCEPT ![r] = "ended"] ELSE startup
    /\ UNCHANGED <<stage, limited, capped, requests, working, dbOpen, boots>>

\* A failed attempt is repeated, unless the wait is over; the process stays.
StartupFails(r) ==
    /\ Running(r)
    /\ Fail(r) \/ CommitLost(r)
    /\ \/ UNCHANGED startup
       \/ limited[r] /\ startup' = [startup EXCEPT ![r] = "ended"]
    /\ UNCHANGED <<stage, limited, capped, requests, working, dbOpen, boots>>

\* The cancelled context fails the call at hand, and waitForDB returns.  A
\* cancelled Resume is logged only, and the gate still opens.
StartupEnds(r) ==
    /\ Running(r)
    /\ Cancelled(r)
    /\ pc[r] \notin {"migrated", "ready"}
    /\ pc' = [pc EXCEPT ![r] = "attempt"]
    /\ startup' = [startup EXCEPT ![r] = "ended"]
    /\ UNCHANGED <<schema, stamped, executed, legacy, at, baselining, execute, ready, faults,
                   stage, limited, capped, requests, working, dbOpen, boots>>

-----------------------------------------------------------------------------
(* The work of the components.                                              *)

\* The listener is open until server.Shutdown: requests still come in while
\* shutdown waits for the startup goroutine.
Listening(r) == stage[r] \in {"serving", "awaitStartup"}

Request(r) ==
    /\ \/ /\ Listening(r)
          /\ requests[r] < MaxRequests
          /\ requests' = [requests EXCEPT ![r] = @ + 1]
       \/ /\ requests[r] > 0
          /\ requests' = [requests EXCEPT ![r] = @ - 1]
    /\ UNCHANGED <<startupVars, stage, startup, limited, capped, working, dbOpen, boots>>

\* Workers look at the stop channel between items.
TakeItem(r) ==
    /\ stage[r] \in Alive \ {"stopPool", "closed"}
    /\ ~working[r]
    /\ working' = [working EXCEPT ![r] = TRUE]
    /\ UNCHANGED <<startupVars, stage, startup, limited, capped, requests, dbOpen, boots>>

\* The item settles, by the item timeout at the latest.
FinishItem(r) ==
    /\ working[r]
    /\ working' = [working EXCEPT ![r] = FALSE]
    /\ UNCHANGED <<startupVars, stage, startup, limited, capped, requests, dbOpen, boots>>

-----------------------------------------------------------------------------
(* shutdown.                                                                *)

\* A signal, or Serve's error: the background work and the startup wait are
\* cancelled, not awaited.
Signal(r) ==
    /\ stage[r] = "serving"
    /\ GoTo(r, "awaitStartup")
    /\ UNCHANGED <<startupVars, startup, limited, capped, requests, working, dbOpen, boots>>

\* The 30 s of shutdownCtx are over.
Cap(r) ==
    /\ stage[r] \in {"awaitStartup", "drain"}
    /\ ~capped[r]
    /\ capped' = [capped EXCEPT ![r] = TRUE]
    /\ UNCHANGED <<startupVars, stage, startup, limited, requests, working, dbOpen, boots>>

\* Seeded fault: startupDone is awaited without the budget.
StartupAwaited_NoCap(r) == startup[r] = "ended"

\* startupDone is closed, or the budget is used up.
StartupAwaited(r) == startup[r] = "ended" \/ capped[r]

\* Seeded fault: the server is closed instead of drained.
Drained_Closed(r) == TRUE

\* No connection is active, or the budget is used up.
Drained(r) == requests[r] = 0 \/ capped[r]

\* pool.Stop: every worker is out of its item, however long that takes.
PoolStopped(r) == ~working[r]

ShutdownStep(r) ==
    /\ \/ stage[r] = "awaitStartup" /\ StartupAwaited(r) /\ GoTo(r, "drain") /\ UNCHANGED dbOpen
       \/ stage[r] = "drain" /\ Drained(r) /\ GoTo(r, "stopPool") /\ UNCHANGED dbOpen
       \/ /\ stage[r] = "stopPool"
          /\ PoolStopped(r)
          /\ GoTo(r, "closed")
          /\ dbOpen' = [dbOpen EXCEPT ![r] = FALSE]
    /\ UNCHANGED <<startupVars, startup, limited, capped, requests, working, boots>>

\* main returns, and every goroutine ends with it.
Exit(r) == stage[r] = "closed" /\ Gone(r) /\ UNCHANGED faults

-----------------------------------------------------------------------------
Next ==
    \E r \in Replicas :
        \/ Wire(r) \/ Wired(r) \/ Listen(r) \/ BootFails(r) \/ Crash(r)
        \/ Startup(r) \/ StartupFails(r) \/ StartupEnds(r)
        \/ Request(r) \/ TakeItem(r) \/ FinishItem(r)
        \/ Signal(r) \/ Cap(r) \/ ShutdownStep(r) \/ Exit(r)

Spec == Init /\ [][Next]_vars

\* The goroutines run, the shutdown timer fires and items time out.  Nothing
\* is assumed of requests or of how soon a cancelled startup call returns.
FairSpec ==
    /\ Spec
    /\ \A r \in Replicas :
        /\ WF_vars(Startup(r))
        /\ WF_vars(Cap(r))
        /\ WF_vars(FinishItem(r))
        /\ WF_vars(ShutdownStep(r))
        /\ WF_vars(Exit(r))

-----------------------------------------------------------------------------
(* Properties.                                                              *)

\* Every variable holds a value of its kind.
TypeOK ==
    /\ StartupTypeOK
    /\ stage    \in [Replicas -> {"down"} \cup Alive]
    /\ startup  \in [Replicas -> {"none", "running", "ended"}]
    /\ limited  \in [Replicas -> BOOLEAN]
    /\ capped   \in [Replicas -> BOOLEAN]
    /\ requests \in [Replicas -> 0..MaxRequests]
    /\ working  \in [Replicas -> BOOLEAN]
    /\ dbOpen   \in [Replicas -> BOOLEAN]
    /\ boots    \in 0..MaxBoots

\* The database handle is closed under nobody who was to be waited for: not
\* under an ingest item, and under the startup attempt or a request only when
\* shutdown's budget is used up (the order of app.shutdown).
DbClosedLast ==
    \A r \in Replicas : stage[r] \in Alive /\ ~dbOpen[r] =>
        /\ ~working[r]
        /\ Running(r) \/ requests[r] > 0 => capped[r]

\* Shutdown ends although requests or the startup attempt never do.
ShutdownEnds == \A r \in Replicas : stage[r] \in Shutdown ~> stage[r] = "down"

\* A process that serves becomes ready, whatever failed before, unless it is
\* stopped or killed or its DB_WAIT_TIMEOUT is bounded (#102: a database
\* outage is no reason to terminate and no reason to stay unready).
StartupSettles ==
    \A r \in Replicas : stage[r] = "serving" /\ ~limited[r] ~> ready[r] \/ stage[r] # "serving"
=============================================================================
