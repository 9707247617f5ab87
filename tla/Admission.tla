----------------------------- MODULE Admission -----------------------------
(***************************************************************************)
(* Admission control (internal/httpapi/admission.go) and the Postgres pool  *)
(* it protects.  Each bulk class has a limiter: a channel of slots, a queue *)
(* bounded in time, 429 for who waits too long.  Bulk requests, ingest      *)
(* workers and analytics runs hold at most one pooled connection each, for  *)
(* as long as they like; reads take what is left.  The configuration is any *)
(* that Config.validate accepts.                                            *)
(***************************************************************************)
EXTENDS Naturals, FiniteSets

CONSTANTS
    MemBulk,      \* clients of POST /memories:bulk
    GraphBulk,    \* clients of POST /code-graph:bulk
    Readers,      \* clients of the routes without a limiter
    Background,   \* ingest workers and analytics runs
    MaxBudget,    \* bound on the budgets of the configurations tried
    MaxConns      \* bound on their db-max-open-conns

ASSUME AdmissionAssumption ==
    /\ IsFiniteSet(MemBulk) /\ IsFiniteSet(GraphBulk)
    /\ IsFiniteSet(Readers) /\ IsFiniteSet(Background)
    /\ MaxBudget \in Nat
    /\ MaxConns \in Nat

Bulk    == MemBulk \cup GraphBulk
Clients == Bulk \cup Readers
Actors  == Clients \cup Background

VARIABLES
    cfg,     \* the configuration: both budgets and db-max-open-conns
    phase,   \* idle, queued for a slot, running, or running with a connection
    slots    \* slots taken, per bulk class

vars == <<cfg, phase, slots>>

\* Seeded fault: a budget that takes the whole pool is accepted.
validate_WholePool(c) ==
    c.mem > 0 /\ c.graph > 0 =>
        c.mem + c.graph + Cardinality(Background) <= c.conns

\* Config.validate: the budgets, the workers and the analytics runs together
\* leave a connection free; a disabled class (0) switches the check off.
validate(c) ==
    c.mem > 0 /\ c.graph > 0 =>
        c.mem + c.graph + Cardinality(Background) < c.conns

Configs == [mem : 0..MaxBudget, graph : 0..MaxBudget, conns : 1..MaxConns]

Init ==
    /\ cfg \in {c \in Configs : validate(c)}
    /\ phase = [a \in Actors |-> "idle"]
    /\ slots = [mem |-> 0, graph |-> 0]

Class(a)    == IF a \in MemBulk THEN "mem" ELSE "graph"
Limited(a)  == a \in Bulk /\ cfg[Class(a)] > 0

SlotFree(a) == slots[Class(a)] < cfg[Class(a)]

Go(a, label) == phase' = [phase EXCEPT ![a] = label]

InPhase(label) == {a \in Actors : phase[a] = label}
Free           == Cardinality(InPhase("conn")) < cfg.conns

\* A request without a limiter, or a background task, starts.
Start(a) ==
    /\ phase[a] = "idle"
    /\ ~Limited(a)
    /\ Go(a, "running")
    /\ UNCHANGED <<cfg, slots>>

\* Middleware: take a slot at once, or queue for one.
Arrive(a) ==
    /\ phase[a] = "idle"
    /\ Limited(a)
    /\ \/ /\ SlotFree(a)
          /\ slots' = [slots EXCEPT ![Class(a)] = @ + 1]
          /\ Go(a, "running")
       \/ ~SlotFree(a) /\ Go(a, "queued") /\ UNCHANGED slots
    /\ UNCHANGED cfg

\* queue: a slot came free in time.
Admit(a) ==
    /\ phase[a] = "queued"
    /\ SlotFree(a)
    /\ slots' = [slots EXCEPT ![Class(a)] = @ + 1]
    /\ Go(a, "running")
    /\ UNCHANGED cfg

\* Seeded fault: a shed request gives back a slot it never had.
Shed_Releases(a) ==
    /\ phase[a] = "queued"
    /\ Go(a, "idle")
    /\ slots' = [slots EXCEPT ![Class(a)] = @ - 1]
    /\ UNCHANGED cfg

\* queue: the wait is over (429) or the client left (499).
Shed(a) ==
    /\ phase[a] = "queued"
    /\ Go(a, "idle")
    /\ UNCHANGED <<cfg, slots>>

\* database/sql hands a free connection to any of those that wait.
GetConn(a) ==
    /\ phase[a] = "running"
    /\ Free
    /\ Go(a, "conn")
    /\ UNCHANGED <<cfg, slots>>

ReleaseConn(a) ==
    /\ phase[a] = "conn"
    /\ Go(a, "running")
    /\ UNCHANGED <<cfg, slots>>

\* The handler returns or panics: deferred calls roll back and give back the slot.
Finish(a) ==
    /\ phase[a] \in {"running", "conn"}
    /\ Go(a, "idle")
    /\ slots' = IF Limited(a) THEN [slots EXCEPT ![Class(a)] = @ - 1] ELSE slots
    /\ UNCHANGED cfg

Next ==
    \E a \in Actors :
        \/ Start(a) \/ Arrive(a) \/ Admit(a) \/ Shed(a)
        \/ GetConn(a) \/ ReleaseConn(a) \/ Finish(a)

Spec == Init /\ [][Next]_vars

(***************************************************************************)
(* Reads end, and one that keeps finding a free connection gets it, because *)
(* the pool picks among the waiting at random.  A queued request's timer    *)
(* fires.  Bulk requests and background tasks may hold on forever.          *)
(***************************************************************************)
FairSpec ==
    /\ Spec
    /\ \A a \in Readers : SF_vars(GetConn(a)) /\ WF_vars(phase[a] = "conn" /\ (ReleaseConn(a) \/ Finish(a)))
    /\ \A a \in Bulk : WF_vars(Shed(a))

-----------------------------------------------------------------------------
(* Properties.                                                              *)

\* Every variable holds a value of its kind and no class exceeds its budget.
TypeOK ==
    /\ cfg \in Configs
    /\ phase \in [Actors -> {"idle", "queued", "running", "conn"}]
    /\ slots.mem \in 0..cfg.mem
    /\ slots.graph \in 0..cfg.graph

Budgeted == cfg.mem > 0 /\ cfg.graph > 0

\* "Bounding each bulk class below the pool size guarantees the rest of the
\* service keeps connections": bulk and background work never holds them all.
PoolHeadroom ==
    Budgeted => Cardinality(InPhase("conn") \ Readers) < cfg.conns

\* With budgets on, a read that asks for a connection gets one in the end,
\* even if every bulk request and background task keeps its own forever.
ReadsServed ==
    \A a \in Readers : Budgeted /\ phase[a] = "running" ~> phase[a] # "running"
=============================================================================
