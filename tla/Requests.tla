------------------------------ MODULE Requests ------------------------------
(***************************************************************************)
(* A request on its way through the service: authentication, the checks of  *)
(* HttpInput, the calls of the memory service (internal/memory/service.go), *)
(* of the job store and of the code graph, one after the other, and the     *)
(* status their outcome is answered with (internal/httpapi/errmap.go).      *)
(* Calls to LightRAG are those of LightragClient; the database answers or   *)
(* fails.  What the calls leave behind in the databases is the matter of    *)
(* MemoryStore, IngestPool and CodeGraphStore.                              *)
(***************************************************************************)
EXTENDS LightragClient, HttpInput, Sequences

CONSTANT PurgeBudget   \* DefaultPurgeBudget

ASSUME RequestAssumption == PurgeBudget \in Nat

VARIABLE req

vars == <<req, call, lock>>

\* One file's memories: read the index, find the documents, hide them, delete
\* them, clear the index.
PurgeFile == <<"track_ids", "track_status", "mark", "delete_docs", "unindex">>

\* The calls of memories.go's and ingest.go's routes.
MemoryPlans ==
    [createMemory |-> <<"insert">>,
     getMemory    |-> <<"is_deleted", "track_status">>,
     deleteMemory |-> <<"track_status", "mark", "delete_docs">>,
     bulk         |-> PurgeFile \o PurgeFile \o <<"create_job">>]

\* An answer is stripped of tombstoned documents.
QueryPlans ==
    [query |-> <<"query", "filter">>, describe |-> <<"query", "filter">>,
     queryData |-> <<"query_data", "filter">>]

\* ListEdges asks for the graph of every label it finds.
GraphPlans ==
    [getEntity |-> <<"graph">>, searchEntities |-> <<"label_search">>,
     patchEntity |-> <<"update_entity">>, listEdges |-> <<"label_search", "graph", "graph">>,
     createEdge |-> <<"create_relation">>, deleteEdge |-> <<"delete_relation">>]

\* Every other route asks the database once.
Plan(route) ==
    CASE route \in DOMAIN MemoryPlans -> MemoryPlans[route]
      [] route \in DOMAIN QueryPlans  -> QueryPlans[route]
      [] route \in DOMAIN GraphPlans  -> GraphPlans[route]
      [] OTHER                        -> <<route>>

\* late: the server's write deadline has passed.  did, there, skipped and
\* unclear are history, sets of steps: LightRAG did it; LightRAG said that it
\* has it; it was passed over; its answer was lost or of no use.
NoRequest ==
    [pc |-> "idle", route |-> "none", step |-> 0, status |-> 0, retryAfter |-> FALSE,
     bounds |-> [limit |-> 0, depth |-> 0, confidence |-> ""], cause |-> "none",
     items |-> TRUE, late |-> FALSE, did |-> {}, there |-> {}, skipped |-> {}, unclear |-> {}]

Init == req = NoRequest /\ call = NoCall /\ lock = FALSE

Respond(r, status, retryAfter) ==
    [r EXCEPT !.pc = "answered", !.status = status, !.retryAfter = retryAfter]

-----------------------------------------------------------------------------
(* Errors.  An error is the set of things errors.Is and errors.As find in   *)
(* it.                                                                      *)

\* Seeded fault: a deadline in a call is an unexpected error.
wrapUpstream_DeadlineIsUpstream(result) ==
    CASE result \in {"busy", "http429"}             -> {"ErrBusy"}
      [] result = "http404"                         -> {"ErrNotFound"}
      [] result \in {"http5xx", "canceled"}         -> {"ErrTransient"}
      [] OTHER                                      -> {"ErrUpstream"}

\* What the service makes of an error of the client.
wrapUpstream(result) ==
    CASE result \in {"busy", "http429", "deadline"} -> {"ErrBusy"}
      [] result = "http404"                         -> {"ErrNotFound"}
      [] result \in {"http5xx", "canceled"}         -> {"ErrTransient"}
      [] OTHER                                      -> {"ErrUpstream"}

\* An error of the database that is about the statement is never about the
\* connection; "bad_conn" stands for the SQLSTATEs of the connection too.
isDBUnavailable(err) == "bad_conn" \in err \/ ("net_error" \in err /\ "sqlstate" \notin err)

\* The switch of mapServiceError: the first case that matches.
mapServiceError(r, err) ==
    LET has(E) == err \cap E # {} IN
    IF has({"ErrEntityNotFound"}) THEN Respond(r, 404, FALSE)
    ELSE IF has({"ErrInvalidScope", "ErrInvalid"}) THEN Respond(r, 400, FALSE)
    ELSE IF has({"ErrNotFound"}) THEN Respond(r, 404, FALSE)
    ELSE IF has({"ErrBusy", "DeadlineExceeded", "lock_not_available"}) THEN Respond(r, 429, TRUE)
    ELSE IF has({"ErrTransient"}) \/ isDBUnavailable(err) THEN Respond(r, 503, TRUE)
    ELSE IF has({"Canceled"}) THEN Respond(r, 499, FALSE)
    ELSE IF has({"ErrUpstream"}) THEN Respond(r, 502, FALSE)
    ELSE IF has({"ErrDuplicateKey"}) THEN Respond(r, 400, FALSE)
    ELSE Respond(r, 500, FALSE)

\* How a call to the database fails: context.DeadlineExceeded is a net.Error.
DbErrors(step) ==
    {{"DeadlineExceeded", "net_error"}, {"Canceled"}, {"Canceled", "net_error"}, {"bad_conn"}, {"net_error"},
     {"sqlstate", "lock_not_available"}, {"sqlstate"}}
    \cup (IF step \in {"entity", "hyperedge", "explain"} THEN {{"ErrEntityNotFound"}} ELSE {})
    \cup (IF step \in {"getJob", "is_deleted"} THEN {{"ErrNotFound"}} ELSE {})
    \cup (IF step = "push" THEN {{"ErrInvalidScope"}} ELSE {})
    \cup (IF step = "create_job" THEN {{"ErrDuplicateKey"}} ELSE {})

-----------------------------------------------------------------------------
(* The steps of a request.                                                  *)

Step == Plan(req.route)[req.step]

IsRag(step) == step \in Mutations \cup Reads

\* The purge is bounded as a whole; creating the job is not part of it.
InPurge(r) == r.route = "bulk" /\ Plan(r.route)[r.step] # "create_job"

SuccessStatus(r) ==
    CASE r.route \in {"createMemory", "createEdge"} -> 201
      [] r.route = "bulk" /\ r.items -> 202
      [] r.route \in {"deleteMemory", "deleteEdge"} -> 204
      [] OTHER -> 200

\* Step n of the plan, or the answer if there is none.
GoTo(r, n) ==
    LET s == [r EXCEPT !.step = n]
        last == n > Len(Plan(r.route)) \/ (Plan(r.route)[n] = "create_job" /\ ~r.items)
        rag == ~last /\ IsRag(Plan(r.route)[n])
    IN /\ req' = IF last THEN Respond(r, SuccessStatus(r), FALSE)
                 ELSE [s EXCEPT !.pc = IF rag THEN "rag" ELSE "db"]
       /\ call' = IF rag THEN Begin(Plan(r.route)[n])
                  ELSE IF last \/ InPurge(s) THEN call ELSE [NoCall EXCEPT !.cancelled = call.cancelled]

Skip(r, n) == [r EXCEPT !.skipped = @ \cup (r.step..(r.step + n - 1))]

\* bearerToken and Verify, then the handler's checks, then the first call.  A
\* purge gets its deadline.
Arrive(route, token, q) ==
    LET r == [NoRequest EXCEPT !.route = route]
        s == [r EXCEPT !.step = 1, !.bounds = Bounds(route, q),
                       !.items = (route # "bulk" \/ q["items"] # "")]
        first == IF route = "bulk" /\ q["reconcile_files"] = "" THEN Len(Plan(route)) ELSE 1
    IN /\ req.pc = "idle"
       /\ \/ /\ token # "good"
             /\ req' = Respond(r, 401, FALSE)
             /\ UNCHANGED <<call, lock>>
          \/ /\ token = "good"
             /\ ~Accepts(route, q)
             /\ req' = Respond(r, 400, FALSE)
             /\ UNCHANGED <<call, lock>>
          \/ /\ token = "good"
             /\ Accepts(route, q)
             /\ IF IsRag(Plan(route)[first])
                THEN req' = [s EXCEPT !.pc = "rag"] /\ call' = Begin(Plan(route)[first])
                ELSE /\ req' = [Skip(s, first - 1) EXCEPT !.pc = "db", !.step = first]
                     /\ call' = IF route = "bulk" /\ first = 1
                                THEN [NoCall EXCEPT !.own = TRUE, !.left = PurgeBudget] ELSE NoCall
             /\ UNCHANGED lock

\* A file may have no memories.
DbOk ==
    /\ req.pc = "db"
    /\ \/ GoTo(req, req.step + 1)
       \/ Step = "track_ids" /\ GoTo(Skip(req, 4), req.step + 4)
    /\ UNCHANGED lock

\* A tombstone that cannot be read hides nothing.
DbFailed ==
    /\ req.pc = "db"
    /\ \E err \in DbErrors(Step) :
         /\ "Canceled" \in err => call.cancelled
         /\ IF Step = "filter" THEN GoTo(req, req.step + 1)
            ELSE /\ req' = mapServiceError([req EXCEPT !.cause =
                            IF err \cap {"DeadlineExceeded", "lock_not_available"} # {} THEN "saturated" ELSE "other"], err)
                 /\ UNCHANGED call
    /\ UNCHANGED lock

\* Time a purge spends in the database counts, and ends the query in time.
DbTick ==
    /\ req.pc = "db"
    /\ call.own
    /\ call.left > 0
    /\ call' = [call EXCEPT !.left = @ - 1]
    /\ UNCHANGED <<req, lock>>

DbCancel ==
    /\ req.pc = "db"
    /\ ~call.cancelled
    /\ call' = [call EXCEPT !.cancelled = TRUE]
    /\ UNCHANGED <<req, lock>>

\* "idempotent successes per the LightRAG contract"
Idempotent == {"duplicated", "partial_success"}

\* Seeded fault: a refused insert counts as one.
CallErr_InsertUnchecked(c) ==
    IF c.result # "ok" THEN wrapUpstream(c.result)
    ELSE IF c.op = "delete_docs" /\ c.body \notin {"deletion_started", "success"}
         THEN {IF c.body = "busy" THEN "ErrBusy" ELSE "ErrUpstream"}
    ELSE {}

\* The status field of an insert, which must come with a track_id, and of a
\* delete.
CallErr(c) ==
    IF c.result # "ok" THEN wrapUpstream(c.result)
    ELSE IF c.op = "insert" /\ c.body \notin {"success"} \cup Idempotent THEN {"ErrUpstream"}
    ELSE IF c.op = "delete_docs" /\ c.body \notin {"deletion_started", "success"}
         THEN {IF c.body = "busy" THEN "ErrBusy" ELSE "ErrUpstream"}
    ELSE {}

\* What is gone already is skipped: a label of the list of edges, a track of a
\* purge, whose file then leaves the index.
Skipped(err) ==
    /\ err = {"ErrNotFound"}
    /\ InPurge(req) \/ (req.route = "listEdges" /\ Step = "graph")

SkipLength == IF InPurge(req) /\ Step = "track_status" THEN 3 ELSE 1

\* A call to LightRAG has returned.  A track may have no documents, and a
\* graph not the entity asked for.
RagDone ==
    LET err == CallErr(call)
        r == [req EXCEPT !.did = IF call.did THEN @ \cup {req.step} ELSE @,
                         !.there = IF call.body \in Idempotent THEN @ \cup {req.step} ELSE @,
                         !.unclear = IF call.unclear THEN @ \cup {req.step} ELSE @,
                         !.cause = IF call.result \in {"busy", "http429", "deadline"} THEN "saturated" ELSE "other"]
    IN /\ req.pc = "rag"
       /\ call.pc = "done"
       /\ \/ err = {} /\ GoTo(r, req.step + 1)
          \/ /\ err = {} /\ (Step = "track_status" \/ req.route = "getEntity")
             /\ IF InPurge(req) THEN GoTo(Skip(r, SkipLength), req.step + SkipLength)
                ELSE req' = mapServiceError(r, {"ErrNotFound"}) /\ UNCHANGED call
          \/ err # {} /\ Skipped(err) /\ GoTo(Skip(r, SkipLength), req.step + SkipLength)
          \/ err # {} /\ ~Skipped(err) /\ req' = mapServiceError(r, err) /\ UNCHANGED call
       /\ UNCHANGED lock

\* A handler that panics is answered for by the recovering middleware.
Panic ==
    /\ req.pc = "db"
    /\ req' = Respond([req EXCEPT !.cause = "other"], 500, FALSE)
    /\ UNCHANGED <<call, lock>>

\* Seeded fault: the wrapped ResponseWriter hides the connection's deadline.
ClearsDeadline_Never(route) == FALSE

\* handlePostCodeGraph clears the deadline of its connection.
ClearsDeadline(route) == route = "push"

\* http.Server.WriteTimeout: the handler works on, and what it will write is
\* lost with the connection.
WriteDeadline ==
    /\ req.pc \in {"db", "rag"}
    /\ ~ClearsDeadline(req.route)
    /\ req' = [req EXCEPT !.late = TRUE]
    /\ UNCHANGED <<call, lock>>

Rag(A) == req.pc = "rag" /\ A /\ UNCHANGED req

Next ==
    \/ \E route \in Routes, token \in {"none", "bad", "good"} :
         \E q \in Inputs(route) : Arrive(route, token, q)
    \/ DbOk \/ DbFailed \/ DbTick \/ DbCancel \/ RagDone \/ Panic \/ WriteDeadline
    \/ Rag(ClientStep) \/ Rag(Pipeline) \/ Rag(Cancel)

Spec == Init /\ [][Next]_vars

\* A query of the database ends: lock_timeout, the deadline or the client end
\* it.  Timers fire.  LightRAG may never answer, and the write deadline may
\* never pass.
FairSpec ==
    /\ Spec
    /\ WF_vars(DbOk \/ DbFailed)
    /\ WF_vars(RagDone)
    /\ WF_vars(Rag(Interrupt \/ TimedOut \/ Wake \/ Tick))

-----------------------------------------------------------------------------
(* Properties.                                                              *)

Succeeded == req.status \in 200..299

\* A request answered with success has done what it asked LightRAG for, also
\* when answers were lost and the call was repeated.  Only a purge passes over
\* what is not there, and only an insert is a success without being done: when
\* LightRAG says that it has the text, or part of it.
SuccessMeansDone ==
    Succeeded => \A i \in 1..Len(Plan(req.route)) :
        Plan(req.route)[i] \in Mutations =>
            \/ i \in req.did \cup req.skipped
            \/ Plan(req.route)[i] = "insert" /\ i \in req.there

\* An error is not the answer to something that was done: the call that failed
\* changed nothing in LightRAG unless an answer to it was lost or of no use (no
\* JSON, an insert without its track_id).  A repeat may then be told that there
\* is nothing (404), that it exists already (502) or that the pipeline is busy
\* (429).
FailureMeansNotDone ==
    req.pc = "answered" /\ ~Succeeded /\ req.step \in req.did => req.step \in req.unclear

\* A purge never waits past its budget, whatever it waits for, and polling
\* without a deadline ends with its budget but for one round of attempts.
DeadlineKept ==
    call.left >= IF call.own THEN 0 ELSE -RoundTripMax

\* Backpressure is 429 with Retry-After, and nothing else is.
SaturatedIs429 ==
    req.pc = "answered" =>
        /\ (req.cause = "saturated") = (req.status = 429)
        /\ req.retryAfter = (req.status \in {429, 503})

\* Whatever a client sends, no query reaches a store without bounds.
QueriesBounded ==
    req.pc \in {"db", "rag"} =>
        LET has(P) == Params[req.route] \cap P # {} IN
        /\ has({"limit"}) \/ req.route \in Walks => req.bounds.limit \in 1..5000
        /\ has({"top_k"}) => req.bounds.limit \in 1..500
        /\ has({"depth", "max_depth"}) => req.bounds.depth \in 1..10

\* Every handler comes to its answer, also if LightRAG never answers.  A push
\* is never too late for its client, however long its transaction takes; the
\* answer of any other route is lost when the write deadline has passed.
RequestsAnswered ==
    /\ req.pc \in {"db", "rag"} ~> req.pc = "answered"
    /\ req.pc = "db" /\ req.route = "push" ~> req.pc = "answered" /\ ~req.late
=============================================================================
