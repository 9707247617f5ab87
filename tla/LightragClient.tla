--------------------------- MODULE LightragClient ---------------------------
(***************************************************************************)
(* One call of the LightRAG client (internal/lightrag/http.go): up to       *)
(* retryMax repeats of a request that failed in transport or was answered   *)
(* 429 or 5xx, and around it the loop of DeleteDocs that polls while        *)
(* LightRAG's pipeline lock is held.  The client keeps no state between     *)
(* calls; other callers show in the lock only.                              *)
(*                                                                          *)
(* Time is counted in retryBaseDelay, and a timer that is due fires before  *)
(* the clock moves on.  Bodies are left out but for the status field.       *)
(***************************************************************************)
EXTENDS Integers, FiniteSetsExt

CONSTANTS
    retryMax,                \* repeats after the first request
    maxRetryAfter,           \* cap of a Retry-After wait
    busyRetryMaxDelay,       \* cap of the wait between two polls
    defaultBusyRetryBudget,  \* how long a delete without a deadline polls
    Timeout                  \* http.Client.Timeout

ASSUME ClientAssumption ==
    /\ {retryMax, defaultBusyRetryBudget} \subseteq Nat
    /\ {maxRetryAfter, busyRetryMaxDelay, Timeout} \subseteq Nat \ {0}

VARIABLES
    call,   \* the call under way
    lock    \* LightRAG's pipeline lock is held

Mutations == {"insert", "delete_docs", "create_relation", "delete_relation", "update_entity"}
Reads     == {"track_status", "query", "query_data", "label_search", "graph"}

\* own: the context has a deadline; left: time until it, or until the polling
\* of a call without one ends, counted until no call can last that long.  did
\* and unclear are history: LightRAG did what is asked for, and the answer to a
\* request that it did was lost or of no use.
NoCall ==
    [pc |-> "idle", op |-> "none", attempt |-> 0, timer |-> 0, delay |-> 1,
     own |-> FALSE, left |-> defaultBusyRetryBudget, cancelled |-> FALSE,
     result |-> "none", body |-> "none", did |-> FALSE, unclear |-> FALSE]

\* The longest wait between two attempts.
LongestWait == Max({maxRetryAfter} \cup {2 ^ n : n \in 0..(retryMax - 1)})

\* The longest a round of attempts can take.
RoundTripMax == (retryMax + 1) * Timeout + retryMax * LongestWait

CtxDone == call.cancelled \/ (call.own /\ call.left <= 0)

CtxErr == IF call.cancelled THEN "canceled" ELSE "deadline"

-----------------------------------------------------------------------------
(* roundTrip and the operations around it.                                  *)

Send(c) == [c EXCEPT !.pc = "request", !.timer = Timeout]

\* A call in a context that has a deadline goes on counting it down.
Begin(op) ==
    Send([NoCall EXCEPT !.op = op, !.own = call.own, !.cancelled = call.cancelled,
                        !.left = IF call.own THEN call.left ELSE defaultBusyRetryBudget])

Finish(c, result) == [c EXCEPT !.pc = "done", !.result = result]

isRetryable(status) == status = 429 \/ status >= 500

\* Sleep before the next attempt, or give the last error back.
Retry(c, wait, result) ==
    IF c.attempt < retryMax
    THEN [c EXCEPT !.pc = "backoff", !.attempt = @ + 1, !.timer = wait]
    ELSE Finish(c, result)

Backoff(c) == 2 ^ c.attempt

HttpError(status) ==
    CASE status = 404  -> "http404"
      [] status = 429  -> "http429"
      [] status >= 500 -> "http5xx"
      [] OTHER         -> "http4xx"

\* Seeded fault: the deadline is only looked at by the context.
DeleteBusy_NoBudget(c) == [c EXCEPT !.pc = "pause", !.timer = c.delay]

\* "Stop before a sleep that would run past the deadline."
DeleteBusy(c) ==
    IF c.delay > c.left
    THEN Finish(c, "busy")
    ELSE [c EXCEPT !.pc = "pause", !.timer = c.delay]

\* Seeded fault: only a synchronous delete ends the polling.
Accepted_SuccessOnly(c, body) ==
    IF c.op = "delete_docs" /\ body # "success"
    THEN DeleteBusy(c)
    ELSE Finish([c EXCEPT !.body = body], "ok")

\* A decoded 2xx.  QueryData checks the envelope, DeleteDocs polls.
Accepted(c, body) ==
    IF c.op = "delete_docs" /\ body = "busy" THEN DeleteBusy(c)
    ELSE IF c.op = "query_data" /\ body # "success" THEN Finish(c, "logical")
    ELSE Finish([c EXCEPT !.body = body], "ok")

\* An answer.  Retry-After, when there is one, replaces the backoff.
Received(c, a) ==
    LET wait == IF a.retryAfter = "none" THEN Backoff(c)
                ELSE IF a.retryAfter = "now" THEN 0 ELSE maxRetryAfter IN
    IF isRetryable(a.status) THEN Retry(c, wait, HttpError(a.status))
    ELSE IF a.status >= 400 THEN Finish(c, HttpError(a.status))
    ELSE IF a.body = "garbage" /\ c.op # "delete_relation" THEN Finish(c, "decode")
    ELSE Accepted(c, a.body)

-----------------------------------------------------------------------------
(* LightRAG.                                                                *)

Answer(status, body, retryAfter, does) ==
    [status |-> status, body |-> body, retryAfter |-> retryAfter, does |-> does]

\* The answers to an insert.  Text that is there already, from this call or from
\* any other, is "duplicated"; "untracked" is a status the service accepts in an
\* answer without a track_id.
Inserted ==
    {Answer(200, "duplicated", "none", FALSE), Answer(200, "failure", "none", FALSE)}
    \cup {Answer(200, "partial_success", "none", d) : d \in BOOLEAN}
    \cup {Answer(200, "untracked", "none", d) : d \in BOOLEAN}
    \cup IF call.did THEN {} ELSE {Answer(200, "success", "none", TRUE)}

\* What LightRAG makes of a request it gets to work on.
Served(op) ==
    LET ok == Answer(200, "success", "none", op \in Mutations) IN
    CASE op = "insert" -> Inserted
      [] op = "delete_docs" ->
           IF lock THEN {Answer(200, "busy", "none", FALSE)}
           ELSE {Answer(200, "deletion_started", "none", TRUE), ok, Answer(200, "failure", "none", FALSE)}
      [] op = "create_relation" -> IF call.did THEN {Answer(400, "none", "none", FALSE)} ELSE {ok, Answer(404, "none", "none", FALSE)}
      [] op = "delete_relation" -> IF call.did THEN {Answer(404, "none", "none", FALSE)} ELSE {ok, Answer(404, "none", "none", FALSE)}
      [] op = "update_entity"   -> {Answer(404, "none", "none", FALSE)} \cup IF call.did THEN {} ELSE {ok}
      [] op = "query_data"      -> {ok, Answer(200, "failure", "none", FALSE)}
      [] OTHER                  -> {ok, Answer(404, "none", "none", FALSE)}

\* It refuses, is overloaded, fails before or after doing it, or answers what
\* is no JSON.
Failed(op) ==
    {Answer(422, "none", "none", FALSE)}
    \cup {Answer(s, "none", r, FALSE) : s \in {429, 503}, r \in {"none", "now", "late"}}
    \cup {Answer(500, "none", "none", op \in Mutations), Answer(200, "garbage", "none", op \in Mutations)}

\* Work on a busy pipeline waits or is refused, and a delete takes the lock.
Does(a) == a.does /\ ~(call.op = "delete_docs" /\ lock)

Reply ==
    /\ call.pc = "request"
    /\ \E a \in Served(call.op) \cup Failed(call.op) :
         LET heard == a.status < 400 /\ a.body \notin {"garbage", "untracked"}
             c == [call EXCEPT !.did = @ \/ Does(a), !.unclear = @ \/ (Does(a) /\ ~heard)]
         IN /\ call' = Received(c, a)
            /\ lock' = (lock \/ (call.op = "delete_docs" /\ Does(a)))

\* The connection fails, before or after LightRAG did its work.
Lost ==
    /\ call.pc = "request"
    /\ \E does \in BOOLEAN :
         LET d == Does(Answer(0, "none", "none", does /\ call.op \in Mutations)) IN
         /\ call' = Retry([call EXCEPT !.did = @ \/ d, !.unclear = @ \/ d], Backoff(call), "transport")
         /\ lock' = (lock \/ (call.op = "delete_docs" /\ d))

\* The other users of the pipeline: ingest, and the rebuild after a delete.
Pipeline ==
    /\ call.pc \in {"request", "pause", "backoff"}
    /\ lock' = ~lock
    /\ UNCHANGED call

-----------------------------------------------------------------------------
(* Time.                                                                    *)

Waiting == call.pc \in {"request", "backoff", "pause"}

\* Seeded fault: the backoff is a plain sleep.
Interruptible_NotBackoff == call.pc \in {"request", "pause"}

\* Every wait selects on the context too.
Interruptible == Waiting

\* The context ends the call.  LightRAG may have got the request.
Interrupt ==
    /\ Interruptible
    /\ CtxDone
    /\ \E d \in BOOLEAN :
         /\ d => call.pc = "request" /\ call.op \in Mutations
         /\ call' = Finish([call EXCEPT !.did = @ \/ d, !.unclear = @ \/ d], CtxErr)
    /\ UNCHANGED lock

\* The timeout of the HTTP client counts as a deadline that has passed.
TimedOut ==
    /\ call.pc = "request"
    /\ call.timer = 0
    /\ \E d \in BOOLEAN :
         /\ d => call.op \in Mutations
         /\ call' = Retry([call EXCEPT !.did = @ \/ d, !.unclear = @ \/ d], Backoff(call), "deadline")
    /\ UNCHANGED lock

\* A sleep is over; a poll starts a new round of attempts.
Wake ==
    /\ call.pc \in {"backoff", "pause"}
    /\ call.timer = 0
    /\ call' = IF call.pc = "backoff" THEN Send(call)
               ELSE Send([call EXCEPT !.attempt = 0, !.delay = Min({2 * @, busyRetryMaxDelay})])
    /\ UNCHANGED lock

Tick ==
    /\ Waiting
    /\ call.timer > 0
    /\ ~(Interruptible /\ CtxDone)
    /\ call' = [call EXCEPT !.timer = @ - 1, !.left = Max({@ - 1, -RoundTripMax - 1})]
    /\ UNCHANGED lock

\* The client of the request is gone, or the process shuts down.
Cancel ==
    /\ Waiting
    /\ ~call.cancelled
    /\ call' = [call EXCEPT !.cancelled = TRUE]
    /\ UNCHANGED lock

ClientStep == Reply \/ Lost \/ Interrupt \/ TimedOut \/ Wake \/ Tick
=============================================================================
