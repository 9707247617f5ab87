--------------------------- MODULE RequestsProofs ---------------------------
(***************************************************************************)
(* Proofs about one request: what its answer says about what was done, that *)
(* 429 means saturation and nothing else, that a purge keeps its deadline   *)
(* and that no query reaches a store without bounds, for every retry limit, *)
(* timeout and budget.                                                      *)
(*                                                                          *)
(* The invariant has a part about the call to LightRAG (CallInv: what the   *)
(* client's result says about what LightRAG did) and one about the request  *)
(* (UnderWay, Answered: what the steps behind the current one have done).   *)
(***************************************************************************)
EXTENDS Requests, TLAPS, SequenceTheorems, WellFoundedInduction

Ops == Mutations \cup Reads

Results ==
    {"none", "ok", "busy", "logical", "decode", "transport", "deadline", "canceled",
     "http404", "http429", "http5xx", "http4xx"}

Bodies ==
    {"none", "success", "duplicated", "partial_success", "untracked", "deletion_started", "busy", "failure",
     "garbage"}

Calls ==
    [pc : {"idle", "request", "backoff", "pause", "done"}, op : Ops \cup {"none"},
     attempt : Nat, timer : Int, delay : Int, own : BOOLEAN, left : Int, cancelled : BOOLEAN,
     result : Results, body : Bodies, did : BOOLEAN, unclear : BOOLEAN]

\* The answers that report an insert LightRAG need not have done now.
Has(op, body) == op = "insert" /\ body \in Idempotent

\* While it runs, a call that LightRAG has carried out has lost an answer.
\* When it is over, it is reported done if and only if it was, but for answers
\* that were lost or of no use and for an insert LightRAG says it has.
CallInv(c) ==
    /\ c \in Calls
    /\ c.own => c.left >= 0
    /\ c.op \notin Mutations => ~ c.did
    /\ c.pc \in {"request", "backoff", "pause"} => c.op \in Ops /\ (c.did => c.unclear)
    /\ c.pc = "done" =>
         /\ c.op \in Ops
         /\ c.did => c.unclear \/ CallErr(c) = {}
         /\ CallErr(c) = {} /\ c.op \in Mutations => c.did \/ Has(c.op, c.body)
         /\ c.result = "ok" /\ c.op = "delete_docs" => c.body # "busy"

\* A step of the client goes on with the same operation.
Kept(c, d) == CallInv(d) /\ d.op = c.op /\ d.pc # "idle"

-----------------------------------------------------------------------------
(* The client.                                                              *)

\* The larger and the smaller of two integers are integers.
LEMMA MaxMin ==
    ASSUME NEW a \in Int, NEW b \in Int
    PROVE  /\ Max({a, b}) \in Int /\ Max({a, b}) >= a /\ Max({a, b}) >= b
           /\ Min({a, b}) \in Int
<1>1. \E x \in {a, b} : \A y \in {a, b} : x >= y OBVIOUS
<1>2. \E x \in {a, b} : \A y \in {a, b} : x <= y OBVIOUS
<1>3. Max({a, b}) \in {a, b} /\ \A y \in {a, b} : Max({a, b}) >= y BY <1>1 DEF Max
<1>4. Min({a, b}) \in {a, b} BY <1>2 DEF Min
<1> QED BY <1>3, <1>4

\* A set of natural numbers has a least one.
LEMMA LeastNat ==
    ASSUME NEW T, T \subseteq Nat, T # {}
    PROVE  \E x \in T : \A y \in T : x <= y
<1> DEFINE R == OpToRel(<, Nat)
<1>1. IsWellFoundedOn(R, Nat) BY NatLessThanWellFounded
<1>2. \A y, x \in Nat : y < x => <<y, x>> \in R BY DEF OpToRel
<1> HIDE DEF R
<1>3. PICK x \in T : \A y \in T : ~ (<<y, x>> \in R) BY <1>1, WFMin
<1>4. ASSUME NEW y \in T PROVE x <= y
  <2>1. x \in Nat /\ y \in Nat OBVIOUS
  <2>2. ~ (y < x) BY <1>2, <1>3, <2>1
  <2> QED BY <2>1, <2>2
<1> QED BY <1>4

\* The waits of the backoff and of Retry-After.
Waits(k) == {maxRetryAfter} \cup {2 ^ n : n \in 0..(k - 1)}

\* However often a request is repeated, one of the waits is the longest.
LEMMA LongestExists ==
    ASSUME NEW k \in Nat PROVE \E m \in Waits(k) : \A w \in Waits(k) : m >= w
<1> DEFINE P(n) == \E m \in Waits(n) : \A w \in Waits(n) : m >= w
           T == {n \in Nat : ~ P(n)}
<1>0. maxRetryAfter \in Int BY ClientAssumption
<1>1. ASSUME NEW n \in Nat, NEW w \in Waits(n) PROVE w \in Int
  <2>1. \A i \in 0..(n - 1) : 2 ^ i \in Int OBVIOUS
  <2> QED BY <1>0, <2>1 DEF Waits
<1>2. P(0)
  <2>1. Waits(0) = {maxRetryAfter}
    <3>1. 0..(0 - 1) = {} OBVIOUS
    <3> QED BY <3>1 DEF Waits
  <2> QED BY <1>0, <2>1
<1>3. ASSUME NEW n \in Nat, P(n) PROVE P(n + 1)
  <2> DEFINE new == 2 ^ n
  <2>1. Waits(n + 1) = Waits(n) \cup {new}
    <3>1. 0..((n + 1) - 1) = (0..(n - 1)) \cup {n} OBVIOUS
    <3> QED BY <3>1 DEF Waits
  <2>2. new \in Int OBVIOUS
  <2> HIDE DEF new
  <2>3. PICK m \in Waits(n) : \A w \in Waits(n) : m >= w BY <1>3
  <2>4. m \in Int BY <1>1
  <2>5. \A w \in Waits(n) : w \in Int BY <1>1
  <2>6. CASE m >= new BY <2>1, <2>3, <2>6
  <2>7. CASE ~ (m >= new)
    <3>1. \A w \in Waits(n) : new >= w BY <2>2, <2>3, <2>4, <2>5, <2>7
    <3>2. new >= new BY <2>2
    <3> QED BY <2>1, <3>1, <3>2
  <2> QED BY <2>6, <2>7
<1>4. SUFFICES ASSUME T # {} PROVE FALSE OBVIOUS
<1>5. T \subseteq Nat OBVIOUS
<1>6. PICK x \in T : \A y \in T : x <= y
  <2> HIDE DEF T
  <2> QED BY <1>4, <1>5, LeastNat
<1>7. x \in Nat /\ ~ P(x) OBVIOUS
<1>8. x # 0 BY <1>2, <1>7
<1>9. x - 1 \in Nat /\ ~ (x <= x - 1) /\ (x - 1) + 1 = x BY <1>7, <1>8
<1>10. x - 1 \notin T
  <2> HIDE DEF T
  <2> QED BY <1>6, <1>9
<1>11. P(x - 1) BY <1>9, <1>10
<1>12. P((x - 1) + 1)
  <2> HIDE DEF P
  <2> QED BY <1>3, <1>9, <1>11
<1> QED BY <1>7, <1>9, <1>12

\* No wait is longer than the longest, and the bound on a round of attempts is
\* a number.
LEMMA RoundTripType ==
    /\ LongestWait \in Nat /\ LongestWait >= maxRetryAfter
    /\ \A a \in 0..(retryMax - 1) : 2 ^ a \in Int /\ 2 ^ a <= LongestWait
    /\ RoundTripMax \in Int /\ RoundTripMax = retryMax * (Timeout + LongestWait) + Timeout
<1>1. retryMax \in Nat /\ Timeout \in Nat /\ maxRetryAfter \in Nat BY ClientAssumption
<1>2. LongestWait = Max(Waits(retryMax)) BY DEF LongestWait, Waits
<1>3. LongestWait \in Waits(retryMax) /\ \A w \in Waits(retryMax) : LongestWait >= w
  BY <1>1, <1>2, LongestExists DEF Max
<1>4. \A a \in 0..(retryMax - 1) : 2 ^ a \in Int BY <1>1
<1>5. maxRetryAfter \in Waits(retryMax) /\ \A a \in 0..(retryMax - 1) : 2 ^ a \in Waits(retryMax) BY DEF Waits
<1>6. LongestWait \in Int BY <1>1, <1>3, <1>4 DEF Waits
<1>7. LongestWait >= maxRetryAfter /\ LongestWait \in Nat BY <1>1, <1>3, <1>5, <1>6
<1>8. \A a \in 0..(retryMax - 1) : 2 ^ a <= LongestWait BY <1>3, <1>4, <1>5, <1>6
<1>9. RoundTripMax = (retryMax + 1) * Timeout + retryMax * LongestWait BY DEF RoundTripMax
<1> HIDE DEF LongestWait
<1>10. RoundTripMax \in Int /\ RoundTripMax = retryMax * (Timeout + LongestWait) + Timeout
  BY <1>1, <1>7, <1>9
<1> QED BY <1>4, <1>7, <1>8, <1>10

\* The error of a failed call is one the service knows.
LEMMA CallErrKinds ==
    ASSUME NEW c
    PROVE  /\ CallErr(c) \in {{}, {"ErrBusy"}, {"ErrNotFound"}, {"ErrTransient"}, {"ErrUpstream"}}
           /\ c.result # "ok" => CallErr(c) # {}
           /\ CallErr(c) = {"ErrNotFound"} => c.result = "http404"
           /\ c.result \in {"busy", "http429", "deadline"} => CallErr(c) = {"ErrBusy"}
           /\ CallErr(c) = {"ErrBusy"} => c.result \in {"busy", "http429", "deadline"}
                                        \/ (c.result = "ok" /\ c.op = "delete_docs" /\ c.body = "busy")
<1>1. CASE c.result # "ok"
  <2>1. CASE c.result \in {"busy", "http429", "deadline"} BY <2>1 DEF CallErr, wrapUpstream
  <2>2. CASE c.result = "http404" BY <2>2 DEF CallErr, wrapUpstream
  <2>3. CASE c.result \in {"http5xx", "canceled"} BY <2>3 DEF CallErr, wrapUpstream
  <2>4. CASE c.result \notin {"busy", "http429", "deadline", "http404", "http5xx", "canceled"}
    BY <1>1, <2>4 DEF CallErr, wrapUpstream
  <2> QED BY <2>1, <2>2, <2>3, <2>4
<1>2. CASE c.result = "ok" BY <1>2 DEF CallErr
<1> QED BY <1>1, <1>2

\* A call that ends in an error is not reported done, and one that was done
\* has lost an answer.
LEMMA FinishError ==
    ASSUME NEW c \in Calls, NEW result \in Results, result # "ok", c.op \in Ops,
           c.own => c.left >= 0, c.op \notin Mutations => ~ c.did, c.did => c.unclear
    PROVE  Kept(c, Finish(c, result))
<1> DEFINE d == Finish(c, result)
<1>1. d \in Calls /\ d.pc = "done" /\ d.result = result BY DEF Finish, Calls
<1>2. d.op = c.op /\ d.own = c.own /\ d.left = c.left /\ d.did = c.did /\ d.unclear = c.unclear
  BY DEF Finish, Calls
<1> HIDE DEF d
<1>3. CallErr(d) # {} BY <1>1, CallErrKinds
<1> QED BY <1>1, <1>2, <1>3 DEF CallInv, Kept, d

\* So is one that is tried again, whatever the wait.
LEMMA RetryKeeps ==
    ASSUME NEW c \in Calls, NEW wait \in Int, NEW result \in Results, result # "ok", c.op \in Ops,
           c.own => c.left >= 0, c.op \notin Mutations => ~ c.did, c.did => c.unclear
    PROVE  Kept(c, Retry(c, wait, result))
<1>1. CASE c.attempt < retryMax
  <2> DEFINE d == [c EXCEPT !.pc = "backoff", !.attempt = @ + 1, !.timer = wait]
  <2>0. c.attempt + 1 \in Nat BY DEF Calls
  <2>1. d \in Calls /\ d.pc = "backoff" BY <2>0 DEF Calls
  <2>2. d.op = c.op /\ d.own = c.own /\ d.left = c.left /\ d.did = c.did /\ d.unclear = c.unclear
    BY DEF Calls
  <2>3. Retry(c, wait, result) = d BY <1>1 DEF Retry
  <2> HIDE DEF d
  <2> QED BY <2>1, <2>2, <2>3 DEF CallInv, Kept
<1>2. CASE ~ (c.attempt < retryMax) BY <1>2, FinishError DEF Retry
<1> QED BY <1>1, <1>2

\* A pause between two polls is not an answer.
LEMMA BusyKeeps ==
    ASSUME NEW c \in Calls, c.op \in Ops,
           c.own => c.left >= 0, c.op \notin Mutations => ~ c.did, c.did => c.unclear
    PROVE  Kept(c, DeleteBusy(c))
<1>1. CASE c.delay > c.left
  <2>0. "busy" \in Results /\ "busy" # "ok" BY DEF Results
  <2>1. Kept(c, Finish(c, "busy")) BY <2>0, FinishError, Zenon
  <2> QED BY <1>1, <2>1 DEF DeleteBusy
<1>2. CASE ~ (c.delay > c.left)
  <2> DEFINE d == [c EXCEPT !.pc = "pause", !.timer = c.delay]
  <2>1. d \in Calls /\ d.pc = "pause" BY DEF Calls
  <2>2. d.op = c.op /\ d.own = c.own /\ d.left = c.left /\ d.did = c.did /\ d.unclear = c.unclear
    BY DEF Calls
  <2>3. DeleteBusy(c) = d BY <1>2 DEF DeleteBusy
  <2> HIDE DEF d
  <2> QED BY <2>1, <2>2, <2>3 DEF CallInv, Kept
<1> QED BY <1>1, <1>2

\* The bodies that say an operation is done.
Says(op, body) ==
    \/ body = "success"
    \/ Has(op, body)
    \/ body = "deletion_started" /\ op = "delete_docs"
    \/ body = "garbage" /\ op = "delete_relation"

\* The bodies that say it is not, or do not say it.
Refusals == {"failure", "busy", "untracked"}

\* A decoded answer is taken for what it says.
LEMMA AcceptedKeeps ==
    ASSUME NEW c \in Calls, c.op \in Ops, NEW body \in Bodies,
           c.own => c.left >= 0, c.op \notin Mutations => ~ c.did,
           c.did => c.unclear \/ Says(c.op, body),
           c.op \in Mutations /\ Says(c.op, body) => c.did \/ Has(c.op, body),
           c.op \in Mutations /\ ~ Says(c.op, body) =>
               c.op \in {"insert", "delete_docs"} /\ body \in Refusals
    PROVE  Kept(c, Accepted(c, body))
<1>1. CASE c.op = "delete_docs" /\ body = "busy"
  <2>1. ~ Says(c.op, body) BY <1>1 DEF Says, Has
  <2> QED BY <1>1, <2>1, BusyKeeps DEF Accepted
<1>2. CASE c.op = "query_data" /\ body # "success"
  <2>1. ~ c.did BY <1>2 DEF Mutations
  <2>0. "logical" \in Results /\ "logical" # "ok" BY DEF Results
  <2>2. Kept(c, Finish(c, "logical")) BY <2>0, <2>1, FinishError, Zenon
  <2>3. Accepted(c, body) = Finish(c, "logical") BY <1>2 DEF Accepted
  <2> QED BY <2>2, <2>3
<1>3. CASE ~ (c.op = "delete_docs" /\ body = "busy") /\ ~ (c.op = "query_data" /\ body # "success")
  <2> DEFINE d == Finish([c EXCEPT !.body = body], "ok")
             e == [c EXCEPT !.body = body]
  <2>a. e \in Calls /\ e.body = body BY DEF Calls
  <2>b. e.op = c.op /\ e.own = c.own /\ e.left = c.left /\ e.did = c.did /\ e.unclear = c.unclear
    BY DEF Calls
  <2> HIDE DEF e
  <2>c. d = [e EXCEPT !.pc = "done", !.result = "ok"] BY DEF Finish, e
  <2> HIDE DEF d
  <2>d. d.pc = "done" /\ d.result = "ok" /\ d.body = body BY <2>a, <2>c DEF Calls
  <2>e. d \in Calls BY <2>a, <2>c DEF Calls, Results
  <2>1. d \in Calls /\ d.pc = "done" /\ d.result = "ok" /\ d.body = body BY <2>d, <2>e
  <2>2. d.op = c.op /\ d.own = c.own /\ d.left = c.left /\ d.did = c.did /\ d.unclear = c.unclear
    BY <2>a, <2>b, <2>c DEF Calls
  <2> USE DEF d
  <2>3. Accepted(c, body) = d BY <1>3 DEF Accepted
  <2> HIDE DEF d
  <2>4. Says(c.op, body) => CallErr(d) = {} BY <2>1, <2>2 DEF CallErr, Says, Has, Idempotent
  <2>5. CallErr(d) = {} /\ c.op \in Mutations => Says(c.op, body)
    BY <2>1, <2>2 DEF CallErr, Says, Has, Idempotent, Refusals
  <2> QED BY <1>3, <2>1, <2>2, <2>3, <2>4, <2>5 DEF CallInv, Kept
<1> QED BY <1>1, <1>2, <1>3

Answers ==
    [status : {200, 400, 404, 422, 429, 500, 503}, body : Bodies,
     retryAfter : {"none", "now", "late"}, does : BOOLEAN]

Heard(a) == a.status < 400 /\ a.body \notin {"garbage", "untracked"}

\* An answer that is heard is taken for what it says; an error, or an answer
\* that is no JSON or has no track_id, is an error.
LEMMA ReceivedKeeps ==
    ASSUME NEW c \in Calls, c.op \in Ops, NEW a \in Answers,
           c.own => c.left >= 0, c.op \notin Mutations => ~ c.did,
           c.did => c.unclear \/ (Heard(a) /\ Says(c.op, a.body)),
           a.status = 200 /\ c.op \in Mutations /\ Says(c.op, a.body) => c.did \/ Has(c.op, a.body),
           a.status = 200 /\ c.op \in Mutations /\ ~ Says(c.op, a.body) =>
               \/ a.body = "garbage"
               \/ c.op \in {"insert", "delete_docs"} /\ a.body \in Refusals
    PROVE  Kept(c, Received(c, a))
<1> DEFINE wait == IF a.retryAfter = "none" THEN Backoff(c)
                   ELSE IF a.retryAfter = "now" THEN 0 ELSE maxRetryAfter
<1>1. wait \in Int
  <2>1. maxRetryAfter \in Int BY ClientAssumption
  <2>2. c.attempt \in Nat BY DEF Calls
  <2>3. Backoff(c) \in Int BY <2>2 DEF Backoff
  <2> QED BY <2>1, <2>3
<1>2. a.status \in {200, 400, 404, 422, 429, 500, 503} /\ a.body \in Bodies BY DEF Answers
<1>3. HttpError(a.status) \in Results /\ HttpError(a.status) # "ok"
  BY <1>2 DEF HttpError, Results
<1>4. Received(c, a) =
        IF isRetryable(a.status) THEN Retry(c, wait, HttpError(a.status))
        ELSE IF a.status >= 400 THEN Finish(c, HttpError(a.status))
        ELSE IF a.body = "garbage" /\ c.op # "delete_relation" THEN Finish(c, "decode")
        ELSE Accepted(c, a.body)
  BY DEF Received
<1> HIDE DEF wait
<1>5. CASE a.status >= 400
  <2>1. c.did => c.unclear BY <1>2, <1>5 DEF Heard
  <2> DEFINE res == HttpError(a.status)
  <2>2. res \in Results /\ res # "ok" BY <1>3
  <2> HIDE DEF res
  <2>3. Kept(c, Retry(c, wait, res)) BY <1>1, <2>1, <2>2, RetryKeeps
  <2>4. Kept(c, Finish(c, res)) BY <2>1, <2>2, FinishError
  <2> QED BY <1>4, <1>5, <2>3, <2>4 DEF res
<1>6. CASE a.status = 200 /\ a.body = "garbage" /\ c.op # "delete_relation"
  <2>1. c.did => c.unclear BY <1>6 DEF Heard
  <2>2. "decode" \in Results /\ "decode" # "ok" BY DEF Results
  <2>3. Kept(c, Finish(c, "decode")) BY <2>1, <2>2, FinishError, Zenon
  <2> QED BY <1>4, <1>6, <2>3 DEF isRetryable
<1>7. CASE a.status = 200 /\ ~ (a.body = "garbage" /\ c.op # "delete_relation")
  <2> DEFINE body == a.body
  <2>1. body \in Bodies BY <1>2
  <2>2. c.did => c.unclear \/ Says(c.op, body) OBVIOUS
  <2>3. c.op \in Mutations /\ Says(c.op, body) => c.did \/ Has(c.op, body) BY <1>7
  <2>4. c.op \in Mutations /\ ~ Says(c.op, body) =>
          c.op \in {"insert", "delete_docs"} /\ body \in Refusals
    BY <1>7 DEF Says
  <2> HIDE DEF body
  <2>5. Kept(c, Accepted(c, body)) BY <2>1, <2>2, <2>3, <2>4, AcceptedKeeps
  <2> QED BY <1>4, <1>7, <2>5 DEF isRetryable, body
<1> QED BY <1>2, <1>5, <1>6, <1>7

\* The answers LightRAG gives, by what they say and what it did.
LEMMA ServedFields ==
    ASSUME NEW op \in Ops, NEW a \in Served(op)
    PROVE  /\ a \in Answers
           /\ \/ a.status \in {400, 404} /\ a.body = "none" /\ ~ a.does
              \/ a.status = 200 /\ a.body = "success" /\ (a.does <=> op \in Mutations)
                   /\ (op = "delete_docs" => ~ lock)
              \/ a.status = 200 /\ Has(op, a.body)
              \/ a.status = 200 /\ a.body = "untracked" /\ op = "insert"
              \/ a.status = 200 /\ a.body = "deletion_started" /\ op = "delete_docs" /\ ~ lock /\ a.does
              \/ a.status = 200 /\ a.body = "failure" /\ op \in {"insert", "delete_docs", "query_data"} /\ ~ a.does
              \/ a.status = 200 /\ a.body = "busy" /\ op = "delete_docs" /\ ~ a.does
<1> DEFINE ok == Answer(200, "success", "none", op \in Mutations)
           no == Answer(404, "none", "none", FALSE)
           exists == Answer(400, "none", "none", FALSE)
           bad == Answer(200, "failure", "none", FALSE)
           busy == Answer(200, "busy", "none", FALSE)
           begun == Answer(200, "deletion_started", "none", TRUE)
<1>1. ok.status = 200 /\ ok.body = "success" /\ (ok.does <=> op \in Mutations) BY DEF Answer
<1>2. no.status = 404 /\ no.body = "none" /\ ~ no.does BY DEF Answer
<1>3. exists.status = 400 /\ exists.body = "none" /\ ~ exists.does BY DEF Answer
<1>5. bad.status = 200 /\ bad.body = "failure" /\ ~ bad.does BY DEF Answer
<1>6. busy.status = 200 /\ busy.body = "busy" /\ ~ busy.does BY DEF Answer
<1>7. begun.status = 200 /\ begun.body = "deletion_started" /\ begun.does BY DEF Answer
<1>8. ok \in Answers BY DEF Answer, Answers, Bodies
<1>9. {no, exists, bad, busy, begun} \subseteq Answers BY DEF Answer, Answers, Bodies
<1>10. CASE op = "insert"
  <2> DEFINE word(b, d) == Answer(200, b, "none", d)
  <2>0. ok = word("success", TRUE) BY <1>10 DEF Mutations
  <2>a. a \in Inserted BY <1>10 DEF Served
  <2> DEFINE part == {word("partial_success", d) : d \in BOOLEAN}
             lost == {word("untracked", d) : d \in BOOLEAN}
             rest == IF call.did THEN {} ELSE {word("success", TRUE)}
  <2>b. Inserted = (({word("duplicated", FALSE), bad} \cup part) \cup lost) \cup rest BY DEF Inserted
  <2>c. a \in part => \E d \in BOOLEAN : a = word("partial_success", d) BY Zenon
  <2>d. a \in lost => \E d \in BOOLEAN : a = word("untracked", d) BY Zenon
  <2>e. a \in rest => a = word("success", TRUE) OBVIOUS
  <2> HIDE DEF word, part, lost, rest
  <2>1. \/ a = ok \/ a = bad \/ a = word("duplicated", FALSE)
        \/ \E b \in {"partial_success", "untracked"}, d \in BOOLEAN : a = word(b, d)
    BY <2>0, <2>a, <2>b, <2>c, <2>d, <2>e
  <2> USE DEF word
  <2>2. ASSUME NEW b \in {"duplicated", "partial_success", "untracked"}, NEW d, d \in BOOLEAN, a = word(b, d)
        PROVE  a \in Answers /\ a.status = 200 /\ a.body = b
    <3>1. a = [status |-> 200, body |-> b, retryAfter |-> "none", does |-> d] BY <2>2 DEF Answer
    <3>2. b \in Bodies BY <2>2 DEF Bodies
    <3>3. a.status = 200 /\ a.body = b BY <3>1
    <3>4. a \in Answers BY <2>2, <3>1, <3>2 DEF Answers
    <3> QED BY <3>3, <3>4
  <2>3. FALSE \in BOOLEAN /\ "duplicated" \in {"duplicated", "partial_success", "untracked"} OBVIOUS
  <2> HIDE DEF ok, bad, word
  <2>4. CASE a = word("duplicated", FALSE)
    <3>1. a \in Answers /\ a.status = 200 /\ a.body = "duplicated" BY <2>2, <2>3, <2>4
    <3> QED BY <1>10, <3>1 DEF Has, Idempotent
  <2>5. ASSUME NEW b \in {"partial_success", "untracked"}, NEW d \in BOOLEAN, a = word(b, d)
        PROVE  a \in Answers /\ a.status = 200 /\ (Has(op, a.body) \/ a.body = "untracked")
    <3>1. a \in Answers /\ a.status = 200 /\ a.body = b BY <2>2, <2>5
    <3> QED BY <1>10, <3>1, <2>5 DEF Has, Idempotent
  <2>6. CASE a = ok \/ a = bad BY <2>6, <1>1, <1>5, <1>8, <1>9, <1>10
  <2> QED BY <1>10, <2>1, <2>4, <2>5, <2>6
<1>11. CASE op = "delete_docs"
  <2>1. a = busy \/ (~ lock /\ a \in {begun, ok, bad}) BY <1>11 DEF Served
  <2> HIDE DEF ok, busy, begun, bad
  <2> QED BY <2>1, <1>1, <1>5, <1>6, <1>7, <1>8, <1>9, <1>11
<1>12. CASE op \in {"create_relation", "delete_relation", "update_entity"}
  <2>1. a \in {ok, no, exists} BY <1>12 DEF Served
  <2> HIDE DEF ok, no, exists
  <2> QED BY <2>1, <1>1, <1>2, <1>3, <1>8, <1>9, <1>12
<1>13. CASE op \in Reads \ {"query_data"}
  <2>1. op \notin {"insert", "delete_docs", "create_relation", "delete_relation", "update_entity", "query_data"}
    BY <1>13 DEF Reads
  <2>2. a \in {ok, no} BY <2>1 DEF Served
  <2> HIDE DEF ok, no
  <2> QED BY <2>1, <2>2, <1>1, <1>2, <1>8, <1>9
<1>14. CASE op = "query_data"
  <2>1. a \in {ok, bad} BY <1>14 DEF Served
  <2> HIDE DEF ok, bad
  <2> QED BY <2>1, <1>1, <1>5, <1>8, <1>9, <1>14
<1> QED BY <1>10, <1>11, <1>12, <1>13, <1>14 DEF Ops, Mutations

\* The failures LightRAG answers with.
LEMMA FailedFields ==
    ASSUME NEW op \in Ops, NEW a \in Failed(op)
    PROVE  /\ a \in Answers
           /\ \/ a.status \in {422, 429, 503} /\ a.body = "none" /\ ~ a.does
              \/ a.status = 500 /\ a.body = "none" /\ (a.does <=> op \in Mutations)
              \/ a.status = 200 /\ a.body = "garbage" /\ (a.does <=> op \in Mutations)
<1>1. CASE a = Answer(422, "none", "none", FALSE)
  <2>1. a \in Answers BY <1>1 DEF Answer, Answers, Bodies
  <2>2. a.status = 422 /\ a.body = "none" /\ ~ a.does BY <1>1 DEF Answer
  <2> QED BY <2>1, <2>2
<1>3. CASE a = Answer(500, "none", "none", op \in Mutations)
  <2>1. a \in Answers BY <1>3 DEF Answer, Answers, Bodies
  <2>2. a.status = 500 /\ a.body = "none" /\ (a.does <=> op \in Mutations) BY <1>3 DEF Answer
  <2> QED BY <2>1, <2>2
<1>4. CASE a = Answer(200, "garbage", "none", op \in Mutations)
  <2>1. a \in Answers BY <1>4 DEF Answer, Answers, Bodies
  <2>2. a.status = 200 /\ a.body = "garbage" /\ (a.does <=> op \in Mutations) BY <1>4 DEF Answer
  <2> QED BY <2>1, <2>2
<1> DEFINE refused == {Answer(422, "none", "none", FALSE)}
           loaded == {Answer(s, "none", r, FALSE) : s \in {429, 503}, r \in {"none", "now", "late"}}
           broken == {Answer(500, "none", "none", op \in Mutations), Answer(200, "garbage", "none", op \in Mutations)}
<1>5. a \in loaded => \E s \in {429, 503}, r \in {"none", "now", "late"} : a = Answer(s, "none", r, FALSE)
  BY SMT DEF Answer
<1>6. Failed(op) = (refused \cup loaded) \cup broken BY DEF Failed
<1>7. a \in refused \/ a \in loaded \/ a \in broken
  <2> HIDE DEF refused, loaded, broken
  <2> QED BY <1>6
<1>8. CASE a \in loaded
  <2> HIDE DEF loaded, refused, broken
  <2>1. PICK s \in {429, 503}, r \in {"none", "now", "late"} : a = Answer(s, "none", r, FALSE)
    BY <1>5, <1>8
  <2>2. a \in Answers BY <2>1 DEF Answer, Answers, Bodies
  <2>3. a.body = "none" /\ ~ a.does BY <2>1 DEF Answer
  <2>4. a.status \in {422, 429, 503}
    <3>1. CASE s = 429 BY <2>1, <3>1 DEF Answer
    <3>2. CASE s = 503 BY <2>1, <3>2 DEF Answer
    <3> QED BY <3>1, <3>2
  <2> QED BY <2>2, <2>3, <2>4, Zenon
<1>9. CASE a \in refused BY <1>1, <1>9
<1>10. CASE a \in broken BY <1>3, <1>4, <1>10
<1> HIDE DEF loaded, refused, broken
<1> QED BY <1>7, <1>8, <1>9, <1>10, Zenon

\* What LightRAG answers says what it did.
LEMMA AnswerShape ==
    ASSUME NEW op \in Ops, op = call.op, NEW a \in Served(op) \cup Failed(op)
    PROVE  /\ a \in Answers
           /\ op \notin Mutations => ~ Does(a)
           /\ Does(a) /\ Heard(a) => Says(op, a.body)
           /\ a.status = 200 /\ op \in Mutations /\ Says(op, a.body) => Does(a) \/ Has(op, a.body)
           /\ a.status = 200 /\ op \in Mutations /\ ~ Says(op, a.body) =>
                \/ a.body = "garbage"
                \/ op \in {"insert", "delete_docs"} /\ a.body \in Refusals
<1> USE DEF Refusals
<1>1. CASE a \in Failed(op)
  BY <1>1, FailedFields DEF Does, Heard, Says, Has, Idempotent
<1>2. CASE a \in Served(op)
  <2>0. "query_data" \notin Mutations /\ {"insert", "delete_docs"} \subseteq Mutations BY DEF Mutations
  <2>1. a \in Answers BY <1>2, ServedFields
  <2>2. CASE a.status \in {400, 404} /\ a.body = "none" /\ ~ a.does BY <2>1, <2>2 DEF Does
  <2>3. CASE /\ a.status = 200 /\ a.body = "success" /\ (a.does <=> op \in Mutations)
             /\ op = "delete_docs" => ~ lock
    BY <2>1, <2>3 DEF Does, Says
  <2>4. CASE a.status = 200 /\ Has(op, a.body)
    BY <2>0, <2>1, <2>4 DEF Has, Says
  <2>8. CASE a.status = 200 /\ a.body = "untracked" /\ op = "insert"
    BY <2>0, <2>1, <2>8 DEF Heard, Has, Idempotent, Says
  <2>5. CASE a.status = 200 /\ a.body = "deletion_started" /\ op = "delete_docs" /\ ~ lock /\ a.does
    BY <2>0, <2>1, <2>5 DEF Does, Says
  <2>6. CASE a.status = 200 /\ a.body = "failure" /\ op \in {"insert", "delete_docs", "query_data"} /\ ~ a.does
    BY <2>0, <2>1, <2>6 DEF Does, Says, Has, Idempotent
  <2>7. CASE a.status = 200 /\ a.body = "busy" /\ op = "delete_docs" /\ ~ a.does
    BY <2>0, <2>1, <2>7 DEF Does, Says, Has, Idempotent
  <2> QED BY <1>2, <2>2, <2>3, <2>4, <2>5, <2>6, <2>7, <2>8, ServedFields
<1> QED BY <1>1, <1>2

\* LightRAG's answer.
LEMMA ReplyKeeps ==
    ASSUME CallInv(call), Reply PROVE Kept(call, call')
<1>1. call \in Calls /\ call.op \in Ops /\ (call.did => call.unclear) /\ (call.own => call.left >= 0)
      /\ (call.op \notin Mutations => ~ call.did)
  BY DEF CallInv, Reply
<1> DEFINE D(a) == Does(a)
           U(a) == Does(a) /\ ~ Heard(a)
           C(a) == [call EXCEPT !.did = @ \/ D(a), !.unclear = @ \/ U(a)]
<1>2. PICK a \in Served(call.op) \cup Failed(call.op) : call' = Received(C(a), a)
  BY DEF Reply, Heard
<1> DEFINE d == D(a)
           u == U(a)
           c == [call EXCEPT !.did = @ \/ d, !.unclear = @ \/ u]
           op == call.op
<1>3. d \in BOOLEAN /\ u \in BOOLEAN BY DEF Does, Heard
<1>4. (u <=> d /\ ~ Heard(a)) /\ (d <=> Does(a)) OBVIOUS
<1>5. call' = Received(c, a) BY <1>2
<1> HIDE DEF d, u, op
<1>c. c = [call EXCEPT !.did = @ \/ d, !.unclear = @ \/ u] OBVIOUS
<1> HIDE DEF c
<1>6. /\ c \in Calls /\ c.pc = call.pc /\ c.op = call.op /\ c.own = call.own /\ c.left = call.left
      /\ (c.did <=> call.did \/ d) /\ (c.unclear <=> call.unclear \/ u)
  <2>1. (call.did \/ d) \in BOOLEAN /\ (call.unclear \/ u) \in BOOLEAN BY <1>1, <1>c
  <2>2. c \in Calls BY <1>1, <1>c, <2>1 DEF Calls
  <2>3. c.pc = call.pc /\ c.op = call.op /\ c.own = call.own /\ c.left = call.left BY <1>1, <1>c DEF Calls
  <2>4. (c.did <=> call.did \/ d) /\ (c.unclear <=> call.unclear \/ u) BY <1>1, <1>c DEF Calls
  <2> QED BY <2>2, <2>3, <2>4
<1>7. op \in Ops /\ op = call.op /\ a \in Served(op) \cup Failed(op) BY <1>1 DEF op
<1>8. /\ a \in Answers
      /\ op \notin Mutations => ~ Does(a)
      /\ Does(a) /\ Heard(a) => Says(op, a.body)
      /\ a.status = 200 /\ op \in Mutations /\ Says(op, a.body) => Does(a) \/ Has(op, a.body)
      /\ a.status = 200 /\ op \in Mutations /\ ~ Says(op, a.body) =>
           \/ a.body = "garbage"
           \/ op \in {"insert", "delete_docs"} /\ a.body \in Refusals
  BY <1>7, AnswerShape
<1>9. c.did => c.unclear \/ (Heard(a) /\ Says(c.op, a.body)) BY <1>1, <1>4, <1>6, <1>7, <1>8
<1>10. a.status = 200 /\ c.op \in Mutations /\ Says(c.op, a.body) => c.did \/ Has(c.op, a.body)
  BY <1>4, <1>6, <1>7, <1>8
<1>11. a.status = 200 /\ c.op \in Mutations /\ ~ Says(c.op, a.body) =>
         \/ a.body = "garbage"
         \/ c.op \in {"insert", "delete_docs"} /\ a.body \in Refusals
  BY <1>6, <1>7, <1>8
<1>12. c.op \in Ops /\ (c.own => c.left >= 0) /\ (c.op \notin Mutations => ~ c.did)
  BY <1>1, <1>4, <1>6, <1>7, <1>8
<1>13. Kept(c, Received(c, a)) BY <1>6, <1>8, <1>9, <1>10, <1>11, <1>12, ReceivedKeeps
<1> QED BY <1>5, <1>6, <1>13 DEF Kept

\* A request that may have got through and was not answered.
LEMMA UnheardKeeps ==
    ASSUME CallInv(call), call.pc \in {"request", "backoff", "pause"}, NEW d, d \in BOOLEAN,
           d => call.op \in Mutations, NEW wait \in Int, NEW result \in Results, result # "ok"
    PROVE  LET c == [call EXCEPT !.did = @ \/ d, !.unclear = @ \/ d] IN
           Kept(call, Retry(c, wait, result)) /\ Kept(call, Finish(c, result))
<1> DEFINE c == [call EXCEPT !.did = @ \/ d, !.unclear = @ \/ d]
<1>1. call \in Calls /\ call.op \in Ops /\ (call.did => call.unclear) /\ (call.own => call.left >= 0)
      /\ (call.op \notin Mutations => ~ call.did)
  BY DEF CallInv
<1>c. c = [call EXCEPT !.did = @ \/ d, !.unclear = @ \/ d] OBVIOUS
<1> HIDE DEF c
<1>2. /\ c \in Calls /\ c.op = call.op /\ c.own = call.own /\ c.left = call.left
      /\ (c.did <=> call.did \/ d) /\ (c.unclear <=> call.unclear \/ d)
  <2>1. (call.did \/ d) \in BOOLEAN /\ (call.unclear \/ d) \in BOOLEAN BY <1>1, <1>c
  <2>2. c \in Calls BY <1>1, <1>c, <2>1 DEF Calls
  <2>3. c.op = call.op /\ c.own = call.own /\ c.left = call.left BY <1>1, <1>c DEF Calls
  <2>4. (c.did <=> call.did \/ d) /\ (c.unclear <=> call.unclear \/ d) BY <1>1, <1>c DEF Calls
  <2> QED BY <2>2, <2>3, <2>4
<1>3. /\ c.op \in Ops /\ (c.own => c.left >= 0) /\ (c.op \notin Mutations => ~ c.did)
      /\ (c.did => c.unclear)
  BY <1>1, <1>2
<1>4. Kept(c, Retry(c, wait, result)) BY <1>2, <1>3, RetryKeeps
<1>5. Kept(c, Finish(c, result)) BY <1>2, <1>3, FinishError
<1>6. Kept(call, Retry(c, wait, result)) /\ Kept(call, Finish(c, result)) BY <1>2, <1>4, <1>5 DEF Kept
<1> QED BY <1>6 DEF c

\* A connection that fails, a context that ends and a timeout.
LEMMA LostKeeps ==
    ASSUME CallInv(call), Lost \/ Interrupt \/ TimedOut PROVE Kept(call, call')
<1>0. call \in Calls BY DEF CallInv
<1>1. Backoff(call) \in Int
  <2>1. call.attempt \in Nat BY <1>0 DEF Calls
  <2> QED BY <2>1 DEF Backoff
<1> DEFINE w == Backoff(call)
           C(d) == [call EXCEPT !.did = @ \/ d, !.unclear = @ \/ d]
<1>2. \A r \in {"transport", "deadline", "canceled"} : r \in Results /\ r # "ok" BY DEF Results
<1>3. ASSUME NEW d, d \in BOOLEAN, d => call.op \in Mutations, call.pc \in {"request", "backoff", "pause"},
             NEW r \in {"transport", "deadline", "canceled"}
      PROVE  Kept(call, Retry(C(d), w, r)) /\ Kept(call, Finish(C(d), r))
  <2> HIDE DEF w
  <2> QED BY <1>1, <1>2, <1>3, UnheardKeeps DEF w
<1>4. CASE Lost
  <2>1. PICK does \in BOOLEAN :
          call' = Retry(C(Does(Answer(0, "none", "none", does /\ call.op \in Mutations))), w, "transport")
    BY <1>4 DEF Lost
  <2> DEFINE d == Does(Answer(0, "none", "none", does /\ call.op \in Mutations))
  <2>2. d \in BOOLEAN /\ (d => call.op \in Mutations) BY DEF Does, Answer
  <2>3. call.pc \in {"request", "backoff", "pause"} BY <1>4 DEF Lost
  <2>4. call' = Retry(C(d), w, "transport") BY <2>1
  <2> HIDE DEF d, C, w
  <2>5. Kept(call, Retry(C(d), w, "transport")) BY <2>2, <2>3, <1>3
  <2> QED BY <2>4, <2>5
<1>5. CASE Interrupt
  <2>1. PICK d \in BOOLEAN : /\ d => call.pc = "request" /\ call.op \in Mutations
                             /\ call' = Finish(C(d), CtxErr)
    BY <1>5 DEF Interrupt
  <2>2. call.pc \in {"request", "backoff", "pause"} BY <1>5 DEF Interrupt, Interruptible, Waiting
  <2>3. CtxErr \in {"transport", "deadline", "canceled"} BY DEF CtxErr
  <2> HIDE DEF C, w
  <2>4. Kept(call, Finish(C(d), CtxErr)) BY <2>1, <2>2, <2>3, <1>3
  <2> QED BY <2>1, <2>4
<1>6. CASE TimedOut
  <2>1. PICK d \in BOOLEAN : /\ d => call.op \in Mutations
                             /\ call' = Retry(C(d), w, "deadline")
    BY <1>6 DEF TimedOut
  <2>2. call.pc \in {"request", "backoff", "pause"} BY <1>6 DEF TimedOut
  <2> HIDE DEF C, w
  <2>3. Kept(call, Retry(C(d), w, "deadline")) BY <2>1, <2>2, <1>3
  <2> QED BY <2>1, <2>3
<1> QED BY <1>4, <1>5, <1>6

\* Timers.  A clock that ticks before the deadline does not pass it.
LEMMA TimerKeeps ==
    ASSUME CallInv(call), Wake \/ Tick \/ Cancel PROVE Kept(call, call')
<1>0. call \in Calls /\ call.op \in Ops /\ (call.did => call.unclear) /\ (call.own => call.left >= 0)
      /\ (call.op \notin Mutations => ~ call.did) /\ call.pc \in {"request", "backoff", "pause"}
  BY DEF CallInv, Wake, Tick, Cancel, Waiting
<1>1. CASE Wake
  <2>1. Timeout \in Int /\ busyRetryMaxDelay \in Int BY ClientAssumption
  <2>2. Min({2 * call.delay, busyRetryMaxDelay}) \in Int
    <3>1. 2 * call.delay \in Int BY <1>0 DEF Calls
    <3> QED BY <3>1, <2>1, MaxMin
  <2>3. CASE call' = [call EXCEPT !.pc = "request", !.timer = Timeout]
    <3>1. call' \in Calls /\ call'.pc = "request" BY <1>0, <2>1, <2>3 DEF Calls
    <3>2. call'.op = call.op /\ call'.own = call.own /\ call'.left = call.left
          /\ call'.did = call.did /\ call'.unclear = call.unclear
      BY <1>0, <2>3 DEF Calls
    <3> QED BY <1>0, <3>1, <3>2 DEF CallInv, Kept
  <2>4. CASE call' = Send([call EXCEPT !.attempt = 0, !.delay = Min({2 * @, busyRetryMaxDelay})])
    <3> DEFINE m == Min({2 * call.delay, busyRetryMaxDelay})
               e == [call EXCEPT !.attempt = 0, !.delay = m]
    <3>0. call' = [e EXCEPT !.pc = "request", !.timer = Timeout] BY <2>4, <1>0 DEF Send, Calls
    <3> HIDE DEF m
    <3>1. e \in Calls BY <1>0, <2>2 DEF Calls, m
    <3>2. e.op = call.op /\ e.own = call.own /\ e.left = call.left /\ e.did = call.did /\ e.unclear = call.unclear
      BY <1>0 DEF Calls
    <3> HIDE DEF e
    <3>3. call' \in Calls /\ call'.pc = "request" BY <3>0, <3>1, <2>1 DEF Calls
    <3>4. call'.op = e.op /\ call'.own = e.own /\ call'.left = e.left
          /\ call'.did = e.did /\ call'.unclear = e.unclear
      BY <3>0, <3>1 DEF Calls
    <3> QED BY <1>0, <3>2, <3>3, <3>4 DEF CallInv, Kept
  <2> QED BY <1>1, <2>3, <2>4 DEF Wake, Send
<1>2. CASE Tick
  <2> DEFINE m == Max({call.left - 1, -RoundTripMax - 1})
  <2>1. call.left \in Int /\ call.timer \in Int BY <1>0 DEF Calls
  <2>2. call.left - 1 \in Int /\ -RoundTripMax - 1 \in Int BY <2>1, RoundTripType
  <2>3. m \in Int /\ m >= call.left - 1 BY <2>2, MaxMin
  <2>4. call' = [call EXCEPT !.timer = @ - 1, !.left = m] BY <1>2 DEF Tick
  <2>5. call.own => call.left > 0 BY <1>0, <1>2, <2>1 DEF Tick, Interruptible, CtxDone
  <2> HIDE DEF m
  <2>t. call.timer - 1 \in Int BY <2>1
  <2>6. call' \in Calls /\ call'.pc = call.pc BY <1>0, <2>t, <2>3, <2>4 DEF Calls
  <2>7. call'.op = call.op /\ call'.own = call.own /\ call'.left = m
        /\ call'.did = call.did /\ call'.unclear = call.unclear
    BY <1>0, <2>4 DEF Calls
  <2>8. call.own => m >= 0 BY <2>1, <2>3, <2>5
  <2> QED BY <1>0, <2>6, <2>7, <2>8 DEF CallInv, Kept
<1>3. CASE Cancel
  <2>1. call' = [call EXCEPT !.cancelled = TRUE] BY <1>3 DEF Cancel
  <2>2. call' \in Calls /\ call'.pc = call.pc BY <1>0, <2>1 DEF Calls
  <2>3. call'.op = call.op /\ call'.own = call.own /\ call'.left = call.left
        /\ call'.did = call.did /\ call'.unclear = call.unclear
    BY <1>0, <2>1 DEF Calls
  <2> QED BY <1>0, <2>2, <2>3 DEF CallInv, Kept
<1> QED BY <1>1, <1>2, <1>3

\* No call, and the start of one in the context of the last.
LEMMA NoCallInv ==
    CallInv(NoCall) /\ \A b \in BOOLEAN : CallInv([NoCall EXCEPT !.cancelled = b])
<1>1. NoCall \in Calls BY ClientAssumption DEF NoCall, Calls, Results, Bodies
<1>2. NoCall.own = FALSE /\ NoCall.op = "none" /\ NoCall.pc = "idle" /\ ~ NoCall.did BY DEF NoCall
<1>3. ASSUME NEW b \in BOOLEAN PROVE CallInv([NoCall EXCEPT !.cancelled = b])
  <2> DEFINE e == [NoCall EXCEPT !.cancelled = b]
  <2>1. e \in Calls BY <1>1 DEF Calls
  <2>2. e.own = NoCall.own /\ e.op = NoCall.op /\ e.pc = NoCall.pc /\ e.did = NoCall.did BY <1>1 DEF Calls
  <2> HIDE DEF e
  <2>3. CallInv(e) BY <1>2, <2>1, <2>2 DEF CallInv
  <2> QED BY <2>3 DEF e
<1> QED BY <1>1, <1>2, <1>3 DEF CallInv

\* A call starts with nothing done, and with the time that is left.
LEMMA BeginInv ==
    ASSUME CallInv(call), NEW op \in Ops
    PROVE  CallInv(Begin(op)) /\ Begin(op).op = op /\ Begin(op).pc = "request"
<1> DEFINE left == IF call.own THEN call.left ELSE defaultBusyRetryBudget
           e == [NoCall EXCEPT !.op = op, !.own = call.own, !.cancelled = call.cancelled, !.left = left]
           d == [e EXCEPT !.pc = "request", !.timer = Timeout]
<1>1. Begin(op) = d BY DEF Begin, Send
<1>2. NoCall \in Calls /\ call \in Calls BY NoCallInv DEF CallInv
<1>3. call.own \in BOOLEAN /\ call.cancelled \in BOOLEAN /\ call.left \in Int BY <1>2 DEF Calls
<1>4. left \in Int /\ (call.own => left >= 0)
  <2>1. defaultBusyRetryBudget \in Int BY ClientAssumption
  <2>2. call.own => call.left >= 0 BY DEF CallInv
  <2> QED BY <1>3, <2>1, <2>2
<1>5. ~ NoCall.did BY DEF NoCall
<1> HIDE DEF left
<1>6. e \in Calls BY <1>2, <1>3, <1>4 DEF Calls, Ops
<1>7. e.op = op /\ e.own = call.own /\ e.left = left /\ e.did = NoCall.did BY <1>2 DEF Calls
<1> HIDE DEF e
<1>8. Timeout \in Int BY ClientAssumption
<1>9. d \in Calls BY <1>6, <1>8 DEF Calls
<1>10. d.pc = "request" /\ d.op = e.op /\ d.own = e.own /\ d.left = e.left /\ d.did = e.did BY <1>6 DEF Calls
<1> HIDE DEF d
<1>11. CallInv(d) BY <1>4, <1>5, <1>7, <1>9, <1>10 DEF CallInv
<1> QED BY <1>1, <1>7, <1>10, <1>11

\* A purge's time in the database counts, and the client may go.
LEMMA DbTimeKeeps ==
    ASSUME CallInv(call), DbTick \/ DbCancel PROVE CallInv(call')
<1>0. call \in Calls BY DEF CallInv
<1>1. CASE DbTick
  <2>1. call.left \in Int /\ call.left > 0 BY <1>0, <1>1 DEF DbTick, Calls
  <2>2. call.left - 1 \in Int /\ call.left - 1 >= 0 BY <2>1
  <2>3. call' = [call EXCEPT !.left = @ - 1] BY <1>1 DEF DbTick
  <2>4. call' \in Calls BY <1>0, <2>2, <2>3 DEF Calls
  <2>5. call'.left = call.left - 1 BY <1>0, <2>3 DEF Calls
  <2>6. /\ call'.pc = call.pc /\ call'.op = call.op /\ call'.own = call.own /\ call'.did = call.did
        /\ call'.unclear = call.unclear /\ call'.result = call.result /\ call'.body = call.body
    BY <1>0, <2>3 DEF Calls
  <2>7. CallErr(call') = CallErr(call) BY <2>6 DEF CallErr, wrapUpstream
  <2>8. call'.left >= 0 BY <2>2, <2>5
  <2> QED BY <2>4, <2>6, <2>7, <2>8 DEF CallInv
<1>2. CASE DbCancel
  <2>1. call' = [call EXCEPT !.cancelled = TRUE] BY <1>2 DEF DbCancel
  <2>2. call' \in Calls BY <1>0, <2>1 DEF Calls
  <2>3. /\ call'.pc = call.pc /\ call'.op = call.op /\ call'.own = call.own /\ call'.did = call.did
        /\ call'.unclear = call.unclear /\ call'.result = call.result /\ call'.body = call.body
        /\ call'.left = call.left
    BY <1>0, <2>1 DEF Calls
  <2>4. CallErr(call') = CallErr(call) BY <2>3 DEF CallErr, wrapUpstream
  <2> QED BY <2>2, <2>3, <2>4 DEF CallInv
<1> QED BY <1>1, <1>2

-----------------------------------------------------------------------------
(* The budget of a call without a deadline.                                 *)

\* An attempt and the wait before it.
Lap == Timeout + LongestWait

\* What is left of the budget, by the attempts that are over and the timer
\* that runs.  A pause ends with some of it left.
PollInv(c) ==
    /\ c \in Calls /\ c.attempt <= retryMax /\ c.delay >= 0
    /\ c.pc = "request" => c.timer >= 0
    /\ ~ c.own =>
         /\ c.pc = "request" => c.left >= c.timer - Timeout - c.attempt * Lap
         /\ c.pc = "backoff" => c.left >= c.timer - c.attempt * Lap
         /\ c.pc = "pause" => c.left >= c.timer
         /\ c.left >= -RoundTripMax

\* The clock's fields are those of another call.
SameClock(c, d) ==
    /\ d.pc = c.pc /\ d.attempt = c.attempt /\ d.timer = c.timer /\ d.delay = c.delay
    /\ d.own = c.own /\ d.left = c.left

\* Laps add up.
LEMMA Laps ==
    /\ Lap \in Nat /\ Timeout \in Nat /\ retryMax \in Nat /\ RoundTripMax \in Int
    /\ RoundTripMax = retryMax * Lap + Timeout
    /\ \A a \in Nat : a * Lap \in Nat /\ (a + 1) * Lap = a * Lap + Lap
    /\ \A a \in Nat : a <= retryMax => a * Lap <= retryMax * Lap
<1>1. Timeout \in Nat /\ retryMax \in Nat BY ClientAssumption
<1>2. Lap \in Nat BY <1>1, RoundTripType DEF Lap
<1>3. RoundTripMax \in Int /\ RoundTripMax = retryMax * Lap + Timeout BY RoundTripType DEF Lap
<1> HIDE DEF Lap
<1>4. ASSUME NEW a \in Nat PROVE a * Lap \in Nat /\ (a + 1) * Lap = a * Lap + Lap BY <1>2
<1>5. ASSUME NEW a \in Nat, a <= retryMax PROVE a * Lap <= retryMax * Lap
  <2>1. PICK e \in Nat : retryMax = a + e
    <3>1. retryMax - a \in Nat /\ retryMax = a + (retryMax - a) BY <1>1, <1>5
    <3> QED BY <3>1
  <2>2. e * Lap \in Nat /\ a * Lap \in Nat BY <1>2
  <2>3. (a + e) * Lap = a * Lap + e * Lap BY <1>2
  <2> QED BY <2>1, <2>2, <2>3
<1> QED BY <1>1, <1>2, <1>3, <1>4, <1>5

\* A clock that another call shares.
LEMMA SameClockPoll ==
    ASSUME NEW c, NEW d \in Calls, PollInv(c), SameClock(c, d) PROVE PollInv(d)
BY DEF PollInv, SameClock

\* The end of a call.
LEMMA PollFinish ==
    ASSUME NEW c, PollInv(c), NEW result \in Results
    PROVE  PollInv(Finish(c, result))
<1> DEFINE d == Finish(c, result)
<1>0. c \in Calls BY DEF PollInv
<1>1. d \in Calls BY <1>0 DEF Finish, Calls
<1>2. d.pc = "done" /\ d.attempt = c.attempt /\ d.delay = c.delay /\ d.own = c.own /\ d.left = c.left
  BY <1>0 DEF Finish, Calls
<1> HIDE DEF d
<1>3. PollInv(d) BY <1>1, <1>2 DEF PollInv
<1> QED BY <1>3 DEF d

\* The wait before the next attempt.
LEMMA PollRetry ==
    ASSUME NEW c, PollInv(c), c.pc = "request", NEW result \in Results,
           NEW wait \in Int, c.attempt < retryMax => wait <= LongestWait
    PROVE  PollInv(Retry(c, wait, result))
<1>0. c \in Calls BY DEF PollInv
<1>1. CASE c.attempt < retryMax
  <2> DEFINE d == [c EXCEPT !.pc = "backoff", !.attempt = @ + 1, !.timer = wait]
             a == c.attempt
  <2>1. a \in Nat /\ a + 1 \in Nat /\ c.timer \in Int /\ c.left \in Int BY <1>0 DEF Calls
  <2>2. d \in Calls BY <1>0, <2>1 DEF Calls
  <2>3. d.pc = "backoff" /\ d.attempt = a + 1 /\ d.timer = wait /\ d.delay = c.delay /\ d.own = c.own
        /\ d.left = c.left
    BY <1>0 DEF Calls
  <2>4. Retry(c, wait, result) = d BY <1>1 DEF Retry
  <2> HIDE DEF d
  <2>5. a + 1 <= retryMax BY <1>1, <2>1, Laps
  <2>6. c.own \/ c.left >= wait - (a + 1) * Lap
    <3> SUFFICES ASSUME ~ c.own PROVE c.left >= wait - (a + 1) * Lap OBVIOUS
    <3>1. c.left >= c.timer - Timeout - a * Lap /\ c.timer >= 0 BY DEF PollInv
    <3>2. (a + 1) * Lap = a * Lap + Lap /\ a * Lap \in Nat /\ Timeout \in Nat BY <2>1, Laps
    <3>3. Lap = Timeout + LongestWait /\ LongestWait \in Nat BY RoundTripType DEF Lap
    <3>4. wait <= LongestWait BY <1>1
    <3> HIDE DEF a
    <3> QED BY <2>1, <3>1, <3>2, <3>3, <3>4
  <2>7. PollInv(d) BY <2>2, <2>3, <2>5, <2>6 DEF PollInv
  <2> QED BY <2>4, <2>7
<1>2. CASE ~ (c.attempt < retryMax) BY <1>2, PollFinish DEF Retry
<1> QED BY <1>1, <1>2

\* A pause between polls fits in what is left.
LEMMA PollBusy ==
    ASSUME NEW c, PollInv(c) PROVE PollInv(DeleteBusy(c))
<1>0. c \in Calls BY DEF PollInv
<1>1. CASE c.delay > c.left
  <2>1. "busy" \in Results BY DEF Results
  <2>2. PollInv(Finish(c, "busy")) BY <2>1, PollFinish
  <2> QED BY <1>1, <2>2 DEF DeleteBusy
<1>2. CASE ~ (c.delay > c.left)
  <2> DEFINE d == [c EXCEPT !.pc = "pause", !.timer = c.delay]
  <2>1. c.delay \in Int /\ c.left \in Int BY <1>0 DEF Calls
  <2>2. d \in Calls BY <1>0, <2>1 DEF Calls
  <2>3. d.pc = "pause" /\ d.attempt = c.attempt /\ d.timer = c.delay /\ d.delay = c.delay /\ d.own = c.own
        /\ d.left = c.left
    BY <1>0 DEF Calls
  <2>4. DeleteBusy(c) = d BY <1>2 DEF DeleteBusy
  <2> HIDE DEF d
  <2>5. c.left >= c.delay BY <1>2, <2>1
  <2>6. PollInv(d) BY <2>2, <2>3, <2>5 DEF PollInv
  <2> QED BY <2>4, <2>6
<1> QED BY <1>1, <1>2

\* An answer: the next attempt, the next poll or the end of the call.
LEMMA PollReceived ==
    ASSUME NEW c, PollInv(c), c.pc = "request", NEW a \in Answers
    PROVE  PollInv(Received(c, a))
<1>0. c \in Calls /\ c.attempt <= retryMax BY DEF PollInv
<1> DEFINE wait == IF a.retryAfter = "none" THEN Backoff(c)
                   ELSE IF a.retryAfter = "now" THEN 0 ELSE maxRetryAfter
           res == HttpError(a.status)
           body == a.body
           e == [c EXCEPT !.body = body]
<1>1. wait \in Int /\ (c.attempt < retryMax => wait <= LongestWait)
  <2>0. c.attempt \in Nat /\ retryMax \in Nat BY <1>0, ClientAssumption DEF Calls
  <2>1. c.attempt < retryMax => c.attempt \in 0..(retryMax - 1) BY <2>0
  <2>a. Backoff(c) \in Int BY <2>0 DEF Backoff
  <2>2. Backoff(c) \in Int /\ (c.attempt < retryMax => Backoff(c) <= LongestWait)
    BY <2>a, <2>1, RoundTripType DEF Backoff
  <2>3. maxRetryAfter \in Nat /\ LongestWait \in Nat /\ maxRetryAfter <= LongestWait
    BY ClientAssumption, RoundTripType
  <2> QED BY <2>2, <2>3
<1>2. a.status \in {200, 400, 404, 422, 429, 500, 503} /\ body \in Bodies BY DEF Answers
<1>3. res \in Results BY <1>2 DEF HttpError, Results
<1>4. {"decode", "logical", "ok"} \subseteq Results BY DEF Results
<1>5. e \in Calls /\ SameClock(c, e) BY <1>0, <1>2 DEF Calls, SameClock
<1>6. Received(c, a) \in {Retry(c, wait, res), Finish(c, res), Finish(c, "decode"), DeleteBusy(c),
                          Finish(c, "logical"), Finish(e, "ok")}
  BY DEF Received, Accepted
<1> HIDE DEF wait, res, e, body
<1>7. PollInv(Retry(c, wait, res)) /\ PollInv(Finish(c, res)) BY <1>1, <1>3, PollRetry, PollFinish
<1>8. PollInv(e) BY <1>5, SameClockPoll
<1>9. PollInv(Finish(c, "decode")) /\ PollInv(Finish(c, "logical")) /\ PollInv(Finish(e, "ok"))
  BY <1>4, <1>8, PollFinish
<1>10. PollInv(DeleteBusy(c)) BY PollBusy
<1> QED BY <1>6, <1>7, <1>9, <1>10

\* Time passes: a timer that runs ends with its attempt, its wait or its pause
\* paid for.
LEMMA PollTick ==
    ASSUME PollInv(call), Tick PROVE PollInv(call')
<1>0. call \in Calls /\ call.pc \in {"request", "backoff", "pause"} BY DEF PollInv, Tick, Waiting
<1> DEFINE m == Max({call.left - 1, -RoundTripMax - 1})
           a == call.attempt
<1>1. call.left \in Int /\ call.timer \in Int /\ call.timer > 0 /\ a \in Nat /\ a <= retryMax
  BY <1>0 DEF Calls, Tick, PollInv
<1>2. m \in Int /\ m >= call.left - 1
  <2>1. call.left - 1 \in Int /\ -RoundTripMax - 1 \in Int BY <1>1, RoundTripType
  <2> QED BY <2>1, MaxMin
<1>3. call' = [call EXCEPT !.timer = @ - 1, !.left = m] BY DEF Tick
<1> HIDE DEF m
<1>4. call.timer - 1 \in Int BY <1>1
<1>5. call' \in Calls BY <1>0, <1>2, <1>3, <1>4 DEF Calls
<1>6. call'.pc = call.pc /\ call'.attempt = a /\ call'.timer = call.timer - 1 /\ call'.delay = call.delay
      /\ call'.own = call.own /\ call'.left = m
  BY <1>0, <1>3 DEF Calls
<1>7. a * Lap \in Nat /\ a * Lap <= retryMax * Lap /\ retryMax * Lap \in Nat BY <1>1, Laps
<1>8. Timeout \in Nat /\ RoundTripMax \in Int /\ RoundTripMax = retryMax * Lap + Timeout BY Laps
<1> HIDE DEF a
<1>9. ASSUME ~ call.own
      PROVE  /\ call.pc = "request" => m >= (call.timer - 1) - Timeout - a * Lap
             /\ call.pc = "backoff" => m >= (call.timer - 1) - a * Lap
             /\ call.pc = "pause" => m >= call.timer - 1
             /\ m >= -RoundTripMax
  <2>1. /\ call.pc = "request" => call.left >= call.timer - Timeout - a * Lap
        /\ call.pc = "backoff" => call.left >= call.timer - a * Lap
        /\ call.pc = "pause" => call.left >= call.timer
    BY <1>9 DEF PollInv, a
  <2> DEFINE p == a * Lap
             R == retryMax * Lap
  <2> HIDE DEF p, R
  <2>2. p \in Nat /\ R \in Nat /\ p <= R /\ RoundTripMax = R + Timeout BY <1>7, <1>8 DEF p, R
  <2>3. CASE call.pc = "request"
    <3>1. call.left >= call.timer - Timeout - p BY <2>1, <2>3 DEF p
    <3>2. m >= (call.timer - 1) - Timeout - p /\ m >= -RoundTripMax BY <1>1, <1>2, <1>8, <2>2, <3>1
    <3> QED BY <2>3, <3>2 DEF p
  <2>4. CASE call.pc = "backoff"
    <3>1. call.left >= call.timer - p BY <2>1, <2>4 DEF p
    <3>2. m >= (call.timer - 1) - p /\ m >= -RoundTripMax BY <1>1, <1>2, <1>8, <2>2, <3>1
    <3> QED BY <2>4, <3>2 DEF p
  <2>5. CASE call.pc = "pause"
    <3>1. m >= call.timer - 1 /\ m >= -RoundTripMax BY <1>1, <1>2, <1>8, <2>1, <2>2, <2>5
    <3> QED BY <2>5, <3>1
  <2> QED BY <1>0, <2>3, <2>4, <2>5
<1>10. call.timer - 1 >= 0 BY <1>1
<1> QED BY <1>1, <1>5, <1>6, <1>9, <1>10 DEF PollInv, a

\* A wait is over.  A new round of attempts starts with budget left.
LEMMA PollWake ==
    ASSUME PollInv(call), Wake PROVE PollInv(call')
<1>0. call \in Calls /\ call.pc \in {"backoff", "pause"} /\ call.timer = 0 BY DEF PollInv, Wake
<1>1. call.left \in Int /\ call.delay \in Int /\ call.attempt \in Nat BY <1>0 DEF Calls
<1>2. Timeout \in Nat /\ Timeout \in Int /\ RoundTripMax \in Int /\ busyRetryMaxDelay \in Nat /\ retryMax \in Nat
  BY Laps, ClientAssumption
<1>3. CASE call.pc = "backoff"
  <2>1. call' = [call EXCEPT !.pc = "request", !.timer = Timeout] BY <1>3 DEF Wake, Send
  <2>2. call' \in Calls BY <1>0, <1>2, <2>1 DEF Calls
  <2>3. call'.pc = "request" /\ call'.attempt = call.attempt /\ call'.timer = Timeout /\ call'.delay = call.delay
        /\ call'.own = call.own /\ call'.left = call.left
    BY <1>0, <2>1 DEF Calls
  <2> DEFINE p == call.attempt * Lap
  <2>4. p \in Nat BY <1>1, Laps
  <2>5. ~ call.own => call.left >= 0 - p BY <1>0, <1>3 DEF PollInv
  <2> HIDE DEF p
  <2>6. ~ call.own => call.left >= Timeout - Timeout - p BY <1>1, <1>2, <2>4, <2>5
  <2> QED BY <1>2, <2>2, <2>3, <2>6 DEF PollInv, p
<1>4. CASE call.pc = "pause"
  <2> DEFINE m == Min({2 * call.delay, busyRetryMaxDelay})
             e == [call EXCEPT !.attempt = 0, !.delay = m]
  <2>1. call' = [e EXCEPT !.pc = "request", !.timer = Timeout] BY <1>4 DEF Wake, Send
  <2>2. m \in {2 * call.delay, busyRetryMaxDelay}
    <3>1. 2 * call.delay \in Int BY <1>1
    <3>2. \E x \in {2 * call.delay, busyRetryMaxDelay} : \A y \in {2 * call.delay, busyRetryMaxDelay} : x <= y
      BY <1>2, <3>1
    <3> QED BY <3>2 DEF Min
  <2>3. call.delay >= 0 BY DEF PollInv
  <2>4. m \in Int /\ m >= 0 BY <1>1, <1>2, <2>2, <2>3
  <2> HIDE DEF m
  <2>5. e \in Calls BY <1>0, <2>4 DEF Calls
  <2>6. e.attempt = 0 /\ e.delay = m /\ e.own = call.own /\ e.left = call.left BY <1>0 DEF Calls
  <2> HIDE DEF e
  <2>7. call' \in Calls BY <1>2, <2>1, <2>5 DEF Calls
  <2>8. call'.pc = "request" /\ call'.attempt = e.attempt /\ call'.timer = Timeout /\ call'.delay = e.delay
        /\ call'.own = e.own /\ call'.left = e.left
    BY <2>1, <2>5 DEF Calls
  <2>9. ~ call.own => call.left >= 0 /\ call.left >= -RoundTripMax BY <1>0, <1>4 DEF PollInv
  <2>10. 0 * Lap = 0 BY Laps
  <2>11. ~ call.own => call.left >= Timeout - Timeout - 0 * Lap BY <1>1, <1>2, <2>9, <2>10
  <2>12. 0 <= retryMax /\ Timeout >= 0 BY <1>2
  <2> QED BY <2>4, <2>6, <2>7, <2>8, <2>9, <2>11, <2>12 DEF PollInv
<1> QED BY <1>0, <1>3, <1>4

\* A step of the client.
LEMMA PollClient ==
    ASSUME CallInv(call), PollInv(call), ClientStep \/ Cancel PROVE PollInv(call')
<1>0. call \in Calls /\ call.attempt <= retryMax BY DEF PollInv
<1> DEFINE C(d, u) == [call EXCEPT !.did = @ \/ d, !.unclear = @ \/ u]
<1>1. ASSUME NEW d, NEW u, d \in BOOLEAN, u \in BOOLEAN 
      PROVE  PollInv(C(d, u)) /\ C(d, u).pc = call.pc /\ C(d, u).attempt = call.attempt
  <2> DEFINE c == C(d, u)
  <2>1. (call.did \/ d) \in BOOLEAN /\ (call.unclear \/ u) \in BOOLEAN BY <1>1
  <2>2. c \in Calls BY <1>0, <2>1 DEF Calls
  <2>3. SameClock(call, c) BY <1>0 DEF Calls, SameClock
  <2> HIDE DEF c
  <2>4. PollInv(c) /\ c.pc = call.pc /\ c.attempt = call.attempt BY <2>2, <2>3, SameClockPoll DEF SameClock
  <2> QED BY <2>4 DEF c
<1>2. Backoff(call) \in Int /\ (call.attempt < retryMax => Backoff(call) <= LongestWait)
  <2>0. call.attempt \in Nat /\ retryMax \in Nat BY <1>0, ClientAssumption DEF Calls
  <2>1. call.attempt < retryMax => call.attempt \in 0..(retryMax - 1) BY <2>0
  <2>2. Backoff(call) \in Int BY <2>0 DEF Backoff
  <2> QED BY <2>1, <2>2, RoundTripType DEF Backoff
<1>3. {"transport", "deadline", "canceled"} \subseteq Results BY DEF Results
<1> DEFINE w == Backoff(call)
<1>4. CASE Reply
  <2>1. call.pc = "request" /\ call.op \in Ops BY <1>4 DEF Reply, CallInv
  <2>2. PICK a \in Served(call.op) \cup Failed(call.op) : call' = Received(C(Does(a), Does(a) /\ ~ Heard(a)), a)
    BY <1>4 DEF Reply, Heard
  <2> DEFINE op == call.op
             d == Does(a)
             u == Does(a) /\ ~ Heard(a)
             c == C(d, u)
  <2>3. d \in BOOLEAN /\ u \in BOOLEAN BY DEF Does, Heard
  <2>4. call' = Received(c, a) BY <2>2
  <2> HIDE DEF d, u, C
  <2>5. PollInv(c) /\ c.pc = "request" BY <1>1, <2>1, <2>3
  <2>6. op \in Ops /\ op = call.op /\ a \in Served(op) \cup Failed(op) BY <2>1
  <2> HIDE DEF op, c
  <2>7. a \in Answers BY <2>6, AnswerShape
  <2> QED BY <2>4, <2>5, <2>7, PollReceived
<1>5. CASE Lost
  <2>1. call.pc = "request" BY <1>5 DEF Lost
  <2>2. PICK does \in BOOLEAN :
          call' = Retry(C(Does(Answer(0, "none", "none", does /\ call.op \in Mutations)),
                          Does(Answer(0, "none", "none", does /\ call.op \in Mutations))), w, "transport")
    BY <1>5 DEF Lost
  <2> DEFINE d == Does(Answer(0, "none", "none", does /\ call.op \in Mutations))
             c == C(d, d)
  <2>3. d \in BOOLEAN BY DEF Does, Answer
  <2>4. call' = Retry(c, w, "transport") BY <2>2
  <2> HIDE DEF d, C, w
  <2>5. PollInv(c) /\ c.pc = "request" /\ c.attempt = call.attempt BY <1>1, <2>1, <2>3
  <2> HIDE DEF c
  <2>6. w \in Int /\ (c.attempt < retryMax => w <= LongestWait) BY <1>2, <2>5 DEF w
  <2> QED BY <1>3, <2>4, <2>5, <2>6, PollRetry
<1>6. CASE Interrupt
  <2>1. PICK d \in BOOLEAN : call' = Finish(C(d, d), CtxErr) BY <1>6 DEF Interrupt
  <2>2. CtxErr \in Results BY DEF CtxErr, Results
  <2> DEFINE c == C(d, d)
             res == CtxErr
  <2>3. call' = Finish(c, res) BY <2>1
  <2> HIDE DEF C
  <2>4. PollInv(c) BY <1>1
  <2> HIDE DEF c, res
  <2> QED BY <2>2, <2>3, <2>4, PollFinish DEF res
<1>7. CASE TimedOut
  <2>1. call.pc = "request" BY <1>7 DEF TimedOut
  <2>2. PICK d \in BOOLEAN : call' = Retry(C(d, d), w, "deadline") BY <1>7 DEF TimedOut
  <2> DEFINE c == C(d, d)
  <2>3. call' = Retry(c, w, "deadline") BY <2>2
  <2> HIDE DEF C, w
  <2>4. PollInv(c) /\ c.pc = "request" /\ c.attempt = call.attempt BY <1>1, <2>1
  <2> HIDE DEF c
  <2>5. w \in Int /\ (c.attempt < retryMax => w <= LongestWait) BY <1>2, <2>4 DEF w
  <2> QED BY <1>3, <2>3, <2>4, <2>5, PollRetry
<1>8. CASE Cancel
  <2>1. call' = [call EXCEPT !.cancelled = TRUE] BY <1>8 DEF Cancel
  <2>2. call' \in Calls /\ SameClock(call, call') BY <1>0, <2>1 DEF Calls, SameClock
  <2> QED BY <2>2, SameClockPoll
<1> QED BY <1>4, <1>5, <1>6, <1>7, <1>8, PollTick, PollWake DEF ClientStep

\* A call starts with its budget.
LEMMA PollBegin ==
    ASSUME CallInv(call), NEW op \in Ops PROVE PollInv(Begin(op))
<1> DEFINE left == IF call.own THEN call.left ELSE defaultBusyRetryBudget
           e == [NoCall EXCEPT !.op = op, !.own = call.own, !.cancelled = call.cancelled, !.left = left]
           d == [e EXCEPT !.pc = "request", !.timer = Timeout]
<1>1. Begin(op) = d BY DEF Begin, Send
<1>2. NoCall \in Calls /\ call \in Calls BY NoCallInv DEF CallInv
<1>3. call.own \in BOOLEAN /\ call.cancelled \in BOOLEAN /\ call.left \in Int BY <1>2 DEF Calls
<1>4. left \in Int /\ (~ call.own => left >= 0)
  <2>1. defaultBusyRetryBudget \in Nat BY ClientAssumption
  <2> QED BY <1>3, <2>1
<1>5. NoCall.attempt = 0 /\ NoCall.delay = 1 BY DEF NoCall
<1> HIDE DEF left
<1>6. e \in Calls BY <1>2, <1>3, <1>4 DEF Calls, Ops
<1>7. e.own = call.own /\ e.left = left /\ e.attempt = NoCall.attempt /\ e.delay = NoCall.delay BY <1>2 DEF Calls
<1> HIDE DEF e
<1>8. Timeout \in Nat /\ Timeout \in Int /\ Timeout >= 0 /\ 0 <= retryMax BY ClientAssumption
<1>9. d \in Calls BY <1>6, <1>8 DEF Calls
<1>10. d.pc = "request" /\ d.own = e.own /\ d.left = e.left /\ d.attempt = e.attempt /\ d.delay = e.delay
       /\ d.timer = Timeout
  BY <1>6 DEF Calls
<1> HIDE DEF d
<1>11. ~ call.own => left >= Timeout - Timeout - 0 * Lap /\ left >= -RoundTripMax
  <2>1. 0 * Lap = 0 /\ retryMax * Lap \in Nat /\ RoundTripMax = retryMax * Lap + Timeout BY Laps
  <2> DEFINE R == retryMax * Lap
  <2>2. 0 * Lap = 0 /\ R \in Nat /\ RoundTripMax = R + Timeout BY <2>1
  <2> HIDE DEF R
  <2> QED BY <1>4, <1>8, <2>2
<1>12. PollInv(d) BY <1>5, <1>7, <1>8, <1>9, <1>10, <1>11 DEF PollInv
<1> QED BY <1>1, <1>12

\* A call that has not begun, in a context with a deadline or without.
LEMMA PollIdle ==
    ASSUME NEW d \in Calls, d.pc = "idle", d.attempt = 0, d.delay = 1, d.own \/ d.left = defaultBusyRetryBudget
    PROVE  PollInv(d)
<1>1. defaultBusyRetryBudget \in Nat /\ Timeout \in Nat BY ClientAssumption
<1>2. retryMax * Lap \in Nat /\ RoundTripMax = retryMax * Lap + Timeout /\ retryMax \in Nat BY Laps
<1> DEFINE R == retryMax * Lap
<1>3. R \in Nat /\ RoundTripMax = R + Timeout BY <1>2
<1> HIDE DEF R
<1>4. defaultBusyRetryBudget >= -RoundTripMax BY <1>1, <1>3
<1> QED BY <1>2, <1>4 DEF PollInv

-----------------------------------------------------------------------------
(* The plans.                                                               *)

\* The routes with a plan of their own.
LEMMA PlanDomains ==
    /\ DOMAIN MemoryPlans = {"createMemory", "getMemory", "deleteMemory", "bulk"}
    /\ DOMAIN QueryPlans = {"query", "describe", "queryData"}
    /\ DOMAIN GraphPlans = {"getEntity", "searchEntities", "patchEntity", "listEdges", "createEdge", "deleteEdge"}
<1>1. DOMAIN MemoryPlans = {"createMemory", "getMemory", "deleteMemory", "bulk"} BY DEF MemoryPlans
<1>2. DOMAIN QueryPlans = {"query", "describe", "queryData"} BY DEF QueryPlans
<1>3. DOMAIN GraphPlans = {"getEntity", "searchEntities", "patchEntity", "listEdges", "createEdge", "deleteEdge"}
  BY DEF GraphPlans
<1> QED BY <1>1, <1>2, <1>3

\* The plan of a route is the one of its table.
LEMMA PlanOf ==
    /\ \A r \in DOMAIN MemoryPlans : Plan(r) = MemoryPlans[r]
    /\ \A r \in DOMAIN QueryPlans : Plan(r) = QueryPlans[r]
    /\ \A r \in DOMAIN GraphPlans : Plan(r) = GraphPlans[r]
<1>1. ASSUME NEW r \in DOMAIN MemoryPlans PROVE Plan(r) = MemoryPlans[r]
  <2>1. r \notin DOMAIN QueryPlans /\ r \notin DOMAIN GraphPlans BY PlanDomains
  <2> QED BY <2>1 DEF Plan
<1>2. ASSUME NEW r \in DOMAIN QueryPlans PROVE Plan(r) = QueryPlans[r]
  <2>1. r \notin DOMAIN MemoryPlans /\ r \notin DOMAIN GraphPlans BY PlanDomains
  <2> QED BY <2>1 DEF Plan
<1>3. ASSUME NEW r \in DOMAIN GraphPlans PROVE Plan(r) = GraphPlans[r]
  <2>1. r \notin DOMAIN MemoryPlans /\ r \notin DOMAIN QueryPlans BY PlanDomains
  <2> QED BY <2>1 DEF Plan
<1> QED BY <1>1, <1>2, <1>3

\* The plan of a bulk request ends with the job, and only there.
LEMMA BulkPlan ==
    /\ Len(Plan("bulk")) = 11 /\ Plan("bulk")[11] = "create_job"
    /\ \A i \in 1..10 : Plan("bulk")[i] # "create_job"
<1> DEFINE S == {"track_ids", "track_status", "mark", "delete_docs", "unindex", "create_job"}
           P == PurgeFile
           J == <<"create_job">>
           PP == P \o P
           A == PP \o J
<1>0. MemoryPlans["bulk"] = A BY DEF MemoryPlans
<1>1. Plan("bulk") = A BY <1>0, PlanDomains, PlanOf
<1>2. P \in Seq(S) /\ Len(P) = 5 BY DEF PurgeFile
<1>3. J \in Seq(S) /\ Len(J) = 1 /\ J[1] = "create_job" OBVIOUS
<1>4. \A j \in 1..5 : P[j] # "create_job" BY DEF PurgeFile
<1> HIDE DEF S, P, J
<1>a. /\ PP \in Seq(S) /\ Len(PP) = Len(P) + Len(P)
      /\ \A i \in 1..(Len(P) + Len(P)) : PP[i] = IF i <= Len(P) THEN P[i] ELSE P[i - Len(P)]
  BY <1>2, ConcatProperties
<1> HIDE DEF PP
<1>5. Len(PP) = 10 /\ \A i \in 1..10 : PP[i] = IF i <= 5 THEN P[i] ELSE P[i - 5]
  BY <1>2, <1>a
<1>b. /\ Len(A) = Len(PP) + Len(J)
      /\ \A i \in 1..(Len(PP) + Len(J)) : A[i] = IF i <= Len(PP) THEN PP[i] ELSE J[i - Len(PP)]
  <2>1. PP \in Seq(S) /\ J \in Seq(S) BY <1>3, <1>a
  <2> QED BY <2>1, ConcatProperties
<1> HIDE DEF A
<1>7. Len(A) = 11 /\ \A i \in 1..11 : A[i] = IF i <= 10 THEN PP[i] ELSE J[i - 10]
  BY <1>3, <1>5, <1>b
<1>8. A[11] = J[1] BY <1>7
<1>9. ASSUME NEW i \in 1..10 PROVE A[i] # "create_job"
  <2>1. A[i] = PP[i] BY <1>7
  <2>2. CASE i <= 5
    <3>1. i \in 1..5 BY <2>2
    <3> QED BY <2>1, <2>2, <3>1, <1>4, <1>5
  <2>3. CASE ~ (i <= 5)
    <3>1. i - 5 \in 1..5 BY <2>3
    <3>2. PP[i] = P[i - 5] BY <2>3, <1>5
    <3> QED BY <2>1, <3>1, <3>2, <1>4
  <2> QED BY <2>2, <2>3
<1> QED BY <1>1, <1>3, <1>7, <1>8, <1>9

\* Every plan has a step, and a job is its last.
LEMMA PlanShape ==
    ASSUME NEW route
    PROVE  /\ Len(Plan(route)) \in Nat /\ Len(Plan(route)) >= 1
           /\ \A n \in 1..Len(Plan(route)) : Plan(route)[n] = "create_job" => n = Len(Plan(route))
<1>1. CASE route = "bulk"
  <2>1. Len(Plan("bulk")) = 11 BY BulkPlan
  <2>2. ASSUME NEW n \in 1..11, Plan("bulk")[n] = "create_job" PROVE n = 11
    <3>1. n \notin 1..10 BY <2>2, BulkPlan
    <3> QED BY <3>1
  <2>3. \A n \in 1..Len(Plan("bulk")) : Plan("bulk")[n] = "create_job" => n = Len(Plan("bulk"))
    BY <2>1, <2>2
  <2>4. Len(Plan("bulk")) \in Nat /\ Len(Plan("bulk")) >= 1 BY <2>1
  <2> QED BY <1>1, <2>3, <2>4
<1>2. ASSUME NEW p, \/ p \in {<<"insert">>, <<"graph">>, <<"label_search">>, <<"update_entity">>,
                              <<"create_relation">>, <<"delete_relation">>}
                    \/ p \in {<<"is_deleted", "track_status">>, <<"query", "filter">>, <<"query_data", "filter">>}
                    \/ p \in {<<"track_status", "mark", "delete_docs">>, <<"label_search", "graph", "graph">>}
      PROVE  Len(p) \in Nat /\ Len(p) >= 1 /\ \A n \in 1..Len(p) : p[n] # "create_job"
  <2>1. CASE p \in {<<"insert">>, <<"graph">>, <<"label_search">>, <<"update_entity">>,
                    <<"create_relation">>, <<"delete_relation">>}
    BY <2>1
  <2>2. CASE p \in {<<"is_deleted", "track_status">>, <<"query", "filter">>, <<"query_data", "filter">>}
    BY <2>2
  <2>3. CASE p \in {<<"track_status", "mark", "delete_docs">>, <<"label_search", "graph", "graph">>}
    BY <2>3
  <2> QED BY <1>2, <2>1, <2>2, <2>3
<1>3. CASE route \in DOMAIN MemoryPlans \ {"bulk"}
  <2>1. /\ MemoryPlans["createMemory"] = <<"insert">>
        /\ MemoryPlans["getMemory"] = <<"is_deleted", "track_status">>
        /\ MemoryPlans["deleteMemory"] = <<"track_status", "mark", "delete_docs">>
    BY DEF MemoryPlans
  <2>2. Plan(route) = MemoryPlans[route] BY <1>3, PlanOf
  <2> QED BY <1>2, <1>3, <2>1, <2>2, PlanDomains
<1>4. CASE route \in DOMAIN QueryPlans
  <2>1. /\ QueryPlans["query"] = <<"query", "filter">> /\ QueryPlans["describe"] = <<"query", "filter">>
        /\ QueryPlans["queryData"] = <<"query_data", "filter">>
    BY DEF QueryPlans
  <2>2. Plan(route) = QueryPlans[route] BY <1>4, PlanOf
  <2> QED BY <1>2, <1>4, <2>1, <2>2, PlanDomains
<1>5. CASE route \in DOMAIN GraphPlans
  <2>1. /\ GraphPlans["getEntity"] = <<"graph">> /\ GraphPlans["searchEntities"] = <<"label_search">>
        /\ GraphPlans["patchEntity"] = <<"update_entity">>
        /\ GraphPlans["listEdges"] = <<"label_search", "graph", "graph">>
        /\ GraphPlans["createEdge"] = <<"create_relation">> /\ GraphPlans["deleteEdge"] = <<"delete_relation">>
    BY DEF GraphPlans
  <2>2. Plan(route) = GraphPlans[route] BY <1>5, PlanOf
  <2> QED BY <1>2, <1>5, <2>1, <2>2, PlanDomains
<1>6. CASE route \notin DOMAIN MemoryPlans \cup DOMAIN QueryPlans \cup DOMAIN GraphPlans
  <2>1. Plan(route) = <<route>> BY <1>6 DEF Plan
  <2> QED BY <2>1
<1> QED BY <1>1, <1>3, <1>4, <1>5, <1>6

\* GetEntity asks LightRAG for a graph.
LEMMA EntityPlan == Len(Plan("getEntity")) = 1 /\ Plan("getEntity")[1] = "graph"
BY DEF Plan, MemoryPlans, QueryPlans, GraphPlans

-----------------------------------------------------------------------------
(* A request under way, and its answer.                                     *)

Reqs(bounds) ==
    [pc : {"idle", "db", "rag", "answered"}, route : Routes \cup {"none"}, step : Nat, status : Nat,
     retryAfter : BOOLEAN, bounds : {bounds}, cause : {"none", "other", "saturated"}, items : BOOLEAN,
     late : BOOLEAN, did : SUBSET Nat, there : SUBSET Nat, skipped : SUBSET Nat, unclear : SUBSET Nat]

ReqOK(r) == r \in Reqs(r.bounds)

\* Step i has done what it was there for, or need not.
Settled(r, i) ==
    \/ i \in r.did \cup r.skipped
    \/ Plan(r.route)[i] = "insert" /\ i \in r.there

\* So have the steps before step n.
Passed(r, n) ==
    \A i \in 1..Len(Plan(r.route)) :
        i < n /\ Plan(r.route)[i] \in Mutations => Settled(r, i)

\* A request that may go on with step n.
Ready(r, n) ==
    /\ ReqOK(r) /\ r.pc \in {"db", "rag"} /\ r.route \in Routes /\ r.status = 0 /\ ~ r.retryAfter
    /\ r.cause # "saturated"
    /\ \A i \in r.did : i < n
    /\ Passed(r, n)

UnderWay(r, c) ==
    /\ Ready(r, r.step)
    /\ r.step \in 1..Len(Plan(r.route))
    /\ r.pc = "rag" => c.op = Plan(r.route)[r.step] /\ c.op \in Ops /\ c.pc # "idle"
    /\ r.pc = "db" => Plan(r.route)[r.step] \notin Ops

Answered(r) ==
    /\ ReqOK(r) /\ r.pc = "answered"
    /\ r.cause = "saturated" <=> r.status = 429
    /\ r.retryAfter <=> r.status \in {429, 503}
    /\ r.status \in 200..299 => Passed(r, Len(Plan(r.route)) + 1)
    /\ r.status \notin 200..299 /\ r.step \in r.did => r.step \in r.unclear

ReqInv == req = NoRequest \/ UnderWay(req, call) \/ Answered(req)

\* The fields of an answer.
Replied(r, d, s) ==
    /\ ReqOK(d) /\ d.pc = "answered" /\ d.status = s /\ d.route = r.route /\ d.step = r.step
    /\ d.did = r.did /\ d.skipped = r.skipped /\ d.unclear = r.unclear /\ d.cause = r.cause
    /\ d.there = r.there /\ d.bounds = r.bounds

\* An answer without and with Retry-After.
Final(r, s) == Respond(r, s, FALSE)

Later(r, s) == Respond(r, s, TRUE)

\* Respond changes what it is given and nothing else.
LEMMA RespondFields ==
    ASSUME NEW r, ReqOK(r), NEW s \in Nat
    PROVE  /\ Replied(r, Final(r, s), s) /\ ~ Final(r, s).retryAfter
           /\ Replied(r, Later(r, s), s) /\ Later(r, s).retryAfter
<1>0. r \in Reqs(r.bounds) BY DEF ReqOK
<1>1. Replied(r, Final(r, s), s) /\ ~ Final(r, s).retryAfter
  <2> DEFINE d == Final(r, s)
  <2>1. d = [r EXCEPT !.pc = "answered", !.status = s, !.retryAfter = FALSE] BY DEF Respond, Final
  <2> HIDE DEF d
  <2>2. d \in Reqs(r.bounds) BY <1>0, <2>1 DEF Reqs
  <2>3. d.pc = "answered" /\ d.status = s /\ ~ d.retryAfter BY <1>0, <2>1 DEF Reqs
  <2>4. /\ d.route = r.route /\ d.step = r.step /\ d.did = r.did /\ d.skipped = r.skipped
        /\ d.unclear = r.unclear /\ d.cause = r.cause /\ d.bounds = r.bounds /\ d.there = r.there
    BY <1>0, <2>1 DEF Reqs
  <2> QED BY <2>2, <2>3, <2>4 DEF d, Replied, ReqOK
<1>2. Replied(r, Later(r, s), s) /\ Later(r, s).retryAfter
  <2> DEFINE d == Later(r, s)
  <2>1. d = [r EXCEPT !.pc = "answered", !.status = s, !.retryAfter = TRUE] BY DEF Respond, Later
  <2> HIDE DEF d
  <2>2. d \in Reqs(r.bounds) BY <1>0, <2>1 DEF Reqs
  <2>3. d.pc = "answered" /\ d.status = s /\ d.retryAfter BY <1>0, <2>1 DEF Reqs
  <2>4. /\ d.route = r.route /\ d.step = r.step /\ d.did = r.did /\ d.skipped = r.skipped
        /\ d.unclear = r.unclear /\ d.cause = r.cause /\ d.bounds = r.bounds /\ d.there = r.there
    BY <1>0, <2>1 DEF Reqs
  <2> QED BY <2>2, <2>3, <2>4 DEF d, Replied, ReqOK
<1> QED BY <1>1, <1>2

\* An answer other than success, not about saturation.
LEMMA RefuseAnswered ==
    ASSUME NEW r, ReqOK(r), NEW s \in {400, 401, 404, 499, 500, 502}, r.cause # "saturated",
           r.step \in r.did => r.step \in r.unclear
    PROVE  Answered(Final(r, s))
<1> DEFINE d == Final(r, s)
<1>1. s \in Nat OBVIOUS
<1>2. Replied(r, d, s) /\ ~ d.retryAfter BY <1>1, RespondFields
<1> HIDE DEF d
<1>3. s \notin 200..299 /\ s \notin {429, 503} OBVIOUS
<1>4. Answered(d) BY <1>2, <1>3 DEF Answered, Replied
<1> QED BY <1>4 DEF d

\* The error statuses that ask for a retry.
LEMMA RetryAnswered ==
    ASSUME NEW r, ReqOK(r), r.step \in r.did => r.step \in r.unclear
    PROVE  /\ r.cause = "saturated" => Answered(Later(r, 429))
           /\ r.cause # "saturated" => Answered(Later(r, 503))
<1>1. ASSUME NEW s \in {429, 503}, r.cause = "saturated" <=> s = 429 PROVE Answered(Later(r, s))
  <2> DEFINE d == Later(r, s)
  <2>1. s \in Nat OBVIOUS
  <2>2. Replied(r, d, s) /\ d.retryAfter BY <2>1, RespondFields
  <2> HIDE DEF d
  <2>3. s \notin 200..299 OBVIOUS
  <2>4. Answered(d) BY <1>1, <2>2, <2>3 DEF Answered, Replied
  <2> QED BY <2>4 DEF d
<1>2. 429 \in {429, 503} /\ 503 \in {429, 503} /\ 503 # 429 OBVIOUS
<1> QED BY <1>1, <1>2, Zenon

Found404 == {"ErrEntityNotFound", "ErrInvalidScope", "ErrInvalid", "ErrNotFound"}

Saturation == {"ErrBusy", "DeadlineExceeded", "lock_not_available"}

\* mapServiceError answers saturation, and only that, with 429.
LEMMA MapAnswered ==
    ASSUME NEW r, ReqOK(r), r.step \in r.did => r.step \in r.unclear, NEW err,
           r.cause = "saturated" <=> err \cap Saturation # {},
           err \cap Saturation = {} \/ err \cap Found404 = {}
    PROVE  Answered(mapServiceError(r, err))
<1> DEFINE has(E) == err \cap E # {}
           d == mapServiceError(r, err)
<1>1. CASE r.cause = "saturated"
  <2>1. has(Saturation) /\ ~ has(Found404) BY <1>1
  <2>2. d = Later(r, 429) BY <2>1 DEF mapServiceError, Final, Later, Saturation, Found404
  <2> QED BY <1>1, <2>2, RetryAnswered
<1>2. CASE r.cause # "saturated"
  <2>1. ~ has(Saturation) BY <1>2
  <2>2. d \in {Later(r, 503), Final(r, 400), Final(r, 404), Final(r, 499),
               Final(r, 500), Final(r, 502)}
    BY <2>1 DEF mapServiceError, Final, Later, Saturation
  <2>3. Answered(Later(r, 503)) BY <1>2, RetryAnswered
  <2>4. /\ Answered(Final(r, 400)) /\ Answered(Final(r, 404))
        /\ Answered(Final(r, 499)) /\ Answered(Final(r, 500))
        /\ Answered(Final(r, 502))
    BY <1>2, RefuseAnswered
  <2> HIDE DEF d
  <2>5. Answered(d) BY <2>2, <2>3, <2>4
  <2> QED BY <2>5 DEF d
<1> QED BY <1>1, <1>2

\* What the database reports is either saturation or something else.
LEMMA DbErrorKinds ==
    ASSUME NEW step, NEW err \in DbErrors(step)
    PROVE  /\ err \cap Saturation = {} \/ err \cap Found404 = {}
           /\ err \cap Saturation # {} <=> err \cap {"DeadlineExceeded", "lock_not_available"} # {}
BY DEF DbErrors, Saturation, Found404

\* A request goes on with step n, or is answered with success.
LEMMA GoToKeeps ==
    ASSUME CallInv(call), NEW r, NEW n \in Nat, n >= 1, Ready(r, n), GoTo(r, n)
    PROVE  CallInv(call') /\ (UnderWay(req', call') \/ Answered(req')) /\ req'.bounds = r.bounds
           /\ req'.route = r.route
<1> DEFINE P == Plan(r.route)
           s == [r EXCEPT !.step = n]
           last == n > Len(P) \/ (P[n] = "create_job" /\ ~ r.items)
<1>1. /\ Len(P) \in Nat /\ \A k \in 1..Len(P) : P[k] = "create_job" => k = Len(P)
  BY PlanShape
<1>2. r \in Reqs(r.bounds) BY DEF Ready, ReqOK
<1>3. CASE last
  <2>1. req' = Respond(r, SuccessStatus(r), FALSE) BY <1>3 DEF GoTo
  <2>2. call' = call BY <1>3 DEF GoTo
  <2> DEFINE st == SuccessStatus(r)
  <2>3. st \in {200, 201, 202, 204} BY DEF SuccessStatus
  <2> HIDE DEF st
  <2>4. st \in Nat /\ st \in 200..299 /\ st \notin {429, 503} BY <2>3
  <2>5. Replied(r, req', st) /\ ~ req'.retryAfter
    <3>1. req' = Final(r, st) /\ ReqOK(r) BY <2>1 DEF st, Ready, Final
    <3> QED BY <3>1, <2>4, RespondFields
  <2>6. Passed(r, Len(P) + 1)
    <3> SUFFICES ASSUME NEW i \in 1..Len(P), P[i] \in Mutations PROVE Settled(r, i)
      BY DEF Passed
    <3>1. CASE i < n BY <3>1 DEF Ready, Passed
    <3>2. CASE ~ (i < n)
      <4>1. n <= Len(P) /\ n \in 1..Len(P) BY <3>2, <1>1
      <4>2. P[n] = "create_job" BY <1>3, <4>1, <1>1
      <4>3. n = Len(P) BY <4>1, <4>2, <1>1
      <4>4. i = n BY <4>3, <3>2, <1>1
      <4> QED BY <4>2, <4>4 DEF Mutations
    <3> QED BY <3>1, <3>2
  <2>7. Passed(req', Len(Plan(req'.route)) + 1) BY <2>5, <2>6 DEF Passed, Settled, Replied
  <2>8. r.cause # "saturated" BY DEF Ready
  <2>9. Answered(req') BY <2>4, <2>5, <2>7, <2>8 DEF Answered, Replied
  <2> QED BY <2>2, <2>5, <2>9 DEF Replied
<1>4. CASE ~ last
  <2>1. n \in 1..Len(P) BY <1>1, <1>4
  <2>2. s \in Reqs(r.bounds) BY <1>2 DEF Reqs
  <2>3. /\ s.step = n /\ s.route = r.route /\ s.status = r.status /\ s.retryAfter = r.retryAfter
        /\ s.cause = r.cause /\ s.did = r.did /\ s.skipped = r.skipped /\ s.bounds = r.bounds
        /\ s.there = r.there
    BY <1>2 DEF Reqs
  <2> HIDE DEF s
  <2>4. ASSUME NEW pc \in {"db", "rag"}, req' = [s EXCEPT !.pc = pc]
        PROVE  /\ req'.pc = pc /\ req'.step = n /\ req'.route = r.route /\ req'.bounds = r.bounds
               /\ Ready(req', n)
    <3>1. req' \in Reqs(r.bounds) BY <2>2, <2>4 DEF Reqs
    <3>2. /\ req'.pc = pc /\ req'.step = s.step /\ req'.route = s.route /\ req'.status = s.status
          /\ req'.retryAfter = s.retryAfter /\ req'.cause = s.cause /\ req'.did = s.did
          /\ req'.skipped = s.skipped /\ req'.bounds = s.bounds /\ req'.there = s.there
      BY <2>2, <2>4 DEF Reqs
    <3>3. ReqOK(req') BY <3>1, <3>2, <2>3 DEF ReqOK
    <3>4. Passed(req', n) BY <3>2, <2>3 DEF Passed, Settled, Ready
    <3> QED BY <3>2, <3>3, <3>4, <2>3 DEF Ready
  <2>5. CASE IsRag(P[n])
    <3>1. req' = [s EXCEPT !.pc = "rag"] /\ call' = Begin(P[n]) BY <1>4, <2>5 DEF GoTo, s
    <3>2. P[n] \in Ops BY <2>5 DEF IsRag, Ops
    <3> DEFINE op == P[n]
    <3> HIDE DEF op
    <3>3. CallInv(Begin(op)) /\ Begin(op).op = op /\ Begin(op).pc = "request" BY <3>2, BeginInv DEF op
    <3>4. CallInv(call') /\ call'.op = P[n] /\ call'.pc # "idle" BY <3>1, <3>3 DEF op
    <3>5. req'.pc = "rag" /\ req'.step = n /\ req'.route = r.route /\ req'.bounds = r.bounds /\ Ready(req', n)
      BY <3>1, <2>4
    <3>6. UnderWay(req', call') BY <3>2, <3>4, <3>5, <2>1 DEF UnderWay
    <3> QED BY <3>4, <3>5, <3>6
  <2>6. CASE ~ IsRag(P[n])
    <3>1. req' = [s EXCEPT !.pc = "db"] BY <1>4, <2>6 DEF GoTo, s
    <3>2. call' = call \/ call' = [NoCall EXCEPT !.cancelled = call.cancelled] BY <1>4, <2>6 DEF GoTo, s
    <3>3. call.cancelled \in BOOLEAN BY DEF CallInv, Calls
    <3>4. CallInv(call') BY <3>2, <3>3, NoCallInv
    <3>5. P[n] \notin Ops BY <2>6 DEF IsRag, Ops
    <3>6. req'.pc = "db" /\ req'.step = n /\ req'.route = r.route /\ req'.bounds = r.bounds /\ Ready(req', n)
      BY <3>1, <2>4
    <3>7. UnderWay(req', call') BY <3>5, <3>6, <2>1 DEF UnderWay
    <3> QED BY <3>4, <3>6, <3>7
  <2> QED BY <2>5, <2>6
<1> QED BY <1>3, <1>4

\* Steps that are passed over are on record.
LEMMA SkipReady ==
    ASSUME NEW r, NEW k \in Nat, k >= 1, ReqOK(r), r.pc \in {"db", "rag"}, r.route \in Routes, r.status = 0,
           ~ r.retryAfter, r.cause # "saturated", \A i \in r.did : i <= r.step, Passed(r, r.step), r.step >= 1
    PROVE  /\ Ready(Skip(r, k), r.step + k) /\ Skip(r, k).route = r.route /\ Skip(r, k).bounds = r.bounds
           /\ r.step + k \in Nat /\ r.step + k >= 1
<1> DEFINE gap == r.step..(r.step + k - 1)
           d == Skip(r, k)
<1>1. r \in Reqs(r.bounds) /\ r.step \in Nat /\ r.did \subseteq Nat BY DEF ReqOK, Reqs
<1>2. d = [r EXCEPT !.skipped = @ \cup gap] BY DEF Skip
<1>3. gap \subseteq Nat BY <1>1
<1>4. \A i \in Nat : i >= r.step /\ i < r.step + k => i \in gap BY <1>1
<1> HIDE DEF gap, d
<1>5. d \in Reqs(r.bounds) BY <1>1, <1>2, <1>3 DEF Reqs
<1>6. /\ d.pc = r.pc /\ d.route = r.route /\ d.status = r.status /\ d.retryAfter = r.retryAfter
      /\ d.cause = r.cause /\ d.did = r.did /\ d.skipped = r.skipped \cup gap /\ d.bounds = r.bounds
      /\ d.there = r.there
  BY <1>1, <1>2 DEF Reqs
<1>7. Passed(d, r.step + k)
  <2> SUFFICES ASSUME NEW i \in 1..Len(Plan(r.route)), i < r.step + k, Plan(r.route)[i] \in Mutations
               PROVE  Settled(d, i)
    BY <1>6 DEF Passed
  <2>0. Len(Plan(r.route)) \in Nat BY PlanShape
  <2>1. i \in Nat BY <2>0
  <2>2. CASE i < r.step BY <2>2, <1>6 DEF Passed, Settled
  <2>3. CASE ~ (i < r.step) BY <2>1, <2>3, <1>1, <1>4, <1>6 DEF Settled
  <2> QED BY <2>2, <2>3
<1>8. \A i \in r.did : i < r.step + k BY <1>1
<1>9. ReqOK(d) BY <1>5, <1>6 DEF ReqOK
<1>10. Ready(d, r.step + k) BY <1>6, <1>7, <1>8, <1>9 DEF Ready
<1> QED BY <1>1, <1>6, <1>10 DEF d

\* The step after the current one.
LEMMA NextReady ==
    ASSUME NEW r, ReqOK(r), r.pc \in {"db", "rag"}, r.route \in Routes, r.status = 0,
           ~ r.retryAfter, r.cause # "saturated", \A i \in r.did : i <= r.step, Passed(r, r.step), r.step >= 1,
           Plan(r.route)[r.step] \in Mutations => Settled(r, r.step)
    PROVE  Ready(r, r.step + 1) /\ r.step + 1 \in Nat /\ r.step + 1 >= 1
<1>1. r.step \in Nat /\ r.did \subseteq Nat BY DEF ReqOK, Reqs
<1>2. \A i \in r.did : i < r.step + 1 BY <1>1
<1>3. Passed(r, r.step + 1)
  <2> SUFFICES ASSUME NEW i \in 1..Len(Plan(r.route)), i < r.step + 1, Plan(r.route)[i] \in Mutations
               PROVE  Settled(r, i)
    BY DEF Passed
  <2>0. Len(Plan(r.route)) \in Nat BY PlanShape
  <2>1. i \in Nat BY <2>0
  <2>2. i < r.step \/ i = r.step BY <1>1, <2>1
  <2> QED BY <2>2 DEF Passed
<1> QED BY <1>1, <1>2, <1>3 DEF Ready

\* What is known of a request in the middle of its plan.
LEMMA Facts ==
    ASSUME UnderWay(req, call)
    PROVE  /\ ReqOK(req) /\ req \in Reqs(req.bounds) /\ req.pc \in {"db", "rag"} /\ req.route \in Routes
           /\ req.status = 0 /\ ~ req.retryAfter /\ req.cause # "saturated" /\ Passed(req, req.step)
           /\ req.step \in Nat /\ req.step >= 1 /\ req.step \notin req.did
           /\ \A i \in req.did : i \in Nat /\ i < req.step /\ i <= req.step
<1>1. ReqOK(req) /\ req \in Reqs(req.bounds) BY DEF UnderWay, Ready, ReqOK
<1>2. req.step \in Nat /\ req.did \subseteq Nat BY <1>1 DEF Reqs
<1>3. Len(Plan(req.route)) \in Nat BY PlanShape
<1>4. req.step >= 1 BY <1>3 DEF UnderWay
<1>5. \A i \in req.did : i < req.step BY DEF UnderWay, Ready
<1>6. req.step \notin req.did BY <1>2, <1>5
<1>7. \A i \in req.did : i \in Nat /\ i < req.step /\ i <= req.step BY <1>2, <1>5
<1> QED BY <1>1, <1>2, <1>4, <1>6, <1>7 DEF UnderWay, Ready

\* What a step leaves: the request goes on or is answered, in the bounds it had.
Goes ==
    CallInv(call') /\ (UnderWay(req', call') \/ Answered(req'))
    /\ req'.bounds = req.bounds /\ req'.route = req.route

\* The database answers.
LEMMA DbOkKeeps ==
    ASSUME CallInv(call), UnderWay(req, call), DbOk PROVE Goes
<1>1. req.pc = "db" /\ Plan(req.route)[req.step] \notin Mutations BY DEF DbOk, UnderWay, Ops
<1>2. CASE GoTo(req, req.step + 1)
  <2> DEFINE n == req.step + 1
  <2>1. Ready(req, n) /\ n \in Nat /\ n >= 1 BY <1>1, Facts, NextReady
  <2> HIDE DEF n
  <2>2. GoTo(req, n) BY <1>2 DEF n
  <2> QED BY <2>1, <2>2, GoToKeeps DEF Goes
<1>3. CASE GoTo(Skip(req, 4), req.step + 4)
  <2> DEFINE n == req.step + 4
             r == Skip(req, 4)
  <2>1. Ready(r, n) /\ n \in Nat /\ n >= 1 /\ r.route = req.route /\ r.bounds = req.bounds
    BY Facts, SkipReady
  <2> HIDE DEF n, r
  <2>2. GoTo(r, n) BY <1>3 DEF n, r
  <2> QED BY <2>1, <2>2, GoToKeeps DEF Goes
<1> QED BY <1>2, <1>3 DEF DbOk

\* mapServiceError keeps the request it answers.
LEMMA MapFields ==
    ASSUME NEW r, ReqOK(r), NEW err
    PROVE  mapServiceError(r, err).bounds = r.bounds /\ mapServiceError(r, err).route = r.route
<1> DEFINE d == mapServiceError(r, err)
<1>1. d \in {Later(r, 503), Later(r, 429), Final(r, 400), Final(r, 404), Final(r, 499), Final(r, 500), Final(r, 502)}
  BY DEF mapServiceError, Final, Later
<1>2. \A s \in Nat : Final(r, s).bounds = r.bounds /\ Final(r, s).route = r.route
                     /\ Later(r, s).bounds = r.bounds /\ Later(r, s).route = r.route
  BY RespondFields DEF Replied
<1> HIDE DEF d
<1>3. d.bounds = r.bounds /\ d.route = r.route BY <1>1, <1>2
<1> QED BY <1>3 DEF d

\* The database fails.
LEMMA DbFailedKeeps ==
    ASSUME CallInv(call), UnderWay(req, call), DbFailed PROVE Goes
<1>1. req.pc = "db" /\ Plan(req.route)[req.step] \notin Mutations BY DEF DbFailed, UnderWay, Ops
<1>2. CASE GoTo(req, req.step + 1)
  <2> DEFINE n == req.step + 1
  <2>1. Ready(req, n) /\ n \in Nat /\ n >= 1 BY <1>1, Facts, NextReady
  <2> HIDE DEF n
  <2>2. GoTo(req, n) BY <1>2 DEF n
  <2> QED BY <2>1, <2>2, GoToKeeps DEF Goes
<1>3. ASSUME NEW err \in DbErrors(Step), call' = call,
             req' = mapServiceError([req EXCEPT !.cause =
               IF err \cap {"DeadlineExceeded", "lock_not_available"} # {} THEN "saturated" ELSE "other"], err)
      PROVE  Goes
  <2> DEFINE cause == IF err \cap {"DeadlineExceeded", "lock_not_available"} # {} THEN "saturated" ELSE "other"
             r == [req EXCEPT !.cause = cause]
  <2>1. cause \in {"other", "saturated"} OBVIOUS
  <2>2. cause = "saturated" <=> err \cap Saturation # {} BY DbErrorKinds
  <2>3. err \cap Saturation = {} \/ err \cap Found404 = {} BY DbErrorKinds
  <2> HIDE DEF cause
  <2>4. req \in Reqs(req.bounds) /\ req.step \notin req.did BY Facts
  <2>5. r \in Reqs(req.bounds) BY <2>1, <2>4 DEF Reqs
  <2>6. r.cause = cause /\ r.step = req.step /\ r.did = req.did /\ r.bounds = req.bounds /\ r.route = req.route
    BY <2>4 DEF Reqs
  <2>7. req' = mapServiceError(r, err) BY <1>3 DEF cause
  <2> HIDE DEF r
  <2>8. ReqOK(r) BY <2>5, <2>6 DEF ReqOK
  <2>9. Answered(mapServiceError(r, err)) BY <2>2, <2>3, <2>4, <2>6, <2>8, MapAnswered
  <2>10. mapServiceError(r, err).bounds = r.bounds /\ mapServiceError(r, err).route = r.route
    BY <2>8, MapFields
  <2> QED BY <1>3, <2>6, <2>7, <2>9, <2>10 DEF Goes
<1> QED BY <1>2, <1>3 DEF DbFailed

\* A handler that panics.
LEMMA PanicKeeps ==
    ASSUME CallInv(call), UnderWay(req, call), Panic PROVE Goes
<1> DEFINE r == [req EXCEPT !.cause = "other"]
<1>1. req \in Reqs(req.bounds) /\ req.step \notin req.did BY Facts
<1>2. r \in Reqs(req.bounds) BY <1>1 DEF Reqs
<1>3. r.cause = "other" /\ r.step = req.step /\ r.did = req.did /\ r.bounds = req.bounds /\ r.route = req.route
  BY <1>1 DEF Reqs
<1>4. req' = Final(r, 500) /\ call' = call BY DEF Panic, Final
<1> HIDE DEF r
<1>5. ReqOK(r) BY <1>2, <1>3 DEF ReqOK
<1>6. Answered(Final(r, 500)) BY <1>1, <1>3, <1>5, RefuseAnswered
<1>7. Replied(r, Final(r, 500), 500) BY <1>5, RespondFields
<1> QED BY <1>3, <1>4, <1>6, <1>7 DEF Goes, Replied

\* A call to LightRAG has returned: what it did is on record before the next
\* step, and its error is answered for what it is.
LEMMA RagDoneKeeps ==
    ASSUME CallInv(call), UnderWay(req, call), RagDone PROVE Goes
<1> DEFINE did == IF call.did THEN req.did \cup {req.step} ELSE req.did
           there == IF call.body \in Idempotent THEN req.there \cup {req.step} ELSE req.there
           unclear == IF call.unclear THEN req.unclear \cup {req.step} ELSE req.unclear
           cause == IF call.result \in {"busy", "http429", "deadline"} THEN "saturated" ELSE "other"
           r == [req EXCEPT !.did = did, !.there = there, !.unclear = unclear, !.cause = cause]
           err == CallErr(call)
           k == SkipLength
<1>1. /\ ReqOK(req) /\ req \in Reqs(req.bounds) /\ req.pc \in {"db", "rag"} /\ req.route \in Routes
      /\ req.status = 0 /\ ~ req.retryAfter /\ Passed(req, req.step)
      /\ req.step \in Nat /\ req.step >= 1 /\ req.step \notin req.did
      /\ \A i \in req.did : i \in Nat /\ i < req.step /\ i <= req.step
  BY Facts
<1>2. call.op = Plan(req.route)[req.step] /\ call.op \in Ops BY DEF RagDone, UnderWay
<1>3. /\ call.op \notin Mutations => ~ call.did
      /\ call.did => call.unclear \/ err = {}
      /\ err = {} /\ call.op \in Mutations => call.did \/ Has(call.op, call.body)
      /\ call.result = "ok" /\ call.op = "delete_docs" => call.body # "busy"
  BY DEF RagDone, CallInv
<1>4. /\ err \in {{}, {"ErrBusy"}, {"ErrNotFound"}, {"ErrTransient"}, {"ErrUpstream"}}
      /\ err = {} => call.result = "ok"
      /\ err = {"ErrNotFound"} => call.result = "http404"
      /\ call.result \in {"busy", "http429", "deadline"} <=> err = {"ErrBusy"}
  BY <1>3, CallErrKinds
<1>5. did \subseteq Nat /\ (call.did => req.step \in did) /\ (~ call.did => did = req.did)
      /\ (\A i \in did : i <= req.step) /\ req.did \subseteq did
  BY <1>1
<1>6. unclear \subseteq Nat /\ (call.unclear => req.step \in unclear) BY <1>1 DEF Reqs
<1>a. there \subseteq Nat /\ (call.body \in Idempotent => req.step \in there) /\ req.there \subseteq there
  BY <1>1 DEF Reqs
<1>7. cause \in {"other", "saturated"} /\ (cause = "saturated" <=> err = {"ErrBusy"}) BY <1>4
<1>8. k \in {1, 3} BY DEF SkipLength
<1>9. \/ err = {} /\ GoTo(r, req.step + 1)
      \/ /\ err = {} /\ (Step = "track_status" \/ req.route = "getEntity")
         /\ IF InPurge(req) THEN GoTo(Skip(r, k), req.step + k)
            ELSE req' = mapServiceError(r, {"ErrNotFound"}) /\ call' = call
      \/ err # {} /\ Skipped(err) /\ GoTo(Skip(r, k), req.step + k)
      \/ err # {} /\ ~ Skipped(err) /\ req' = mapServiceError(r, err) /\ call' = call
  BY DEF RagDone
<1> HIDE DEF did, there, unclear, cause, err, k
<1>10. r \in Reqs(req.bounds) BY <1>1, <1>5, <1>6, <1>7, <1>a DEF Reqs
<1>11. /\ r.pc = req.pc /\ r.route = req.route /\ r.step = req.step /\ r.status = req.status
       /\ r.retryAfter = req.retryAfter /\ r.bounds = req.bounds /\ r.skipped = req.skipped
       /\ r.did = did /\ r.there = there /\ r.unclear = unclear /\ r.cause = cause
  BY <1>1 DEF Reqs
<1> HIDE DEF r
<1>12. ReqOK(r) BY <1>10, <1>11 DEF ReqOK
<1>13. Passed(r, r.step) BY <1>1, <1>5, <1>11, <1>a DEF Passed, Settled
<1>14. ASSUME err # {"ErrBusy"}, GoTo(Skip(r, k), req.step + k) PROVE Goes
  <2>1. k \in Nat /\ k >= 1 BY <1>8
  <2>2. r.cause # "saturated" BY <1>7, <1>11, <1>14
  <2>3. \A i \in r.did : i <= r.step BY <1>5, <1>11
  <2> DEFINE n == r.step + k
             t == Skip(r, k)
  <2>4. /\ Ready(t, n) /\ t.route = r.route /\ t.bounds = r.bounds /\ n \in Nat /\ n >= 1
    BY <1>1, <1>11, <1>12, <1>13, <2>1, <2>2, <2>3, SkipReady
  <2>5. GoTo(t, n) BY <1>11, <1>14
  <2> HIDE DEF n, t
  <2> QED BY <1>11, <2>4, <2>5, GoToKeeps DEF Goes
<1>15. ASSUME err = {}, GoTo(r, req.step + 1) PROVE Goes
  <2>1. r.cause # "saturated" BY <1>7, <1>11, <1>15
  <2>2. \A i \in r.did : i <= r.step BY <1>5, <1>11
  <2>3. Plan(r.route)[r.step] \in Mutations => Settled(r, r.step)
    BY <1>2, <1>3, <1>5, <1>11, <1>15, <1>a DEF Settled, Has
  <2> DEFINE n == r.step + 1
  <2>4. Ready(r, n) /\ n \in Nat /\ n >= 1
    BY <1>1, <1>11, <1>12, <1>13, <2>1, <2>2, <2>3, NextReady
  <2>5. GoTo(r, n) BY <1>11, <1>15
  <2> HIDE DEF n
  <2> QED BY <1>11, <2>4, <2>5, GoToKeeps DEF Goes
<1>16. ASSUME NEW e, req' = mapServiceError(r, e), call' = call,
              e \in {{"ErrBusy"}, {"ErrNotFound"}, {"ErrTransient"}, {"ErrUpstream"}},
              cause = "saturated" <=> e = {"ErrBusy"}, call.did => call.unclear
       PROVE  Goes
  <2>1. r.cause = "saturated" <=> e \cap Saturation # {} BY <1>11, <1>16 DEF Saturation
  <2>2. e \cap Saturation = {} \/ e \cap Found404 = {} BY <1>16 DEF Saturation, Found404
  <2>3. r.step \in r.did => r.step \in r.unclear BY <1>1, <1>5, <1>6, <1>11, <1>16
  <2>4. Answered(mapServiceError(r, e)) BY <1>12, <2>1, <2>2, <2>3, MapAnswered
  <2>5. mapServiceError(r, e).bounds = r.bounds /\ mapServiceError(r, e).route = r.route
    BY <1>12, MapFields
  <2> QED BY <1>11, <1>16, <2>4, <2>5 DEF Goes
<1>17. CASE err = {} /\ (Step = "track_status" \/ req.route = "getEntity")
            /\ req' = mapServiceError(r, {"ErrNotFound"}) /\ call' = call
  <2>1. call.op \in {"track_status", "graph"}
    <3>1. CASE Step = "track_status" BY <1>2, <3>1 DEF Step
    <3>2. CASE req.route = "getEntity"
      <4>1. req.step \in 1..1 BY <3>2, EntityPlan DEF UnderWay
      <4> QED BY <1>2, <3>2, <4>1, EntityPlan
    <3> QED BY <1>17, <3>1, <3>2
  <2>2. ~ call.did BY <1>3, <2>1 DEF Mutations
  <2> DEFINE e == {"ErrNotFound"}
  <2>3. e \in {{"ErrBusy"}, {"ErrNotFound"}, {"ErrTransient"}, {"ErrUpstream"}} /\ e # {"ErrBusy"} OBVIOUS
  <2>4. cause # "saturated" BY <1>7, <1>17
  <2>5. req' = mapServiceError(r, e) /\ call' = call BY <1>17
  <2> HIDE DEF e
  <2> QED BY <1>16, <2>2, <2>3, <2>4, <2>5
<1>18. CASE err # {} /\ ~ Skipped(err) /\ req' = mapServiceError(r, err) /\ call' = call
  BY <1>3, <1>4, <1>7, <1>16, <1>18
<1>19. Skipped(err) => err # {"ErrBusy"} BY DEF Skipped
<1>20. err = {} => err # {"ErrBusy"} OBVIOUS
<1> QED BY <1>9, <1>14, <1>15, <1>17, <1>18, <1>19, <1>20

\* The fields of a request that has not arrived.
LEMMA NoRequestFields ==
    /\ ReqOK(NoRequest) /\ NoRequest.pc = "idle" /\ NoRequest.step = 0 /\ NoRequest.status = 0
    /\ ~ NoRequest.retryAfter /\ NoRequest.cause = "none" /\ NoRequest.did = {}
    /\ NoRequest.skipped = {} /\ NoRequest.unclear = {}
<1>1. /\ NoRequest.pc = "idle" /\ NoRequest.step = 0 /\ NoRequest.status = 0
      /\ ~ NoRequest.retryAfter /\ NoRequest.cause = "none" /\ NoRequest.did = {}
      /\ NoRequest.skipped = {} /\ NoRequest.unclear = {}
  BY DEF NoRequest
<1>2. NoRequest \in Reqs(NoRequest.bounds) BY DEF NoRequest, Reqs
<1> QED BY <1>1, <1>2 DEF ReqOK

\* A request that arrives is refused, with nothing done, or goes to the first
\* step of its plan; steps it does not ask for are passed over.
LEMMA ArriveKeeps ==
    ASSUME CallInv(call), req = NoRequest, NEW route \in Routes, NEW token, NEW q, Arrive(route, token, q)
    PROVE  /\ CallInv(call')
           /\ \/ Answered(req')
              \/ UnderWay(req', call') /\ req'.route = route /\ req'.bounds = Bounds(route, q)
                 /\ Accepts(route, q)
<1> DEFINE b == Bounds(route, q)
           it == (route # "bulk" \/ q["items"] # "")
           r == [NoRequest EXCEPT !.route = route]
           s == [r EXCEPT !.step = 1, !.bounds = b, !.items = it]
           P == Plan(route)
           first == IF route = "bulk" /\ q["reconcile_files"] = "" THEN Len(P) ELSE 1
           purge == [NoCall EXCEPT !.own = TRUE, !.left = PurgeBudget]
           t == [Skip(s, first - 1) EXCEPT !.pc = "db", !.step = first]
           u == [s EXCEPT !.pc = "rag"]
<1>1. \/ req' = Final(r, 401) /\ call' = call
      \/ req' = Final(r, 400) /\ call' = call
      \/ /\ Accepts(route, q)
         /\ \/ IsRag(P[first]) /\ req' = u /\ call' = Begin(P[first])
            \/ ~ IsRag(P[first]) /\ req' = t /\ (call' = purge \/ call' = NoCall)
  BY DEF Arrive, Final
<1>2. it \in BOOLEAN OBVIOUS
<1>3. Len(P) \in Nat /\ Len(P) >= 1 BY PlanShape
<1>4. first \in 1..Len(P) /\ first \in Nat /\ (first # 1 => P[first] = "create_job")
  <2> DEFINE late == route = "bulk" /\ q["reconcile_files"] = ""
  <2>1. first = IF late THEN Len(P) ELSE 1 OBVIOUS
  <2>2. late => Len(P) = 11 /\ P[11] = "create_job" BY BulkPlan
  <2> HIDE DEF late, P, first
  <2>3. CASE late
    <3>1. first = 11 /\ Len(P) = 11 BY <2>1, <2>2, <2>3
    <3>2. P[first] = "create_job" BY <2>2, <2>3, <3>1
    <3>3. first \in 1..Len(P) /\ first \in Nat BY <3>1
    <3> QED BY <3>2, <3>3
  <2>4. CASE ~ late BY <1>3, <2>1, <2>4
  <2> QED BY <2>3, <2>4
<1> HIDE DEF b, it, first, P
<1>5. NoRequest \in Reqs(NoRequest.bounds) BY NoRequestFields DEF ReqOK
<1>6. r \in Reqs(NoRequest.bounds) BY <1>5 DEF Reqs
<1>7. /\ r.pc = "idle" /\ r.route = route /\ r.step = 0 /\ r.status = 0 /\ ~ r.retryAfter
      /\ r.cause = "none" /\ r.did = {} /\ r.skipped = {} /\ r.bounds = NoRequest.bounds
  BY <1>5, NoRequestFields DEF Reqs
<1> HIDE DEF r
<1>8. ASSUME NEW st \in {400, 401}, req' = Final(r, st), call' = call
      PROVE  CallInv(call') /\ Answered(req')
  <2>1. ReqOK(r) BY <1>6, <1>7 DEF ReqOK
  <2>2. Answered(Final(r, st)) BY <1>7, <2>1, RefuseAnswered
  <2> QED BY <1>8, <2>2
<1>9. s \in Reqs(b) BY <1>2, <1>6 DEF Reqs
<1>10. /\ s.pc = "idle" /\ s.route = route /\ s.step = 1 /\ s.status = 0 /\ ~ s.retryAfter
       /\ s.cause = "none" /\ s.did = {} /\ s.skipped = {} /\ s.bounds = b
  BY <1>6, <1>7 DEF Reqs
<1> HIDE DEF s
<1>11. ASSUME NEW e, e \in Reqs(b), NEW n \in 1..Len(P), e.pc \in {"db", "rag"}, e.route = route,
              e.status = 0, ~ e.retryAfter, e.cause = "none", e.did = {}, e.bounds = b, e.step = n,
              \A i \in 1..Len(P) : i < n => i \in e.skipped
       PROVE  Ready(e, n)
  <2>1. Passed(e, n) BY <1>11 DEF Passed, Settled, P
  <2>2. ReqOK(e) BY <1>11 DEF ReqOK
  <2> QED BY <1>11, <2>1, <2>2 DEF Ready
<1> DEFINE Started == CallInv(call') /\ UnderWay(req', call') /\ req'.route = route /\ req'.bounds = b
<1>12. ASSUME IsRag(P[first]), req' = u, call' = Begin(P[first]) PROVE Started
  <2>1. P[first] \in Ops /\ "create_job" \notin Ops BY <1>12 DEF IsRag, Ops, Mutations, Reads
  <2>2. first = 1 BY <1>4, <2>1
  <2>3. req' \in Reqs(b) BY <1>9, <1>12 DEF Reqs
  <2>4. /\ req'.pc = "rag" /\ req'.route = s.route /\ req'.status = s.status /\ req'.retryAfter = s.retryAfter
        /\ req'.cause = s.cause /\ req'.did = s.did /\ req'.bounds = s.bounds /\ req'.step = s.step
    BY <1>9, <1>12 DEF Reqs
  <2>5. \A i \in 1..Len(P) : ~ (i < 1) BY <1>3
  <2>6. Ready(req', 1) BY <1>4, <1>10, <1>11, <2>2, <2>3, <2>4, <2>5
  <2> DEFINE op == P[first]
  <2>7. call' = Begin(op) /\ op \in Ops BY <1>12, <2>1
  <2> HIDE DEF op
  <2>8. CallInv(call') /\ call'.op = op /\ call'.pc # "idle" BY <2>7, BeginInv
  <2>9. op = Plan(req'.route)[req'.step] BY <1>10, <2>2, <2>4 DEF op, P
  <2>10. UnderWay(req', call') BY <1>4, <1>10, <2>2, <2>4, <2>6, <2>7, <2>8, <2>9 DEF UnderWay, P
  <2> QED BY <1>10, <2>4, <2>8, <2>10
<1>13. CallInv(purge) /\ CallInv(NoCall)
  <2>1. NoCall \in Calls /\ CallInv(NoCall) BY NoCallInv DEF CallInv
  <2>2. PurgeBudget \in Int /\ PurgeBudget >= 0 BY RequestAssumption
  <2>3. purge \in Calls BY <2>1, <2>2 DEF Calls
  <2>4. purge.left = PurgeBudget /\ purge.op = NoCall.op /\ purge.pc = NoCall.pc /\ purge.did = NoCall.did
    BY <2>1 DEF Calls
  <2>5. NoCall.op = "none" /\ NoCall.pc = "idle" /\ ~ NoCall.did BY DEF NoCall
  <2> HIDE DEF purge
  <2> QED BY <2>1, <2>2, <2>3, <2>4, <2>5 DEF CallInv
<1>14. ASSUME ~ IsRag(P[first]), req' = t, call' = purge \/ call' = NoCall PROVE Started
  <2> DEFINE gap == s.step..(s.step + (first - 1) - 1)
             v == Skip(s, first - 1)
  <2>1. v = [s EXCEPT !.skipped = @ \cup gap] BY DEF Skip
  <2>2. gap \subseteq Nat /\ \A i \in 1..Len(P) : i < first => i \in gap BY <1>3, <1>4, <1>10
  <2>3. req' = [v EXCEPT !.pc = "db", !.step = first] BY <1>14
  <2> HIDE DEF gap, v
  <2>4. v \in Reqs(b) BY <1>9, <2>1, <2>2 DEF Reqs
  <2>5. /\ v.route = s.route /\ v.status = s.status /\ v.retryAfter = s.retryAfter
        /\ v.cause = s.cause /\ v.did = s.did /\ v.bounds = s.bounds /\ v.skipped = s.skipped \cup gap
    BY <1>9, <2>1 DEF Reqs
  <2>6. req' \in Reqs(b) BY <1>4, <2>3, <2>4 DEF Reqs
  <2>7. /\ req'.pc = "db" /\ req'.route = v.route /\ req'.status = v.status /\ req'.retryAfter = v.retryAfter
        /\ req'.cause = v.cause /\ req'.did = v.did /\ req'.bounds = v.bounds /\ req'.step = first
        /\ req'.skipped = v.skipped
    BY <2>3, <2>4 DEF Reqs
  <2>8. Ready(req', first) BY <1>4, <1>10, <1>11, <2>2, <2>5, <2>6, <2>7
  <2>9. P[first] \notin Ops BY <1>14 DEF IsRag, Ops
  <2>10. UnderWay(req', call') BY <1>4, <1>10, <2>5, <2>7, <2>8, <2>9 DEF UnderWay, P
  <2>11. CallInv(call') BY <1>13, <1>14
  <2> QED BY <1>10, <2>5, <2>7, <2>10, <2>11
<1> HIDE DEF t, u, purge
<1>15. 400 \in {400, 401} /\ 401 \in {400, 401} OBVIOUS
<1>16. CASE req' = Final(r, 401) /\ call' = call BY <1>8, <1>15, <1>16
<1>17. CASE req' = Final(r, 400) /\ call' = call BY <1>8, <1>15, <1>17
<1>18. Started => req'.bounds = Bounds(route, q) BY DEF b
<1> QED BY <1>1, <1>12, <1>14, <1>16, <1>17, <1>18

-----------------------------------------------------------------------------
(* The bounds of a query.                                                   *)

\* What QueriesBounded asks of a route's bounds.
Within(route, b) ==
    LET has(P) == Params[route] \cap P # {} IN
    /\ has({"limit"}) \/ route \in Walks => b.limit \in 1..5000
    /\ has({"top_k"}) => b.limit \in 1..500
    /\ has({"depth", "max_depth"}) => b.depth \in 1..10

\* The routes' tables.
LEMMA RouteTables ==
    /\ DOMAIN MemoryParams = {"createMemory", "getMemory", "deleteMemory"}
    /\ DOMAIN IngestParams = {"bulk", "getJob"}
    /\ DOMAIN QueryParams = {"query", "queryData", "describe"}
    /\ DOMAIN EntityParams = {"searchEntities", "getEntity", "patchEntity"}
    /\ DOMAIN EdgeParams = {"listEdges", "createEdge", "deleteEdge"}
<1>1. DOMAIN MemoryParams = {"createMemory", "getMemory", "deleteMemory"} BY DEF MemoryParams
<1>2. DOMAIN IngestParams = {"bulk", "getJob"} BY DEF IngestParams
<1>3. DOMAIN QueryParams = {"query", "queryData", "describe"} BY DEF QueryParams
<1>4. DOMAIN EntityParams = {"searchEntities", "getEntity", "patchEntity"} BY DEF EntityParams
<1>5. DOMAIN EdgeParams = {"listEdges", "createEdge", "deleteEdge"} BY DEF EdgeParams
<1> QED BY <1>1, <1>2, <1>3, <1>4, <1>5

\* The queries of LightRAG have no limit but top_k.
LEMMA QueryTopK ==
    ASSUME NEW route \in {"query", "queryData", "describe"}
    PROVE  route \in Routes /\ "limit" \notin Params[route] /\ route \notin Walks
<1>1. route \in DOMAIN QueryParams /\ route \notin DOMAIN MemoryParams /\ route \notin DOMAIN IngestParams
  BY RouteTables
<1>2. route \in Routes
  <2>1. DOMAIN QueryParams \subseteq Routes BY DEF Routes
  <2> QED BY <1>1, <2>1
<1>3. QueryParams[route] = {"body", "mode", "text", "top_k"} BY DEF QueryParams
<1>4. route \notin DOMAIN EntityParams /\ route \notin DOMAIN EdgeParams BY RouteTables
<1>5. route \notin DOMAIN PushParams BY DEF PushParams
<1>6. route \notin DOMAIN LookupParams BY DEF LookupParams
<1>7. route \notin DOMAIN WalkParams BY DEF WalkParams, Walks
<1>8. route \notin DOMAIN LinkParams BY DEF LinkParams
<1>9. route \notin DOMAIN SemanticParams BY DEF SemanticParams
<1>10. route \notin DOMAIN OverviewParams BY DEF OverviewParams
<1>11. Params[route] = QueryParams[route] BY <1>1, <1>2, <1>4, <1>5, <1>6, <1>7, <1>8, <1>9, <1>10 DEF Params
<1> QED BY <1>2, <1>3, <1>11 DEF Walks

\* Only they take top_k.
LEMMA OnlyQueriesTopK ==
    ASSUME NEW route \in Routes, "top_k" \in Params[route]
    PROVE  route \in {"query", "queryData", "describe"}
<1> SUFFICES ASSUME route \notin DOMAIN QueryParams PROVE FALSE BY RouteTables
<1> DEFINE Tables == {MemoryParams, IngestParams, EntityParams, EdgeParams, PushParams, LookupParams,
                      WalkParams, LinkParams, SemanticParams, OverviewParams}
<1>1. \E T \in Tables : route \in DOMAIN T /\ Params[route] = T[route]
  BY DEF Params, Routes
<1>2. ASSUME NEW r \in DOMAIN MemoryParams PROVE "top_k" \notin MemoryParams[r] BY DEF MemoryParams
<1>3. ASSUME NEW r \in DOMAIN IngestParams PROVE "top_k" \notin IngestParams[r] BY DEF IngestParams
<1>4. ASSUME NEW r \in DOMAIN EntityParams PROVE "top_k" \notin EntityParams[r] BY DEF EntityParams
<1>5. ASSUME NEW r \in DOMAIN EdgeParams PROVE "top_k" \notin EdgeParams[r] BY DEF EdgeParams
<1>6. ASSUME NEW r \in DOMAIN PushParams PROVE "top_k" \notin PushParams[r] BY DEF PushParams
<1>7. ASSUME NEW r \in DOMAIN LookupParams PROVE "top_k" \notin LookupParams[r] BY DEF LookupParams
<1>8. ASSUME NEW r \in DOMAIN WalkParams PROVE "top_k" \notin WalkParams[r] BY DEF WalkParams
<1>9. ASSUME NEW r \in DOMAIN LinkParams PROVE "top_k" \notin LinkParams[r] BY DEF LinkParams
<1>10. ASSUME NEW r \in DOMAIN SemanticParams PROVE "top_k" \notin SemanticParams[r] BY DEF SemanticParams
<1>11. ASSUME NEW r \in DOMAIN OverviewParams PROVE "top_k" \notin OverviewParams[r] BY DEF OverviewParams
<1> QED BY <1>1, <1>2, <1>3, <1>4, <1>5, <1>6, <1>7, <1>8, <1>9, <1>10, <1>11

\* Whatever count a handler accepts, the store or LightRAG is asked for at
\* least one row and at most the route's maximum.
LEMMA BoundsWithin ==
    ASSUME NEW route \in Routes, NEW q, Accepts(route, q)
    PROVE  Within(route, Bounds(route, q))
<1> DEFINE b == Bounds(route, q)
           has(p) == p \in Params[route]
<1>1. ASSUME NEW p \in Counts, has(p) PROVE Atoi(q[p]) \in Int
  <2>1. Valid(route, q, p) BY <1>1 DEF Accepts
  <2> DEFINE v == q[p]
  <2>2. p \notin {"body", "community", "min_confidence", "tier", "direction", "by", "mode", "files", "items",
                 "reconcile_files", "repo"}
    BY DEF Counts
  <2>3. parsePosInt(v) BY <2>1, <2>2 DEF Valid
  <2> HIDE DEF v
  <2>4. \A w \in DOMAIN Numbers : Numbers[w] \in Int BY DEF Numbers
  <2>5. Atoi(v) \in Int
    <3>1. CASE v = ""
      <4>1. Atoi(v) = 0 BY <3>1, Zenon DEF Atoi
      <4> QED BY <4>1
    <3>2. CASE v # ""
      <4>1. v \in DOMAIN Numbers BY <2>3, <3>2 DEF parsePosInt
      <4>2. Atoi(v) = Numbers[v] BY <3>2 DEF Atoi
      <4> QED BY <2>4, <4>1, <4>2
    <3> QED BY <3>1, <3>2
  <2> QED BY <2>5 DEF v
<1>2. ASSUME NEW r, NEW n \in Int PROVE limitOf(r, n) \in 1..5000
  <2>1. /\ Clamp(n, 50, 500) \in 1..500 /\ Clamp(n, 100, 500) \in 1..500 /\ Clamp(n, 1000, 5000) \in 1..5000
        /\ Clamp(n, 10, 500) \in 1..500 /\ Clamp(n, 20, 200) \in 1..200
    BY DEF Clamp
  <2>3. limitOf(r, n) \in {Clamp(n, 50, 500), Clamp(n, 100, 500), Clamp(n, 1000, 5000), Clamp(n, 10, 500),
                           Clamp(n, 20, 200)}
    BY DEF limitOf
  <2> DEFINE c == limitOf(r, n)
  <2> HIDE DEF c
  <2>4. c \in 1..500 \/ c \in 1..5000 \/ c \in 1..200 BY <2>1, <2>3 DEF c
  <2>5. c \in 1..5000 BY <2>4
  <2> QED BY <2>5 DEF c
<1>3. ASSUME NEW n \in Int PROVE clampDepth(n) \in 1..10 BY DEF Clamp, clampDepth
<1>4. {"limit", "top_k", "depth", "max_depth"} \subseteq Counts BY DEF Counts
<1>5. b.limit = IF has("limit") THEN limitOf(route, Atoi(q["limit"]))
                ELSE IF has("top_k") THEN limitOf(route, Atoi(q["top_k"]))
                ELSE IF route \in Walks THEN limitOf("neighbors", 0) ELSE 0
  BY DEF Bounds
<1>6. b.depth = IF has("depth") THEN clampDepth(Atoi(q["depth"]))
                ELSE IF has("max_depth") THEN clampDepth(Atoi(q["max_depth"])) ELSE 0
  BY DEF Bounds
<1> HIDE DEF b
<1>7. has("limit") \/ route \in Walks => b.limit \in 1..5000
  <2>1. limitOf("neighbors", 0) \in 1..5000 BY <1>2
  <2>2. CASE has("limit")
    <3> DEFINE n == Atoi(q["limit"])
    <3>1. n \in Int BY <1>1, <1>4, <2>2
    <3>2. b.limit = limitOf(route, n) BY <1>5, <2>2
    <3> HIDE DEF n
    <3> QED BY <1>2, <3>1, <3>2
  <2>3. CASE ~ has("limit") /\ has("top_k")
    <3> DEFINE n == Atoi(q["top_k"])
    <3>1. n \in Int BY <1>1, <1>4, <2>3
    <3>2. b.limit = limitOf(route, n) BY <1>5, <2>3
    <3> HIDE DEF n
    <3> QED BY <1>2, <3>1, <3>2
  <2>4. CASE ~ has("limit") /\ ~ has("top_k") BY <1>5, <2>1, <2>4
  <2> QED BY <2>2, <2>3, <2>4
<1>8. has("top_k") => b.limit \in 1..500
  <2> SUFFICES ASSUME has("top_k") PROVE b.limit \in 1..500 OBVIOUS
  <2>1. route \in {"query", "queryData", "describe"} BY OnlyQueriesTopK
  <2>2. ~ has("limit") BY <2>1, QueryTopK
  <2> DEFINE n == Atoi(q["top_k"])
  <2>3. n \in Int BY <1>1, <1>4
  <2>4. b.limit = limitOf(route, n) BY <1>5, <2>2
  <2> HIDE DEF n
  <2>5. limitOf(route, n) = Clamp(n, 10, 500)
    <3>1. route \notin {"search", "ambiguous", "fileImports", "crossRepo", "neighbors"} BY <2>1
    <3> QED BY <2>1, <3>1 DEF limitOf
  <2>6. Clamp(n, 10, 500) \in 1..500 BY <2>3 DEF Clamp
  <2> QED BY <2>4, <2>5, <2>6
<1>9. has("depth") \/ has("max_depth") => b.depth \in 1..10 BY <1>1, <1>3, <1>4, <1>6
<1>10. Within(route, b) BY <1>7, <1>8, <1>9 DEF Within
<1> QED BY <1>10 DEF b

-----------------------------------------------------------------------------
(* The inductive invariant.                                                 *)

Inv ==
    /\ CallInv(call)
    /\ ReqInv
    /\ req.pc \in {"db", "rag"} => Within(req.route, req.bounds)

\* It holds before a request arrives.
LEMMA InvInit == Init => Inv
BY NoCallInv, NoRequestFields DEF Init, Inv, ReqInv

\* Every step keeps it.
LEMMA InvStep == Inv /\ [Next]_vars => Inv'
<1> SUFFICES ASSUME Inv, [Next]_vars PROVE Inv' OBVIOUS
<1>0. CallInv(call) /\ ReqInv BY DEF Inv
<1>1. CASE UNCHANGED vars BY <1>1 DEF vars, Inv, ReqInv
<1>2. ASSUME NEW route \in Routes, NEW token, NEW q, Arrive(route, token, q) PROVE Inv'
  <2>1. req = NoRequest
    <3>1. req.pc = "idle" BY <1>2 DEF Arrive
    <3> QED BY <1>0, <3>1 DEF ReqInv, UnderWay, Ready, Answered
  <2>2. CallInv(call') BY <1>0, <1>2, <2>1, ArriveKeeps
  <2>3. \/ Answered(req')
        \/ UnderWay(req', call') /\ req'.route = route /\ req'.bounds = Bounds(route, q) /\ Accepts(route, q)
    BY <1>0, <1>2, <2>1, ArriveKeeps
  <2>4. CASE Answered(req') BY <2>2, <2>4 DEF Inv, ReqInv, Answered
  <2>5. CASE UnderWay(req', call') /\ req'.route = route /\ req'.bounds = Bounds(route, q) /\ Accepts(route, q)
    <3>1. Within(req'.route, req'.bounds) BY <2>5, BoundsWithin
    <3> QED BY <2>2, <2>5, <3>1 DEF Inv, ReqInv
  <2> QED BY <2>3, <2>4, <2>5
<1>3. ASSUME req.pc \in {"db", "rag"} PROVE UnderWay(req, call) /\ Within(req.route, req.bounds)
  <2>1. req # NoRequest BY <1>3, NoRequestFields
  <2>2. ~ Answered(req) BY <1>3 DEF Answered
  <2> QED BY <1>3, <2>1, <2>2 DEF Inv, ReqInv
<1>4. ASSUME Within(req.route, req.bounds), Goes PROVE Inv'
  <2>1. CallInv(call') /\ (UnderWay(req', call') \/ Answered(req')) BY <1>4 DEF Goes
  <2>2. Within(req'.route, req'.bounds) BY <1>4 DEF Goes
  <2> QED BY <2>1, <2>2 DEF Inv, ReqInv
<1>5. CASE DbOk BY <1>0, <1>3, <1>4, <1>5, DbOkKeeps DEF DbOk
<1>6. CASE DbFailed BY <1>0, <1>3, <1>4, <1>6, DbFailedKeeps DEF DbFailed
<1>7. CASE RagDone BY <1>0, <1>3, <1>4, <1>7, RagDoneKeeps DEF RagDone
<1>8. CASE Panic BY <1>0, <1>3, <1>4, <1>8, PanicKeeps DEF Panic
<1>14. CASE WriteDeadline
  <2>1. call' = call /\ req.pc \in {"db", "rag"} /\ req' = [req EXCEPT !.late = TRUE] BY <1>14 DEF WriteDeadline
  <2>2. UnderWay(req, call) /\ Within(req.route, req.bounds) BY <1>3, <2>1
  <2>3. req \in Reqs(req.bounds) BY <2>2, Facts
  <2>4. req' \in Reqs(req.bounds) BY <2>1, <2>3 DEF Reqs
  <2>5. /\ req'.pc = req.pc /\ req'.route = req.route /\ req'.step = req.step /\ req'.status = req.status
        /\ req'.retryAfter = req.retryAfter /\ req'.bounds = req.bounds /\ req'.cause = req.cause
        /\ req'.did = req.did /\ req'.there = req.there /\ req'.skipped = req.skipped
    BY <2>1, <2>3 DEF Reqs
  <2>6. ReqOK(req') BY <2>4, <2>5 DEF ReqOK
  <2>7. Passed(req', req'.step) BY <2>2, <2>5 DEF UnderWay, Ready, Passed, Settled
  <2>8. Ready(req', req'.step) BY <2>2, <2>5, <2>6, <2>7 DEF UnderWay, Ready
  <2>9. UnderWay(req', call') BY <2>1, <2>2, <2>5, <2>8 DEF UnderWay
  <2> QED BY <1>0, <2>1, <2>2, <2>5, <2>9 DEF Inv, ReqInv
<1>9. ASSUME req.pc \in {"db", "rag"}, req' = req, CallInv(call'),
             req.pc = "rag" => call'.op = call.op /\ call'.pc # "idle"
      PROVE  Inv'
  <2>1. UnderWay(req, call) /\ Within(req.route, req.bounds) BY <1>3, <1>9
  <2>2. UnderWay(req', call') BY <1>9, <2>1 DEF UnderWay
  <2> QED BY <1>9, <2>1, <2>2 DEF Inv, ReqInv
<1>10. CASE DbTick \/ DbCancel
  <2>1. CallInv(call') BY <1>0, <1>10, DbTimeKeeps
  <2>2. req.pc = "db" /\ req' = req BY <1>10 DEF DbTick, DbCancel
  <2> QED BY <1>9, <2>1, <2>2
<1>11. CASE Rag(ClientStep)
  <2>1. ClientStep /\ req.pc = "rag" /\ req' = req BY <1>11 DEF Rag
  <2>2. Kept(call, call') BY <1>0, <2>1, ReplyKeeps, LostKeeps, TimerKeeps DEF ClientStep
  <2> QED BY <1>9, <2>1, <2>2 DEF Kept
<1>12. CASE Rag(Pipeline)
  <2>1. call' = call /\ req.pc = "rag" /\ req' = req BY <1>12 DEF Rag, Pipeline
  <2>2. call.pc # "idle" BY <1>3, <2>1 DEF UnderWay
  <2> QED BY <1>0, <1>9, <2>1, <2>2
<1>13. CASE Rag(Cancel)
  <2>1. Cancel /\ req.pc = "rag" /\ req' = req BY <1>13 DEF Rag
  <2>2. Kept(call, call') BY <1>0, <2>1, TimerKeeps
  <2> QED BY <1>9, <2>1, <2>2 DEF Kept
<1> QED BY <1>1, <1>2, <1>5, <1>6, <1>7, <1>8, <1>10, <1>11, <1>12, <1>13, <1>14 DEF Next

\* The invariant always holds.
LEMMA InvHolds == Spec => []Inv
BY InvInit, InvStep, PTL DEF Spec

BudgetInv == PollInv(call)

\* Every step keeps the budget of a call.
LEMMA BudgetStep == Inv /\ BudgetInv /\ [Next]_vars => BudgetInv'
<1> SUFFICES ASSUME Inv, PollInv(call), [Next]_vars PROVE PollInv(call') BY DEF BudgetInv
<1>0. CallInv(call) /\ call \in Calls BY DEF Inv, CallInv
<1>1. NoCall \in Calls BY NoCallInv DEF CallInv
<1>2. NoCall.pc = "idle" /\ NoCall.attempt = 0 /\ NoCall.delay = 1 /\ NoCall.left = defaultBusyRetryBudget
  BY DEF NoCall
<1>3. PollInv(NoCall) BY <1>1, <1>2, PollIdle
<1>4. ASSUME call' = [NoCall EXCEPT !.cancelled = call.cancelled] PROVE PollInv(call')
  <2>1. call' \in Calls BY <1>0, <1>1, <1>4 DEF Calls
  <2>2. SameClock(NoCall, call') BY <1>1, <1>4 DEF Calls, SameClock
  <2> QED BY <1>3, <2>1, <2>2, SameClockPoll
<1>5. ASSUME call' = [NoCall EXCEPT !.own = TRUE, !.left = PurgeBudget] PROVE PollInv(call')
  <2>1. PurgeBudget \in Int BY RequestAssumption
  <2>2. call' \in Calls BY <1>1, <1>5, <2>1 DEF Calls
  <2>3. call'.pc = NoCall.pc /\ call'.attempt = NoCall.attempt /\ call'.delay = NoCall.delay /\ call'.own
    BY <1>1, <1>5 DEF Calls
  <2> QED BY <1>2, <2>2, <2>3, PollIdle
<1>6. ASSUME NEW op, IsRag(op), call' = Begin(op) PROVE PollInv(call')
  <2>1. op \in Ops BY <1>6 DEF IsRag, Ops
  <2> QED BY <1>0, <1>6, <2>1, PollBegin
<1>7. ASSUME NEW r, NEW n, GoTo(r, n) PROVE PollInv(call')
  BY <1>4, <1>6, <1>7 DEF GoTo
<1>8. CASE UNCHANGED vars BY <1>8 DEF vars
<1>9. ASSUME NEW route \in Routes, NEW token, NEW q, Arrive(route, token, q) PROVE PollInv(call')
  <2> DEFINE first == IF route = "bulk" /\ q["reconcile_files"] = "" THEN Len(Plan(route)) ELSE 1
             op == Plan(route)[first]
  <2>1. \/ call' = call
        \/ IsRag(op) /\ call' = Begin(op)
        \/ call' = [NoCall EXCEPT !.own = TRUE, !.left = PurgeBudget]
        \/ call' = NoCall
    BY <1>9 DEF Arrive
  <2> HIDE DEF first, op
  <2> QED BY <1>3, <1>5, <1>6, <2>1
<1>10. CASE DbOk BY <1>7, <1>10 DEF DbOk
<1>11. CASE DbFailed BY <1>7, <1>11 DEF DbFailed
<1>12. CASE RagDone
  <2>1. call' = call \/ \E r, n : GoTo(r, n) BY <1>12 DEF RagDone
  <2> QED BY <1>7, <2>1
<1>13. CASE Panic BY <1>13 DEF Panic
<1>14. CASE DbTick
  <2>1. call.own /\ call' = [call EXCEPT !.left = @ - 1] BY <1>14 DEF DbTick
  <2>2. call.left - 1 \in Int BY <1>0 DEF Calls
  <2>3. call' \in Calls BY <1>0, <2>1, <2>2 DEF Calls
  <2>4. call'.pc = call.pc /\ call'.attempt = call.attempt /\ call'.timer = call.timer
        /\ call'.delay = call.delay /\ call'.own = call.own
    BY <1>0, <2>1 DEF Calls
  <2> QED BY <2>1, <2>3, <2>4 DEF PollInv
<1>15. CASE DbCancel
  <2>1. call' = [call EXCEPT !.cancelled = TRUE] BY <1>15 DEF DbCancel
  <2>2. call' \in Calls /\ SameClock(call, call') BY <1>0, <2>1 DEF Calls, SameClock
  <2> QED BY <2>2, SameClockPoll
<1>16. CASE Rag(ClientStep) BY <1>0, <1>16, PollClient DEF Rag
<1>17. CASE Rag(Pipeline) BY <1>17 DEF Rag, Pipeline
<1>18. CASE Rag(Cancel) BY <1>0, <1>18, PollClient DEF Rag
<1>19. CASE WriteDeadline BY <1>19 DEF WriteDeadline
<1> QED BY <1>19, <1>8, <1>9, <1>10, <1>11, <1>12, <1>13, <1>14, <1>15, <1>16, <1>17, <1>18 DEF Next

-----------------------------------------------------------------------------
(* Theorems.                                                                *)

\* An answered request has a status of its own; one that is not has none.
LEMMA StatusOnlyAnswered == Inv => (req.status = 0 \/ Answered(req))
BY NoRequestFields DEF Inv, ReqInv, UnderWay, Ready

\* A request answered with success (201, 202, 204, 200) has had every call of
\* its plan that changes LightRAG carried out, or passed over because what it
\* would remove is gone, or is an insert LightRAG reported "duplicated" or
\* "partial_success", whatever was lost, repeated or polled for on the way.
THEOREM SuccessMeansDoneHolds == Spec => []SuccessMeansDone
<1>1. Inv => SuccessMeansDone
  <2> SUFFICES ASSUME Inv, Succeeded, NEW i \in 1..Len(Plan(req.route)), Plan(req.route)[i] \in Mutations
               PROVE  Settled(req, i)
    BY DEF SuccessMeansDone, Settled
  <2>0. 0 \notin 200..299 OBVIOUS
  <2>1. req.status \in 200..299 BY DEF Succeeded
  <2>2. Answered(req) BY <2>0, <2>1, StatusOnlyAnswered
  <2>3. Passed(req, Len(Plan(req.route)) + 1) BY <2>1, <2>2 DEF Answered
  <2>4. Len(Plan(req.route)) \in Nat BY PlanShape
  <2>5. i < Len(Plan(req.route)) + 1 BY <2>4
  <2> QED BY <2>3, <2>5 DEF Passed
<1> QED BY <1>1, InvHolds, PTL

\* When mapServiceError answers a failed call, LightRAG has not done what the
\* call asked for, unless the answer to an attempt was lost, was no JSON or
\* was an insert's without a track_id.
THEOREM FailureMeansNotDoneHolds == Spec => []FailureMeansNotDone
<1>1. Inv => FailureMeansNotDone
  <2> SUFFICES ASSUME Inv, req.pc = "answered", ~ Succeeded, req.step \in req.did PROVE req.step \in req.unclear
    BY DEF FailureMeansNotDone
  <2>1. Answered(req) BY NoRequestFields DEF Inv, ReqInv, UnderWay, Ready
  <2> QED BY <2>1 DEF Answered, Succeeded
<1> QED BY <1>1, InvHolds, PTL

\* Every saturation (a busy pipeline, LightRAG's 429, a deadline, a lock that
\* is not to be had) is answered 429, nothing else is, and exactly 429 and 503
\* carry Retry-After.
THEOREM SaturatedIs429Holds == Spec => []SaturatedIs429
<1>1. Inv => SaturatedIs429
  <2> SUFFICES ASSUME Inv, req.pc = "answered"
               PROVE  /\ (req.cause = "saturated") = (req.status = 429)
                      /\ req.retryAfter = (req.status \in {429, 503})
    BY DEF SaturatedIs429
  <2>1. Answered(req) BY NoRequestFields DEF Inv, ReqInv, UnderWay, Ready
  <2>2. req.retryAfter \in BOOLEAN BY <2>1 DEF Answered, ReqOK, Reqs
  <2>3. (req.cause = "saturated" <=> req.status = 429) /\ (req.retryAfter <=> req.status \in {429, 503})
    BY <2>1 DEF Answered
  <2>4. (req.cause = "saturated") = (req.status = 429) BY <2>3
  <2>5. req.retryAfter = (req.status \in {429, 503}) BY <2>2, <2>3
  <2> QED BY <2>4, <2>5
<1> QED BY <1>1, InvHolds, PTL

\* A purge never waits past DefaultPurgeBudget: not between two attempts, not
\* between two polls of a busy pipeline and not in the database.  A call of
\* DeleteDocs without a deadline overruns its polling budget by at most one
\* round of attempts, whatever Retry-After says.
THEOREM DeadlineKeptHolds == Spec => []DeadlineKept
<1>1. Init => BudgetInv
  <2> SUFFICES ASSUME Init PROVE PollInv(call) BY DEF BudgetInv
  <2>1. NoCall \in Calls /\ call = NoCall BY NoCallInv DEF CallInv, Init
  <2>2. NoCall.pc = "idle" /\ NoCall.attempt = 0 /\ NoCall.delay = 1 /\ NoCall.left = defaultBusyRetryBudget
    BY DEF NoCall
  <2> QED BY <2>1, <2>2, PollIdle
<1>2. Spec => []BudgetInv BY <1>1, BudgetStep, InvHolds, PTL DEF Spec
<1>3. Inv /\ BudgetInv => DeadlineKept BY DEF Inv, CallInv, BudgetInv, PollInv, DeadlineKept
<1> QED BY <1>2, <1>3, InvHolds, PTL

\* Whatever count a client sends, the clamps of handler and service leave a
\* query that reaches the store or LightRAG between one and the maximum.
THEOREM QueriesBoundedHolds == Spec => []QueriesBounded
<1>1. Inv => QueriesBounded BY DEF Inv, QueriesBounded, Within
<1> QED BY <1>1, InvHolds, PTL

=============================================================================
