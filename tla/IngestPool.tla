----------------------------- MODULE IngestPool -----------------------------
(***************************************************************************)
(* The bulk-ingest subsystem (internal/ingest): the Postgres job store, the *)
(* bounded notify channel, the worker goroutines that drain jobs, the       *)
(* Resume sweeper, graceful Stop and process restarts.                      *)
(*                                                                          *)
(* Every store call is one atomic step (each is one SQL statement or one    *)
(* transaction); everything a goroutine keeps between two calls is in the   *)
(* volatile variables and is lost by a restart.  A store call may fail; a   *)
(* failed commit may or may not have been applied.  Failures are bounded by *)
(* MaxFaults, restarts by MaxCrashes.                                       *)
(*                                                                          *)
(* Abstractions: texts and metadata are not modelled; created_at order of   *)
(* ListUnfinishedJobs and ClaimNextItem is an arbitrary choice (items of a  *)
(* job share one created_at); docs and finalized count up to 2.  raced is a *)
(* history variable: no action reads it.                                    *)
(***************************************************************************)
EXTENDS Naturals, Sequences, FiniteSets

CONSTANTS
    Jobs,        \* job identifiers
    Items,       \* idempotency keys an item of a job may have
    Filed,       \* items whose metadata names a repo and a file ({} without a source index)
    Workers,     \* the pool's worker goroutines
    Resumers,    \* goroutines that call Resume: the ticker, and startup
    BufCap,      \* capacity of the notify channel (256 in the code)
    MaxErrors,   \* cap on the stored error list (50 in the code)
    MaxCrashes,  \* bound on process restarts
    MaxFaults,   \* bound on failing store calls
    NoJob,
    NoItem

ASSUME ConstantsAssumption ==
    /\ IsFiniteSet(Items)
    /\ Filed \subseteq Items
    /\ NoJob \notin Jobs
    /\ NoItem \notin Items
    /\ BufCap \in Nat \ {0}
    /\ MaxErrors \in Nat
    /\ MaxCrashes \in Nat
    /\ MaxFaults \in Nat

VARIABLES
    job,         \* ingest_jobs: the row of each job
    item,        \* ingest_job_items.status
    track,       \* ingest_job_items.track_id is set
    indexed,     \* memory_sources row of the item: "no", "yes", or "lost" (Add failed)
    docs,        \* how often LightRAG accepted the item's text: 0, 1 or 2 (= many)
    finalized,   \* how often ingest_jobs_total counted the job: 0, 1 or 2 (= many)
    raced,       \* history: the races between two workers the job has been through
    toNotify,    \* jobs committed by Enqueue whose Notify has not run yet
    notify,      \* the channel of job identifiers
    pc,          \* program counter of each worker
    cur,         \* the job a worker runs
    snap,        \* the job row a worker holds between a read and a write
    claim,       \* the item a worker holds
    held,        \* the TrackID in the worker's copy of the item is set
    runErr,      \* the worker's runItem returned an error
    rpc,         \* program counter of each resumer
    rlist,       \* jobs a resumer still has to send
    stopping,    \* Stop closed the stop channel
    crashes,
    faults

jobStore  == <<job, item, track, indexed>>
worker    == <<pc, cur, snap, claim, held, runErr>>
resumer   == <<rpc, rlist>>
channel   == <<toNotify, notify>>
external  == <<docs, finalized, raced>>
process   == <<stopping, crashes>>
vars      == <<jobStore, worker, resumer, channel, external, process, faults>>

JobStatus  == {"queued", "running", "succeeded", "failed", "partial"}
ItemStatus == {"none", "pending", "running", "done", "failed"}
WorkerPC   == {"idle", "get", "start", "drain", "create", "track", "source",
               "mark", "final", "finish", "exited"}
PastGet    == WorkerPC \ {"idle", "get", "exited"}
ResumerPC  == {"idle", "list", "send", "exited"}

\* Seeded fault: partial is not a terminal status.
Terminal_ForgetsPartial(status) == status \in {"succeeded", "failed"}

\* JobStatus.Terminal
Terminal(status) == status \in {"succeeded", "failed", "partial"}

ItemTerminal(status) == status \in {"done", "failed"}

\* The zero IngestJob: no row (GetJob: ErrJobNotFound), or no snapshot held.
NoRow == [status |-> "absent", total |-> 0, done |-> 0, failed |-> 0, errors |-> {}]

Unfinished(j)  == job[j].status \in {"queued", "running"}
ItemsOf(j)     == {i \in Items : item[j][i] # "none"}
ItemsIn(j, st) == {i \in Items : item[j][i] = st}

UpTo2(n) == IF n < 2 THEN n + 1 ELSE 2

\* A store call may fail while the fault budget lasts.
Fault   == faults < MaxFaults /\ faults' = faults + 1
NoFault == faults' = faults

-----------------------------------------------------------------------------
Init ==
    /\ job       = [j \in Jobs |-> NoRow]
    /\ item      = [j \in Jobs |-> [i \in Items |-> "none"]]
    /\ track     = [j \in Jobs |-> [i \in Items |-> FALSE]]
    /\ indexed   = [j \in Jobs |-> [i \in Items |-> "no"]]
    /\ docs      = [j \in Jobs |-> [i \in Items |-> 0]]
    /\ finalized = [j \in Jobs |-> 0]
    /\ raced     = [j \in Jobs |-> {}]
    /\ toNotify  = {}
    /\ notify    = <<>>
    /\ pc        = [w \in Workers |-> "idle"]
    /\ cur       = [w \in Workers |-> NoJob]
    /\ snap      = [w \in Workers |-> NoRow]
    /\ claim     = [w \in Workers |-> NoItem]
    /\ held      = [w \in Workers |-> FALSE]
    /\ runErr    = [w \in Workers |-> FALSE]
    /\ rpc       = [r \in Resumers |-> "idle"]
    /\ rlist     = [r \in Resumers |-> {}]
    /\ stopping  = FALSE
    /\ crashes   = 0
    /\ faults    = 0

-----------------------------------------------------------------------------
(* Enqueue: the HTTP handler's side.                                        *)

\* Enqueue: one transaction creates the job row and its pending items; a
\* commit that fails after it was applied leaves a queued job nobody notifies.
CreateJob(j, S) ==
    /\ job[j].status = "absent"
    /\ S # {}
    /\ job'  = [job EXCEPT ![j] = [NoRow EXCEPT !.status = "queued",
                                                !.total  = Cardinality(S)]]
    /\ item' = [item EXCEPT ![j] = [i \in Items |-> IF i \in S THEN "pending" ELSE "none"]]
    /\ \/ NoFault /\ toNotify' = toNotify \cup {j}
       \/ Fault /\ UNCHANGED toNotify
    /\ UNCHANGED <<track, indexed, external, notify, worker, resumer, process>>

\* Notify never blocks: a full channel drops the job.
Notify(j) ==
    /\ j \in toNotify
    /\ toNotify' = toNotify \ {j}
    /\ notify' = IF Len(notify) < BufCap THEN Append(notify, j) ELSE notify
    /\ UNCHANGED <<jobStore, external, worker, resumer, process, faults>>

-----------------------------------------------------------------------------
(* Resume: the periodic sweeper, and the call startup makes.                *)

\* Seeded fault: the UPDATE lacks its status='running' condition.
ResetRunningItems_AnyStatus ==
    [j \in Jobs |-> [i \in Items |->
        IF Unfinished(j) /\ item[j][i] # "none" THEN "pending" ELSE item[j][i]]]

\* One UPDATE: running items of every unfinished job become pending.
ResetRunningItems ==
    [j \in Jobs |-> [i \in Items |->
        IF Unfinished(j) /\ item[j][i] = "running" THEN "pending" ELSE item[j][i]]]

\* Seeded fault: running jobs are not listed.
ListUnfinishedJobs_QueuedOnly == {j \in Jobs : job[j].status = "queued"}

ListUnfinishedJobs == {j \in Jobs : Unfinished(j)}

ResumeReset(r) ==
    /\ rpc[r] = "idle"
    /\ \/ /\ NoFault
          /\ item' = ResetRunningItems
          /\ rpc' = [rpc EXCEPT ![r] = "list"]
       \/ Fault /\ UNCHANGED <<item, rpc>>
    /\ UNCHANGED <<job, track, indexed, external, channel, worker, rlist, process>>

ResumeList(r) ==
    /\ rpc[r] = "list"
    /\ \/ /\ NoFault
          /\ rlist' = [rlist EXCEPT ![r] = ListUnfinishedJobs]
          /\ rpc' = [rpc EXCEPT ![r] = IF ListUnfinishedJobs = {} THEN "idle" ELSE "send"]
       \/ /\ Fault
          /\ rpc' = [rpc EXCEPT ![r] = "idle"]
          /\ UNCHANGED rlist
    /\ UNCHANGED <<jobStore, external, channel, worker, process>>

\* A blocking send: waits for room in the channel.
ResumeSend(r) ==
    /\ rpc[r] = "send"
    /\ Len(notify) < BufCap
    /\ \E j \in rlist[r] :
         /\ notify' = Append(notify, j)
         /\ rlist' = [rlist EXCEPT ![r] = @ \ {j}]
         /\ rpc' = [rpc EXCEPT ![r] = IF rlist[r] = {j} THEN "idle" ELSE "send"]
    /\ UNCHANGED <<jobStore, external, toNotify, worker, process, faults>>

\* Seeded fault: the blocked send does not select on the stop channel.
ResumeExit_IdleOnly(r) ==
    /\ stopping
    /\ rpc[r] = "idle"
    /\ rpc' = [rpc EXCEPT ![r] = "exited"]
    /\ UNCHANGED <<rlist, jobStore, external, channel, worker, process, faults>>

\* periodicResume's select, and Resume's while it is blocked in a send.
ResumeExit(r) ==
    /\ stopping
    /\ rpc[r] \in {"idle", "send"}
    /\ rpc' = [rpc EXCEPT ![r] = "exited"]
    /\ rlist' = [rlist EXCEPT ![r] = {}]
    /\ UNCHANGED <<jobStore, external, channel, worker, process, faults>>

-----------------------------------------------------------------------------
(* Workers.                                                                 *)

Goto(w, label) == pc' = [pc EXCEPT ![w] = label]

\* runJob returns: the goroutine is back in worker's select.
Return(w) ==
    /\ Goto(w, "idle")
    /\ cur' = [cur EXCEPT ![w] = NoJob]
    /\ snap' = [snap EXCEPT ![w] = NoRow]

Receive(w) ==
    /\ pc[w] = "idle"
    /\ notify # <<>>
    /\ cur' = [cur EXCEPT ![w] = Head(notify)]
    /\ notify' = Tail(notify)
    /\ Goto(w, "get")
    /\ UNCHANGED <<jobStore, external, toNotify, snap, claim, held, runErr, resumer, process, faults>>

WorkerExit(w) ==
    /\ stopping
    /\ pc[w] = "idle"
    /\ Goto(w, "exited")
    /\ UNCHANGED <<jobStore, external, channel, cur, snap, claim, held, runErr, resumer, process, faults>>

\* Race kind is noted for worker w's job if another worker is at one of places.
Record(w, kind, places) ==
    raced' = IF \E v \in Workers \ {w} : cur[v] = cur[w] /\ pc[v] \in places
             THEN [raced EXCEPT ![cur[w]] = @ \cup {kind}]
             ELSE raced

\* Seeded fault: the start row is written for a running job too.
GetJob_RestartsRunning(w) ==
    /\ pc[w] = "get"
    /\ \/ /\ Terminal(job[cur[w]].status)
          /\ Return(w)
       \/ /\ ~Terminal(job[cur[w]].status)
          /\ snap' = [snap EXCEPT ![w] = job[cur[w]]]
          /\ Goto(w, "start")
          /\ UNCHANGED cur
    /\ IF job[cur[w]].status = "queued" THEN Record(w, "start", PastGet) ELSE UNCHANGED raced
    /\ UNCHANGED <<jobStore, docs, finalized, channel, claim, held, runErr, resumer, process, faults>>

\* The first GetJob of runJob; a terminal job is left alone.  A row read while
\* another worker has the job past its own read goes stale in this one's hands.
GetJob(w) ==
    /\ pc[w] = "get"
    /\ \/ Fault /\ Return(w) /\ UNCHANGED raced
       \/ /\ NoFault
          /\ Terminal(job[cur[w]].status)
          /\ Return(w)
          /\ UNCHANGED raced
       \/ /\ NoFault
          /\ job[cur[w]].status = "queued"
          /\ snap' = [snap EXCEPT ![w] = job[cur[w]]]
          /\ Goto(w, "start")
          /\ Record(w, "start", PastGet)
          /\ UNCHANGED cur
       \/ /\ NoFault
          /\ ~Terminal(job[cur[w]].status)
          /\ job[cur[w]].status # "queued"
          /\ Goto(w, "drain")
          /\ UNCHANGED <<cur, snap, raced>>
    /\ UNCHANGED <<jobStore, docs, finalized, channel, claim, held, runErr, resumer, process>>

\* UpdateJob replaces the whole row: status, total, counters and errors.
UpdateJob(j, row) == job' = [job EXCEPT ![j] = row]

\* queued -> running, written from the row that GetJob returned earlier.
StartJob(w) ==
    /\ pc[w] = "start"
    /\ \/ NoFault /\ UpdateJob(cur[w], [snap[w] EXCEPT !.status = "running"])
       \/ Fault /\ UNCHANGED job
    /\ Goto(w, "drain")
    /\ snap' = [snap EXCEPT ![w] = NoRow]
    /\ UNCHANGED <<item, track, indexed, external, channel, cur, claim, held, runErr, resumer, process>>

\* Seeded fault: a set TrackID skips the source index too.
HoldItem_SkipsSource(w, i) ==
    /\ item' = [item EXCEPT ![cur[w]][i] = "running"]
    /\ claim' = [claim EXCEPT ![w] = i]
    /\ held' = [held EXCEPT ![w] = track[cur[w]][i]]
    /\ Goto(w, IF track[cur[w]][i] THEN "mark" ELSE "create")

\* runItem begins: a set TrackID skips CreateMemory.
HoldItem(w, i) ==
    /\ item' = [item EXCEPT ![cur[w]][i] = "running"]
    /\ claim' = [claim EXCEPT ![w] = i]
    /\ held' = [held EXCEPT ![w] = track[cur[w]][i]]
    /\ Goto(w, IF track[cur[w]][i] THEN "source" ELSE "create")

\* One turn of the drain loop: claim a pending item, or leave the loop when
\* there is none or the claim failed (its commit may have been applied).
ClaimNextItem(w) ==
    /\ pc[w] = "drain"
    /\ ~stopping
    /\ \/ /\ NoFault
          /\ \E i \in ItemsIn(cur[w], "pending") : HoldItem(w, i)
       \/ /\ NoFault
          /\ ItemsIn(cur[w], "pending") = {}
          /\ Goto(w, "final")
          /\ UNCHANGED <<item, claim, held>>
       \/ /\ Fault
          /\ Goto(w, "final")
          /\ \/ UNCHANGED item
             \/ \E i \in ItemsIn(cur[w], "pending") :
                  item' = [item EXCEPT ![cur[w]][i] = "running"]
          /\ UNCHANGED <<claim, held>>
    /\ UNCHANGED <<job, track, indexed, external, channel, cur, snap, runErr, resumer, process>>

DrainStop(w) ==
    /\ pc[w] = "drain"
    /\ stopping
    /\ Return(w)
    /\ UNCHANGED <<jobStore, external, channel, claim, held, runErr, resumer, process, faults>>

\* Seeded fault: an error of CreateMemory is dropped.
CreateMemory_ErrorDropped(w) ==
    /\ pc[w] = "create"
    /\ \E accepted \in BOOLEAN :
         docs' = IF accepted THEN [docs EXCEPT ![cur[w]][claim[w]] = UpTo2(@)] ELSE docs
    /\ Goto(w, "mark")
    /\ UNCHANGED <<jobStore, finalized, raced, channel, cur, snap, claim, held, runErr, resumer, process, faults>>

\* Seeded fault: processItem gives up when the pool is stopping.
CreateMemory_AbortsOnStop(w) ==
    /\ pc[w] = "create"
    /\ \/ stopping /\ Return(w) /\ claim' = [claim EXCEPT ![w] = NoItem]
       \/ ~stopping /\ Goto(w, "track") /\ UNCHANGED <<cur, snap, claim>>
    /\ UNCHANGED <<jobStore, external, channel, held, runErr, resumer, process, faults>>

\* CreateMemory: accepted; refused; or accepted with the answer lost to the
\* item timeout.
CreateMemory(w) ==
    /\ pc[w] = "create"
    /\ \E accepted, failed \in BOOLEAN :
         /\ accepted \/ failed
         /\ docs' = IF accepted
                    THEN [docs EXCEPT ![cur[w]][claim[w]] = UpTo2(@)]
                    ELSE docs
         /\ held' = [held EXCEPT ![w] = ~failed]
         /\ runErr' = [runErr EXCEPT ![w] = failed]
         /\ Goto(w, IF failed THEN "mark" ELSE "track")
    /\ UNCHANGED <<jobStore, finalized, raced, channel, cur, snap, claim, resumer, process, faults>>

\* Best effort: an error (the item's deadline included) is only logged.
SetItemTrackID(w) ==
    /\ pc[w] = "track"
    /\ \/ NoFault /\ track' = [track EXCEPT ![cur[w]][claim[w]] = TRUE]
       \/ Fault /\ UNCHANGED track
    /\ Goto(w, "source")
    /\ UNCHANGED <<job, item, indexed, external, channel, cur, snap, claim, held, runErr, resumer, process>>

\* sources.Add, for an item with a file and a TrackID: an upsert whose failure
\* is logged and counted.  Any other item is not indexed.
AddSource(w) ==
    /\ pc[w] = "source"
    /\ \/ /\ claim[w] \in Filed /\ held[w]
          /\ \/ NoFault /\ indexed' = [indexed EXCEPT ![cur[w]][claim[w]] = "yes"]
             \/ /\ Fault
                /\ indexed' = [indexed EXCEPT ![cur[w]][claim[w]] = IF @ = "no" THEN "lost" ELSE @]
       \/ ~(claim[w] \in Filed /\ held[w]) /\ NoFault /\ UNCHANGED indexed
    /\ Goto(w, "mark")
    /\ UNCHANGED <<job, item, track, external, channel, cur, snap, claim, held, runErr, resumer, process>>

\* Seeded fault: the error list takes one entry too many.
BumpProgress_CapOffByOne(row, i, ok) ==
    IF ok THEN [row EXCEPT !.done = @ + 1]
    ELSE [row EXCEPT !.failed = @ + 1,
                     !.errors = IF Cardinality(@) <= MaxErrors THEN @ \cup {i} ELSE @]

\* The row after one more item succeeded (ok) or failed.
BumpProgress(row, i, ok) ==
    IF ok THEN [row EXCEPT !.done = @ + 1]
    ELSE [row EXCEPT !.failed = @ + 1,
                     !.errors = IF Cardinality(@) < MaxErrors THEN @ \cup {i} ELSE @]

\* Seeded fault: no NOT IN ('done','failed') condition.
MarkItemDoneAndProgress_NoGuard(j, i, ok) ==
    /\ item' = [item EXCEPT ![j][i] = IF ok THEN "done" ELSE "failed"]
    /\ job' = [job EXCEPT ![j] = BumpProgress(@, i, ok)]

\* Seeded fault: only a running item can be marked.
MarkItemDoneAndProgress_RunningOnly(j, i, ok) ==
    IF item[j][i] # "running"
    THEN UNCHANGED <<item, job>>
    ELSE MarkItemDoneAndProgress_NoGuard(j, i, ok)

\* One transaction; an item that is already terminal is left alone.
MarkItemDoneAndProgress(j, i, ok) ==
    IF ItemTerminal(item[j][i])
    THEN UNCHANGED <<item, job>>
    ELSE /\ item' = [item EXCEPT ![j][i] = IF ok THEN "done" ELSE "failed"]
         /\ job' = [job EXCEPT ![j] = BumpProgress(@, i, ok)]

MarkItem(w) ==
    /\ pc[w] = "mark"
    /\ \/ NoFault /\ MarkItemDoneAndProgress(cur[w], claim[w], ~runErr[w])
       \/ Fault /\ UNCHANGED <<item, job>>
    /\ Goto(w, "drain")
    /\ claim' = [claim EXCEPT ![w] = NoItem]
    /\ held' = [held EXCEPT ![w] = FALSE]
    /\ runErr' = [runErr EXCEPT ![w] = FALSE]
    /\ UNCHANGED <<track, indexed, external, channel, cur, snap, resumer, process>>

\* Seeded fault: one failure fails the job.
Verdict_NoPartial(row) == IF row.failed = 0 THEN "succeeded" ELSE "failed"

Verdict(row) ==
    CASE row.failed = 0 -> "succeeded"
      [] row.failed # 0 /\ row.done = 0 -> "failed"
      [] OTHER -> "partial"

\* Seeded fault: off by one.
Accounted_ButOne(row) == row.done + row.failed + 1 >= row.total

\* Every item is accounted for in the row.
Accounted(row) == row.done + row.failed >= row.total

\* The second GetJob of runJob: leave a terminal or an unfinished job alone,
\* otherwise count the verdict and go on to write it.
FinalGetJob(w) ==
    LET row == job[cur[w]] IN
    /\ pc[w] = "final"
    /\ \/ Fault /\ Return(w) /\ UNCHANGED <<finalized, raced>>
       \/ /\ NoFault
          /\ Terminal(row.status) \/ ~Accounted(row)
          /\ Return(w)
          /\ UNCHANGED <<finalized, raced>>
       \/ /\ NoFault
          /\ ~Terminal(row.status)
          /\ Accounted(row)
          /\ snap' = [snap EXCEPT ![w] = [row EXCEPT !.status = Verdict(row)]]
          /\ finalized' = [finalized EXCEPT ![cur[w]] = UpTo2(@)]
          /\ Record(w, "finish", {"finish"})
          /\ Goto(w, "finish")
          /\ UNCHANGED cur
    /\ UNCHANGED <<jobStore, docs, channel, claim, held, runErr, resumer, process>>

FinishJob(w) ==
    /\ pc[w] = "finish"
    /\ \/ NoFault /\ UpdateJob(cur[w], snap[w])
       \/ Fault /\ UNCHANGED job
    /\ Return(w)
    /\ UNCHANGED <<item, track, indexed, external, channel, claim, held, runErr, resumer, process>>

-----------------------------------------------------------------------------
(* Process life cycle.                                                      *)

Stop ==
    /\ ~stopping
    /\ crashes < MaxCrashes
    /\ stopping' = TRUE
    /\ UNCHANGED <<jobStore, external, channel, worker, resumer, crashes, faults>>

\* Stop's wg.Wait returned.
Stopped ==
    /\ stopping
    /\ \A w \in Workers : pc[w] = "exited"
    /\ \A r \in Resumers : rpc[r] = "exited"

\* A new process starts with empty memory.
Reboot ==
    /\ toNotify' = {}
    /\ notify'   = <<>>
    /\ pc'       = [w \in Workers |-> "idle"]
    /\ cur'      = [w \in Workers |-> NoJob]
    /\ snap'     = [w \in Workers |-> NoRow]
    /\ claim'    = [w \in Workers |-> NoItem]
    /\ held'     = [w \in Workers |-> FALSE]
    /\ runErr'   = [w \in Workers |-> FALSE]
    /\ rpc'      = [r \in Resumers |-> "idle"]
    /\ rlist'    = [r \in Resumers |-> {}]
    /\ stopping' = FALSE
    /\ crashes'  = crashes + 1
    /\ UNCHANGED <<jobStore, external, faults>>

Crash    == crashes < MaxCrashes /\ ~Stopped /\ Reboot
Relaunch == Stopped /\ Reboot

-----------------------------------------------------------------------------
WorkerStep(w) ==
    \/ Receive(w)
    \/ GetJob(w)
    \/ StartJob(w)
    \/ ClaimNextItem(w)
    \/ DrainStop(w)
    \/ CreateMemory(w)
    \/ SetItemTrackID(w)
    \/ AddSource(w)
    \/ MarkItem(w)
    \/ FinalGetJob(w)
    \/ FinishJob(w)

ResumeStep(r) == ResumeReset(r) \/ ResumeList(r) \/ ResumeSend(r)

Next ==
    \/ \E j \in Jobs, S \in SUBSET Items : CreateJob(j, S)
    \/ \E j \in Jobs : Notify(j)
    \/ \E w \in Workers : WorkerStep(w) \/ WorkerExit(w)
    \/ \E r \in Resumers : ResumeStep(r) \/ ResumeExit(r)
    \/ Stop
    \/ Crash
    \/ Relaunch

Spec == Init /\ [][Next]_vars

(***************************************************************************)
(* Fairness: a runnable goroutine runs (weak); a select that keeps finding *)
(* the stop channel closed eventually takes that case, because Go chooses  *)
(* among ready cases at random (strong); a stopped process is relaunched   *)
(* by its Deployment.  Requests, faults and crashes are never forced.      *)
(***************************************************************************)
Fairness ==
    /\ \A j \in Jobs : WF_vars(Notify(j))
    /\ \A w \in Workers : WF_vars(WorkerStep(w)) /\ SF_vars(WorkerExit(w))
    /\ \A r \in Resumers : WF_vars(ResumeStep(r)) /\ SF_vars(ResumeExit(r))
    /\ WF_vars(Relaunch)

FairSpec == Spec /\ Fairness

-----------------------------------------------------------------------------
(* Properties.                                                              *)

JobRow == [status : JobStatus \cup {"absent"}, total : Nat, done : Nat,
           failed : Nat, errors : SUBSET Items]

\* Every variable holds a value the code could store in it.
TypeOK ==
    /\ job \in [Jobs -> JobRow]
    /\ item \in [Jobs -> [Items -> ItemStatus]]
    /\ track \in [Jobs -> [Items -> BOOLEAN]]
    /\ indexed \in [Jobs -> [Items -> {"no", "yes", "lost"}]]
    /\ docs \in [Jobs -> [Items -> 0..2]]
    /\ finalized \in [Jobs -> 0..2]
    /\ raced \in [Jobs -> SUBSET {"start", "finish"}]
    /\ toNotify \subseteq Jobs
    /\ notify \in Seq(Jobs)
    /\ Len(notify) <= BufCap
    /\ pc \in [Workers -> WorkerPC]
    /\ cur \in [Workers -> Jobs \cup {NoJob}]
    /\ snap \in [Workers -> JobRow]
    /\ claim \in [Workers -> Items \cup {NoItem}]
    /\ held \in [Workers -> BOOLEAN]
    /\ runErr \in [Workers -> BOOLEAN]
    /\ rpc \in [Resumers -> ResumerPC]
    /\ rlist \in [Resumers -> SUBSET Jobs]
    /\ stopping \in BOOLEAN
    /\ crashes \in 0..MaxCrashes
    /\ faults \in 0..MaxFaults

\* The outcome of job j's items justifies status st.
Justified(j, st) ==
    /\ \A i \in ItemsOf(j) : ItemTerminal(item[j][i])
    /\ st = "succeeded" => ItemsIn(j, "failed") = {}
    /\ st = "failed"    => ItemsIn(j, "done") = {}
    /\ st = "partial"   => ItemsIn(j, "done") # {} /\ ItemsIn(j, "failed") # {}

\* A job that GET /jobs reports finished has settled every one of its items,
\* and its verdict is the one their outcomes justify - whatever workers,
\* resumes, restarts and failing store calls did to it (runJob's
\* Done+Failed < Total guard and its verdict switch).
VerdictSound ==
    \A j \in Jobs : Terminal(job[j].status) => Justified(j, job[j].status)

\* The counters of a job never run ahead of its items, although UpdateJob
\* writes counters read earlier and items are re-run: the guard of
\* MarkItemDoneAndProgress on terminal items.
NeverOvercounts ==
    \A j \in Jobs :
        /\ job[j].done   <= Cardinality(ItemsIn(j, "done"))
        /\ job[j].failed <= Cardinality(ItemsIn(j, "failed"))

\* An item's outcome is never changed or withdrawn once it is stored: not by
\* a second worker, not by ResetRunningItems.
OutcomesStable ==
    [][\A j \in Jobs, i \in Items :
          ItemTerminal(item[j][i]) => item'[j][i] = item[j][i]]_vars

\* An item is reported done only if LightRAG accepted its text: the TrackID
\* that lets a retry skip CreateMemory is never set without a document.
DoneMeansStored ==
    \A j \in Jobs, i \in Items : item[j][i] = "done" => docs[j][i] > 0

\* A done item that names a file has its source-index row, or the failure to
\* write it was counted (a retry that skips CreateMemory still repeats
\* sources.Add); one that names none has no row.
DoneMeansIndexed ==
    \A j \in Jobs, i \in Items :
        item[j][i] = "done" => (indexed[j][i] # "no" <=> i \in Filed)

\* The stored error list names only failed items, and one for each failure
\* the job counts until the list is full (maxErrors).
ErrorsExplainFailures ==
    \A j \in Jobs :
        /\ job[j].errors \subseteq ItemsIn(j, "failed")
        /\ Cardinality(job[j].errors) =
              IF job[j].failed < MaxErrors THEN job[j].failed ELSE MaxErrors

\* A graceful Stop orphans nothing: when every goroutine has exited, no item
\* is left running (workers look at the stop channel only between items).
GracefulStopLeavesNoOrphan ==
    Stopped /\ crashes = 0 /\ faults = 0 =>
        \A j \in Jobs : ItemsIn(j, "running") = {}

\* The stored counters are exact with any number of workers, restarts and
\* failing store calls, as long as no worker read the job's queued row while
\* another one was already past its own read: workers that join a running job
\* drain it beside the first and clobber nothing.
CountersExact ==
    \A j \in Jobs :
        "start" \notin raced[j] =>
            /\ job[j].done   = Cardinality(ItemsIn(j, "done"))
            /\ job[j].failed = Cardinality(ItemsIn(j, "failed"))

\* Without crashes and failing store calls LightRAG is given an item's text
\* at most once (processItem: "avoid duplicate LightRAG documents on retry").
NoDuplicateInsert ==
    crashes = 0 /\ faults = 0 => \A j \in Jobs, i \in Items : docs[j][i] <= 1

\* Without crashes and failing store calls a job is counted in
\* ingest_jobs_total at most once by any number of workers, unless two of them
\* were between the read and the write of runJob's finalization together: a
\* late start, which makes a finished job running again, counts it no second
\* time.
CountedOnce ==
    crashes = 0 /\ faults = 0 =>
        \A j \in Jobs : "finish" \notin raced[j] => finalized[j] <= 1

\* Every stored job is finished in the end: a dropped or lost notify, an
\* orphaned item or a failed store call is repaired by a later Resume.
JobsSettle == \A j \in Jobs : Unfinished(j) ~> Terminal(job[j].status)

\* Stop returns: wg.Wait sees every worker and sweeper exit, even one blocked
\* sending to a full channel.
StopCompletes == stopping ~> (Stopped \/ ~stopping)

-----------------------------------------------------------------------------
\* With one worker the pool implements the promise of JobLifecycle, liveness
\* included: pending and running items are open ones, and every step that
\* touches neither a status nor an outcome is a stuttering step.
Lifecycle ==
    INSTANCE JobLifecycle WITH
        status  <- [j \in Jobs |-> job[j].status],
        outcome <- [j \in Jobs |-> [i \in Items |->
                      IF item[j][i] \in {"pending", "running"} THEN "open" ELSE item[j][i]]]

\* The pool's behaviours are behaviours of the abstract job life cycle.
ImplementsLifecycle == Lifecycle!Spec
=============================================================================
