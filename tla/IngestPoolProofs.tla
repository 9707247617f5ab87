-------------------------- MODULE IngestPoolProofs --------------------------
(***************************************************************************)
(* Proofs about IngestPool for any number of jobs, items, workers and      *)
(* resumers, any channel capacity, and any number of restarts and failing  *)
(* store calls.                                                            *)
(*                                                                         *)
(* TypeOK and VerdictSound are not inductive.  HoldInv adds what a worker  *)
(* may rely on between two store calls (the job it runs exists, the item   *)
(* it holds belongs to the job); CountInv adds the heart of the argument:  *)
(* a row, in the store or in a worker's hands, never counts more outcomes  *)
(* than its job's items have, so a row that accounts for every item is     *)
(* exact however stale it is.                                              *)
(***************************************************************************)
EXTENDS IngestPool, FiniteSetTheorems, TLAPS

Created(j) == job[j].status # "absent"

Holding == {"create", "track", "source", "mark"}

AbsentEmpty ==
    \A j \in Jobs : ~Created(j) => /\ job[j] = NoRow
                                   /\ \A i \in Items : item[j][i] = "none"

WorkersHold ==
    \A w \in Workers :
        /\ pc[w] \notin {"idle", "exited"} => cur[w] \in Jobs /\ Created(cur[w])
        /\ pc[w] \in Holding => claim[w] \in Items /\ item[cur[w]][claim[w]] # "none"
        /\ pc[w] = "start" => snap[w].status = "queued"
        /\ pc[w] = "finish" => Terminal(snap[w].status)

ChannelCreated ==
    /\ \A j \in toNotify : Created(j)
    /\ \A k \in 1..Len(notify) : Created(notify[k])
    /\ \A r \in Resumers : \A j \in rlist[r] : Created(j)

StopBudget == stopping => crashes < MaxCrashes

HoldInv == TypeOK /\ AbsentEmpty /\ WorkersHold /\ ChannelCreated /\ StopBudget

\* The zero row is a row.
LEMMA NoRowType == NoRow \in JobRow
  BY DEF NoRow, JobRow, JobStatus

\* Replacing the failure counter and the error list of a row gives a row.
LEMMA RowUpdate ==
  ASSUME NEW r \in JobRow, NEW f \in Nat, NEW E \in SUBSET Items
  PROVE  [r EXCEPT !.failed = f, !.errors = E] \in JobRow
  BY DEF JobRow

\* A progress bump keeps a row a row and touches one counter.
LEMMA BumpShape ==
  ASSUME NEW r \in JobRow, NEW i \in Items, NEW ok \in BOOLEAN
  PROVE  /\ BumpProgress(r, i, ok) \in JobRow
         /\ BumpProgress(r, i, ok).status = r.status
         /\ BumpProgress(r, i, ok).total = r.total
         /\ BumpProgress(r, i, ok).done = IF ok THEN r.done + 1 ELSE r.done
         /\ BumpProgress(r, i, ok).failed = IF ok THEN r.failed ELSE r.failed + 1
<1>1. CASE ok
  BY <1>1 DEF BumpProgress, JobRow
<1>2. CASE ~ok
  <2> DEFINE E == IF Cardinality(r.errors) < MaxErrors THEN r.errors \cup {i} ELSE r.errors
  <2>1. BumpProgress(r, i, ok) = [r EXCEPT !.failed = r.failed + 1, !.errors = E]
    BY <1>2 DEF BumpProgress
  <2>2. E \in SUBSET Items
    BY DEF JobRow
  <2> HIDE DEF E
  <2> DEFINE new == [r EXCEPT !.failed = r.failed + 1, !.errors = E]
  <2>3. new \in JobRow
    <3>1. r.failed + 1 \in Nat
      BY DEF JobRow
    <3>2. QED
      BY <2>2, <3>1, RowUpdate
  <2>4. /\ new.status = r.status /\ new.total = r.total
        /\ new.done = r.done /\ new.failed = r.failed + 1
    BY DEF JobRow
  <2> HIDE DEF new
  <2>5. QED
    BY <1>2, <2>1, <2>3, <2>4 DEF new
<1>3. QED
  BY <1>1, <1>2

\* Updating one entry of a two-level table keeps the table's type.
LEMMA TableUpdate ==
  ASSUME NEW T, NEW tab \in [Jobs -> [Items -> T]],
         NEW j \in Jobs, NEW i \in Items, NEW x \in T
  PROVE  [tab EXCEPT ![j][i] = x] \in [Jobs -> [Items -> T]]
  OBVIOUS

\* The initial states satisfy HoldInv.
LEMMA InitHoldInv == Init => HoldInv
<1> SUFFICES ASSUME Init PROVE HoldInv
  OBVIOUS
<1> USE DEF Init
<1>1. job \in [Jobs -> JobRow] /\ snap \in [Workers -> JobRow]
  BY NoRowType
<1>2. TypeOK
  <2>1. notify \in Seq(Jobs) /\ Len(notify) <= BufCap
    BY ConstantsAssumption
  <2>2. crashes \in 0..MaxCrashes /\ faults \in 0..MaxFaults
    BY ConstantsAssumption
  <2>3. item \in [Jobs -> [Items -> ItemStatus]]
    BY DEF ItemStatus
  <2>4. pc \in [Workers -> WorkerPC] /\ rpc \in [Resumers -> ResumerPC]
    BY DEF WorkerPC, ResumerPC
  <2>5. /\ track \in [Jobs -> [Items -> BOOLEAN]]
        /\ indexed \in [Jobs -> [Items -> {"no", "yes", "lost"}]]
        /\ docs \in [Jobs -> [Items -> 0..2]]
        /\ finalized \in [Jobs -> 0..2]
    OBVIOUS
  <2>6. /\ cur \in [Workers -> Jobs \cup {NoJob}]
        /\ claim \in [Workers -> Items \cup {NoItem}]
        /\ held \in [Workers -> BOOLEAN] /\ runErr \in [Workers -> BOOLEAN]
        /\ rlist \in [Resumers -> SUBSET Jobs]
        /\ toNotify \subseteq Jobs /\ stopping \in BOOLEAN
    OBVIOUS
  <2>7. QED
    BY <1>1, <2>1, <2>2, <2>3, <2>4, <2>5, <2>6 DEF TypeOK
<1>3. AbsentEmpty /\ WorkersHold /\ ChannelCreated /\ StopBudget
  BY DEF AbsentEmpty, WorkersHold, ChannelCreated, StopBudget, Holding, Created
<1>4. QED
  BY <1>2, <1>3 DEF HoldInv

USE DEF jobStore, worker, resumer, channel, external, process, Fault, NoFault

\* The step CreateJob keeps HoldInv.
LEMMA CreateJobHoldInv ==
  ASSUME NEW j \in Jobs, NEW S \in SUBSET Items, HoldInv, CreateJob(j, S)
  PROVE  HoldInv'
<1> IsFiniteSet(S) /\ Cardinality(S) \in Nat
  BY ConstantsAssumption, FS_Subset, FS_CardinalityType
<1> USE DEF CreateJob, HoldInv, Created
<1>0. [NoRow EXCEPT !.status = "queued", !.total = Cardinality(S)] \in JobRow
  BY DEF NoRow, JobRow, JobStatus
<1>1. TypeOK'
  <2>1. job' \in [Jobs -> JobRow]
    BY <1>0 DEF TypeOK
  <2>2. item' \in [Jobs -> [Items -> ItemStatus]]
    BY DEF TypeOK, ItemStatus
  <2>3. faults' \in 0..MaxFaults
    BY ConstantsAssumption DEF TypeOK
  <2>4. QED
    BY <2>1, <2>2, <2>3 DEF TypeOK
<1>2. AbsentEmpty'
  BY DEF TypeOK, AbsentEmpty, NoRow, JobRow
<1>3. WorkersHold'
  BY DEF TypeOK, WorkersHold, AbsentEmpty, NoRow, JobRow, Holding
<1>4. ChannelCreated'
  <2>1. Created(j)' /\ \A k \in Jobs : Created(k) => Created(k)'
    BY DEF TypeOK, NoRow
  <2>2. toNotify' \subseteq toNotify \cup {j} /\ notify' = notify /\ rlist' = rlist
    BY DEF resumer
  <2>3. toNotify \subseteq Jobs /\ notify \in Seq(Jobs) /\ rlist \in [Resumers -> SUBSET Jobs]
    BY DEF TypeOK
  <2> HIDE DEF CreateJob, Created
  <2>4. QED
    BY <2>1, <2>2, <2>3 DEF ChannelCreated
<1>5. StopBudget'
  BY DEF StopBudget
<1>6. QED
  BY <1>1, <1>2, <1>3, <1>4, <1>5

\* The step Notify keeps HoldInv.
LEMMA NotifyHoldInv ==
  ASSUME NEW j \in Jobs, HoldInv, Notify(j)
  PROVE  HoldInv'
<1> USE DEF Notify, HoldInv, Created
<1>1. TypeOK'
  BY ConstantsAssumption DEF TypeOK
<1>2. AbsentEmpty' /\ WorkersHold' /\ StopBudget'
  BY DEF AbsentEmpty, WorkersHold, StopBudget
<1>3. ChannelCreated'
  BY DEF TypeOK, ChannelCreated
<1>4. QED
  BY <1>1, <1>2, <1>3

\* The step ResumeReset keeps HoldInv.
LEMMA ResumeResetHoldInv ==
  ASSUME NEW r \in Resumers, HoldInv, ResumeReset(r)
  PROVE  HoldInv'
<1> USE DEF ResumeReset, HoldInv, Created, Goto
<1>1. /\ item' \in [Jobs -> [Items -> ItemStatus]]
      /\ \A j \in Jobs, i \in Items : item'[j][i] = "none" <=> item[j][i] = "none"
  BY DEF TypeOK, ItemStatus, ResetRunningItems
<1>2. rpc' \in [Resumers -> ResumerPC]
  BY DEF TypeOK, ResumerPC
<1>3. TypeOK'
  <2>1. faults' \in 0..MaxFaults
    BY ConstantsAssumption DEF TypeOK
  <2>2. QED
    BY <1>1, <1>2, <2>1 DEF TypeOK
<1>4. AbsentEmpty'
  BY <1>1 DEF AbsentEmpty
<1>5. WorkersHold'
  BY <1>1 DEF WorkersHold, Holding
<1>6. ChannelCreated' /\ StopBudget'
  BY DEF ChannelCreated, StopBudget
<1>7. QED
  BY <1>3, <1>4, <1>5, <1>6

\* The step ResumeList keeps HoldInv.
LEMMA ResumeListHoldInv ==
  ASSUME NEW r \in Resumers, HoldInv, ResumeList(r)
  PROVE  HoldInv'
<1> USE DEF ResumeList, HoldInv, Created, Goto
<1>1. /\ rpc' \in [Resumers -> ResumerPC]
      /\ rlist' \in [Resumers -> SUBSET Jobs]
  <2>1. rpc' \in [Resumers -> ResumerPC]
    BY DEF TypeOK, ResumerPC
  <2>2. ListUnfinishedJobs \in SUBSET Jobs
    BY DEF ListUnfinishedJobs
  <2>3. rlist' \in [Resumers -> SUBSET Jobs]
    BY <2>2 DEF TypeOK
  <2>4. QED
    BY <2>1, <2>3
<1>2. faults' \in 0..MaxFaults
  BY ConstantsAssumption DEF TypeOK
<1>3. TypeOK'
  BY <1>1, <1>2 DEF TypeOK
<1>4. AbsentEmpty' /\ WorkersHold' /\ StopBudget'
  BY DEF AbsentEmpty, WorkersHold, StopBudget
<1>5. ChannelCreated'
  <2>1. \A q \in Resumers : rlist'[q] \subseteq rlist[q] \cup ListUnfinishedJobs
    BY DEF TypeOK
  <2>2. \A j \in ListUnfinishedJobs : Created(j)
    BY DEF ListUnfinishedJobs, Unfinished
  <2>3. QED
    BY <2>1, <2>2 DEF ChannelCreated
<1>6. QED
  BY <1>3, <1>4, <1>5

\* The step ResumeSend keeps HoldInv.
LEMMA ResumeSendHoldInv ==
  ASSUME NEW r \in Resumers, HoldInv, ResumeSend(r)
  PROVE  HoldInv'
<1> USE DEF ResumeSend, HoldInv, Created, Goto, Return
<1>1. TypeOK'
  BY ConstantsAssumption, NoRowType DEF TypeOK, WorkerPC, ResumerPC, ItemStatus
<1>2. AbsentEmpty'
  BY DEF TypeOK, AbsentEmpty
<1>3. WorkersHold'
  BY DEF TypeOK, WorkersHold, Holding
<1>4. ChannelCreated' /\ StopBudget'
  BY DEF TypeOK, ChannelCreated, StopBudget
<1>5. QED
  BY <1>1, <1>2, <1>3, <1>4

\* The step ResumeExit keeps HoldInv.
LEMMA ResumeExitHoldInv ==
  ASSUME NEW r \in Resumers, HoldInv, ResumeExit(r)
  PROVE  HoldInv'
<1> USE DEF ResumeExit, HoldInv, Created, Goto, Return
<1>1. TypeOK'
  BY ConstantsAssumption, NoRowType DEF TypeOK, WorkerPC, ResumerPC, ItemStatus
<1>2. AbsentEmpty'
  BY DEF TypeOK, AbsentEmpty
<1>3. WorkersHold'
  BY DEF TypeOK, WorkersHold, Holding
<1>4. ChannelCreated' /\ StopBudget'
  BY DEF TypeOK, ChannelCreated, StopBudget
<1>5. QED
  BY <1>1, <1>2, <1>3, <1>4

\* The step Receive keeps HoldInv.
LEMMA ReceiveHoldInv ==
  ASSUME NEW w \in Workers, HoldInv, Receive(w)
  PROVE  HoldInv'
<1> USE DEF Receive, HoldInv, Created, Goto
<1>1. Head(notify) \in Jobs /\ Created(Head(notify)) /\ Tail(notify) \in Seq(Jobs)
  BY DEF TypeOK, ChannelCreated
<1>2. TypeOK'
  BY <1>1, ConstantsAssumption DEF TypeOK, WorkerPC
<1>3. AbsentEmpty' /\ StopBudget'
  BY DEF AbsentEmpty, StopBudget
<1>4. WorkersHold'
  BY <1>1 DEF TypeOK, WorkersHold, Holding
<1>5. ChannelCreated'
  BY DEF TypeOK, ChannelCreated
<1>6. QED
  BY <1>2, <1>3, <1>4, <1>5

\* The step WorkerExit keeps HoldInv.
LEMMA WorkerExitHoldInv ==
  ASSUME NEW w \in Workers, HoldInv, WorkerExit(w)
  PROVE  HoldInv'
<1> USE DEF WorkerExit, HoldInv, Created, Goto, Return
<1>1. TypeOK'
  BY ConstantsAssumption, NoRowType DEF TypeOK, WorkerPC, ResumerPC, ItemStatus
<1>2. AbsentEmpty'
  BY DEF TypeOK, AbsentEmpty
<1>3. WorkersHold'
  BY DEF TypeOK, WorkersHold, Holding
<1>4. ChannelCreated' /\ StopBudget'
  BY DEF TypeOK, ChannelCreated, StopBudget
<1>5. QED
  BY <1>1, <1>2, <1>3, <1>4

\* A recorded race is one of the two kinds.
LEMMA RecordType ==
  ASSUME NEW w, cur[w] \in Jobs, NEW kind \in {"start", "finish"}, NEW places,
         raced \in [Jobs -> SUBSET {"start", "finish"}],
         UNCHANGED raced \/ Record(w, kind, places)
  PROVE  raced' \in [Jobs -> SUBSET {"start", "finish"}]
<1>1. raced' = raced \/ raced' = [raced EXCEPT ![cur[w]] = raced[cur[w]] \cup {kind}]
  BY DEF Record
<1>2. raced[cur[w]] \cup {kind} \in SUBSET {"start", "finish"}
  OBVIOUS
<1>3. QED
  BY <1>1, <1>2

\* The step GetJob keeps HoldInv.
LEMMA GetJobHoldInv ==
  ASSUME NEW w \in Workers, HoldInv, GetJob(w)
  PROVE  HoldInv'
<1> USE DEF GetJob, HoldInv, Created, Goto
<1>0. cur[w] \in Jobs /\ Created(cur[w]) /\ job[cur[w]] \in JobRow
  BY DEF TypeOK, WorkersHold
<1>1. pc' \in [Workers -> WorkerPC]
  BY DEF TypeOK, WorkerPC, Return
<1>2. snap' \in [Workers -> JobRow] /\ cur' \in [Workers -> Jobs \cup {NoJob}]
  <2>1. snap' \in {snap, [snap EXCEPT ![w] = NoRow], [snap EXCEPT ![w] = job[cur[w]]]}
    BY DEF Return
  <2>2. cur' \in {cur, [cur EXCEPT ![w] = NoJob]}
    BY DEF Return
  <2>3. QED
    BY <1>0, <2>1, <2>2, NoRowType DEF TypeOK
<1>3. TypeOK'
  <2>1. faults' \in 0..MaxFaults
    BY ConstantsAssumption DEF TypeOK
  <2>2. raced' \in [Jobs -> SUBSET {"start", "finish"}]
    <3>1. UNCHANGED raced \/ Record(w, "start", PastGet)
      OBVIOUS
    <3>2. raced \in [Jobs -> SUBSET {"start", "finish"}]
      BY DEF TypeOK
    <3>3. QED
      BY <1>0, <3>1, <3>2, RecordType
  <2>3. QED
    BY <1>1, <1>2, <2>1, <2>2 DEF TypeOK
<1>4. AbsentEmpty' /\ ChannelCreated' /\ StopBudget'
  BY DEF AbsentEmpty, ChannelCreated, StopBudget
<1>5. WorkersHold'
  BY <1>0 DEF TypeOK, WorkersHold, Holding, Return
<1>6. QED
  BY <1>3, <1>4, <1>5

\* The step StartJob keeps HoldInv.
LEMMA StartJobHoldInv ==
  ASSUME NEW w \in Workers, HoldInv, StartJob(w)
  PROVE  HoldInv'
<1> USE DEF StartJob, HoldInv, Created, Goto
<1>0. cur[w] \in Jobs /\ Created(cur[w]) /\ snap[w] \in JobRow
  BY DEF TypeOK, WorkersHold
<1>1. [snap[w] EXCEPT !.status = "running"] \in JobRow
  BY <1>0 DEF JobRow, JobStatus
<1>2. job' \in [Jobs -> JobRow] /\ \A j \in Jobs : Created(j) <=> Created(j)'
  <2>1. CASE UNCHANGED job
    BY <2>1 DEF TypeOK
  <2>2. CASE job' = [job EXCEPT ![cur[w]] = [snap[w] EXCEPT !.status = "running"]]
    <3>1. job'[cur[w]].status = "running"
      BY <1>0, <2>2 DEF TypeOK, JobRow
    <3>2. QED
      BY <1>0, <1>1, <2>2, <3>1 DEF TypeOK
  <2>3. QED
    BY <2>1, <2>2 DEF UpdateJob
<1>3. faults' \in 0..MaxFaults
  BY ConstantsAssumption DEF TypeOK
<1>4. pc' \in [Workers -> WorkerPC] /\ snap' \in [Workers -> JobRow]
  BY NoRowType DEF TypeOK, WorkerPC
<1>5. TypeOK'
  BY <1>2, <1>3, <1>4 DEF TypeOK
<1>6. AbsentEmpty'
  BY <1>0, <1>2 DEF TypeOK, AbsentEmpty, UpdateJob
<1>7. WorkersHold'
  BY <1>2 DEF TypeOK, WorkersHold, Holding
<1>8. ChannelCreated' /\ StopBudget'
  BY <1>2 DEF TypeOK, ChannelCreated, StopBudget
<1>9. QED
  BY <1>5, <1>6, <1>7, <1>8

\* The step ClaimNextItem keeps HoldInv.
LEMMA ClaimNextItemHoldInv ==
  ASSUME NEW w \in Workers, HoldInv, ClaimNextItem(w)
  PROVE  HoldInv'
<1> USE DEF ClaimNextItem, HoldInv, Created, Goto
<1>0. cur[w] \in Jobs /\ Created(cur[w])
  BY DEF TypeOK, WorkersHold
<1>1. /\ item' \in [Jobs -> [Items -> ItemStatus]]
      /\ \A j \in Jobs, i \in Items : item'[j][i] = "none" <=> item[j][i] = "none"
  <2>1. CASE UNCHANGED item
    BY <2>1 DEF TypeOK
  <2>2. CASE \E i \in ItemsIn(cur[w], "pending") :
               item' = [item EXCEPT ![cur[w]][i] = "running"]
    <3>1. PICK k \in Items : /\ item[cur[w]][k] = "pending"
                             /\ item' = [item EXCEPT ![cur[w]][k] = "running"]
      BY <2>2 DEF ItemsIn
    <3>2. QED
      BY <1>0, <3>1 DEF TypeOK, ItemStatus
  <2>3. QED
    BY <2>1, <2>2 DEF HoldItem
<1>2. TypeOK'
  <2>1. pc' \in [Workers -> WorkerPC]
    BY DEF TypeOK, WorkerPC, HoldItem
  <2>2. claim' \in [Workers -> Items \cup {NoItem}]
    BY DEF TypeOK, ItemsIn, HoldItem
  <2>3. held' \in [Workers -> BOOLEAN]
    <3>1. \A i \in Items : track[cur[w]][i] \in BOOLEAN
      BY <1>0 DEF TypeOK
    <3>2. QED
      BY <3>1 DEF TypeOK, ItemsIn, HoldItem
  <2>4. faults' \in 0..MaxFaults
    BY ConstantsAssumption DEF TypeOK
  <2>5. QED
    BY <1>1, <2>1, <2>2, <2>3, <2>4 DEF TypeOK
<1>3. AbsentEmpty'
  BY <1>1 DEF AbsentEmpty
<1>4. WorkersHold'
  <2>1. \A v \in Workers \ {w} : pc'[v] = pc[v] /\ claim'[v] = claim[v]
    BY DEF TypeOK, HoldItem
  <2>2. pc'[w] \in Holding => claim'[w] \in Items /\ item[cur[w]][claim'[w]] # "none"
    BY <1>0 DEF TypeOK, Holding, HoldItem, ItemsIn
  <2>3. pc'[w] \notin {"start", "finish"}
    BY DEF TypeOK, HoldItem
  <2>4. QED
    BY <1>0, <1>1, <2>1, <2>2, <2>3 DEF TypeOK, WorkersHold, Holding
<1>5. ChannelCreated' /\ StopBudget'
  BY DEF ChannelCreated, StopBudget
<1>6. QED
  BY <1>2, <1>3, <1>4, <1>5

\* The step DrainStop keeps HoldInv.
LEMMA DrainStopHoldInv ==
  ASSUME NEW w \in Workers, HoldInv, DrainStop(w)
  PROVE  HoldInv'
<1> USE DEF DrainStop, HoldInv, Created, Goto, Return
<1>1. TypeOK'
  BY ConstantsAssumption, NoRowType DEF TypeOK, WorkerPC, ResumerPC, ItemStatus
<1>2. AbsentEmpty'
  BY DEF TypeOK, AbsentEmpty
<1>3. WorkersHold'
  BY DEF TypeOK, WorkersHold, Holding
<1>4. ChannelCreated' /\ StopBudget'
  BY DEF TypeOK, ChannelCreated, StopBudget
<1>5. QED
  BY <1>1, <1>2, <1>3, <1>4

\* The step CreateMemory keeps HoldInv.
LEMMA CreateMemoryHoldInv ==
  ASSUME NEW w \in Workers, HoldInv, CreateMemory(w)
  PROVE  HoldInv'
<1> USE DEF CreateMemory, HoldInv, Created, Goto
<1>0. cur[w] \in Jobs /\ claim[w] \in Items
  BY DEF TypeOK, WorkersHold, Holding
<1>1. PICK accepted \in BOOLEAN, failed \in BOOLEAN :
        /\ docs' = IF accepted
                   THEN [docs EXCEPT ![cur[w]][claim[w]] = UpTo2(@)]
                   ELSE docs
        /\ held' = [held EXCEPT ![w] = ~failed]
        /\ runErr' = [runErr EXCEPT ![w] = failed]
        /\ pc' = [pc EXCEPT ![w] = IF failed THEN "mark" ELSE "track"]
  OBVIOUS
<1>2. TypeOK'
  <2>1. docs' \in [Jobs -> [Items -> 0..2]]
    BY <1>0, <1>1 DEF TypeOK, UpTo2
  <2>2. pc' \in [Workers -> WorkerPC]
    BY <1>1 DEF TypeOK, WorkerPC
  <2>3. held' \in [Workers -> BOOLEAN] /\ runErr' \in [Workers -> BOOLEAN]
    BY <1>1 DEF TypeOK
  <2>4. QED
    BY <2>1, <2>2, <2>3 DEF TypeOK
<1>3. AbsentEmpty' /\ ChannelCreated' /\ StopBudget'
  BY DEF AbsentEmpty, ChannelCreated, StopBudget
<1>4. WorkersHold'
  BY <1>1 DEF TypeOK, WorkersHold, Holding
<1>5. QED
  BY <1>2, <1>3, <1>4

\* The step SetItemTrackID keeps HoldInv.
LEMMA SetItemTrackIDHoldInv ==
  ASSUME NEW w \in Workers, HoldInv, SetItemTrackID(w)
  PROVE  HoldInv'
<1> USE DEF SetItemTrackID, HoldInv, Created, Goto
<1>0. cur[w] \in Jobs /\ claim[w] \in Items
  BY DEF TypeOK, WorkersHold, Holding
<1>1. TypeOK'
  <2>1. track' \in [Jobs -> [Items -> BOOLEAN]]
    <3>1. track' \in {track, [track EXCEPT ![cur[w]][claim[w]] = TRUE]}
      OBVIOUS
    <3>2. track \in [Jobs -> [Items -> BOOLEAN]]
      BY DEF TypeOK
    <3>3. [track EXCEPT ![cur[w]][claim[w]] = TRUE] \in [Jobs -> [Items -> BOOLEAN]]
      BY <1>0, <3>2, TableUpdate, Zenon
    <3>4. QED
      BY <3>1, <3>2, <3>3, Zenon
  <2>2. pc' \in [Workers -> WorkerPC]
    BY DEF TypeOK, WorkerPC
  <2>3. faults' \in 0..MaxFaults
    BY ConstantsAssumption DEF TypeOK
  <2>4. QED
    BY <2>1, <2>2, <2>3 DEF TypeOK
<1>2. AbsentEmpty' /\ ChannelCreated' /\ StopBudget'
  BY DEF AbsentEmpty, ChannelCreated, StopBudget
<1>3. WorkersHold'
  BY DEF TypeOK, WorkersHold, Holding
<1>4. QED
  BY <1>1, <1>2, <1>3

\* The step AddSource keeps HoldInv.
LEMMA AddSourceHoldInv ==
  ASSUME NEW w \in Workers, HoldInv, AddSource(w)
  PROVE  HoldInv'
<1> USE DEF AddSource, HoldInv, Created, Goto
<1>0. cur[w] \in Jobs /\ claim[w] \in Items
  BY DEF TypeOK, WorkersHold, Holding
<1>1. TypeOK'
  <2>1. indexed' \in [Jobs -> [Items -> {"no", "yes", "lost"}]]
    <3>1. PICK x \in {"yes", "lost", indexed[cur[w]][claim[w]]} :
            indexed' = [indexed EXCEPT ![cur[w]][claim[w]] = x]
      BY <1>0 DEF TypeOK
    <3>2. QED
      BY <1>0, <3>1 DEF TypeOK
  <2>2. pc' \in [Workers -> WorkerPC]
    BY DEF TypeOK, WorkerPC
  <2>3. faults' \in 0..MaxFaults
    BY ConstantsAssumption DEF TypeOK
  <2>4. QED
    BY <2>1, <2>2, <2>3 DEF TypeOK
<1>2. AbsentEmpty' /\ ChannelCreated' /\ StopBudget'
  BY DEF AbsentEmpty, ChannelCreated, StopBudget
<1>3. WorkersHold'
  BY DEF TypeOK, WorkersHold, Holding
<1>4. QED
  BY <1>1, <1>2, <1>3

\* The step MarkItem keeps HoldInv.
LEMMA MarkItemHoldInv ==
  ASSUME NEW w \in Workers, HoldInv, MarkItem(w)
  PROVE  HoldInv'
<1> USE DEF MarkItem, HoldInv, Created, Goto
<1>0. cur[w] \in Jobs /\ claim[w] \in Items /\ Created(cur[w])
      /\ item[cur[w]][claim[w]] # "none"
  BY DEF TypeOK, WorkersHold, Holding
<1> DEFINE row == BumpProgress(job[cur[w]], claim[w], ~runErr[w])
<1>1. row \in JobRow /\ row.status = job[cur[w]].status
  BY <1>0, BumpShape DEF TypeOK
<1>2. \/ UNCHANGED <<item, job>>
      \/ /\ \E st \in {"done", "failed"} : item' = [item EXCEPT ![cur[w]][claim[w]] = st]
         /\ job' = [job EXCEPT ![cur[w]] = row]
  BY DEF MarkItemDoneAndProgress
<1> HIDE DEF row
<1>3. /\ item' \in [Jobs -> [Items -> ItemStatus]]
      /\ \A j \in Jobs, i \in Items : item'[j][i] = "none" <=> item[j][i] = "none"
  <2>1. CASE UNCHANGED item
    BY <2>1 DEF TypeOK
  <2>2. ASSUME NEW st \in {"done", "failed"},
               item' = [item EXCEPT ![cur[w]][claim[w]] = st]
        PROVE  /\ item' \in [Jobs -> [Items -> ItemStatus]]
               /\ \A j \in Jobs, i \in Items : item'[j][i] = "none" <=> item[j][i] = "none"
    BY <1>0, <2>2 DEF TypeOK, ItemStatus
  <2>3. QED
    BY <1>2, <2>1, <2>2
<1>4. job' \in [Jobs -> JobRow] /\ \A j \in Jobs : job'[j].status = job[j].status
  <2> HIDE DEF MarkItem, Created, Goto
  <2>0. job \in [Jobs -> JobRow]
    BY DEF TypeOK
  <2> HIDE DEF HoldInv
  <2>1. CASE job' = job
    BY <2>0, <2>1
  <2>2. CASE job' = [job EXCEPT ![cur[w]] = row]
    <3>1. job' \in [Jobs -> JobRow]
      BY <1>0, <1>1, <2>0, <2>2
    <3>2. ASSUME NEW j \in Jobs
          PROVE  job'[j].status = job[j].status
      BY <1>0, <1>1, <2>0, <2>2
    <3>3. QED
      BY <3>1, <3>2
  <2>3. QED
    BY <1>2, <2>1, <2>2
<1>5. TypeOK'
  <2>1. pc' \in [Workers -> WorkerPC]
    BY DEF TypeOK, WorkerPC
  <2>2. /\ claim' \in [Workers -> Items \cup {NoItem}]
        /\ held' \in [Workers -> BOOLEAN] /\ runErr' \in [Workers -> BOOLEAN]
    BY DEF TypeOK
  <2>3. faults' \in 0..MaxFaults
    BY ConstantsAssumption DEF TypeOK
  <2>4. QED
    BY <1>3, <1>4, <2>1, <2>2, <2>3 DEF TypeOK
<1>6. AbsentEmpty'
  BY <1>0, <1>2, <1>3, <1>4 DEF TypeOK, AbsentEmpty
<1>7. WorkersHold'
  <2>1. \A v \in Workers \ {w} : pc'[v] = pc[v] /\ claim'[v] = claim[v]
    BY DEF TypeOK
  <2>2. pc'[w] = "drain"
    BY DEF TypeOK
  <2>3. cur' = cur /\ snap' = snap
    OBVIOUS
  <2>4. QED
    BY <1>0, <1>3, <1>4, <2>1, <2>2, <2>3 DEF TypeOK, WorkersHold, Holding
<1>8. ChannelCreated' /\ StopBudget'
  <2>1. \A j \in Jobs : Created(j) <=> Created(j)'
    BY <1>4
  <2>2. UNCHANGED <<channel, resumer, process>>
    OBVIOUS
  <2>3. QED
    BY <2>1, <2>2 DEF TypeOK, ChannelCreated, StopBudget
<1>9. QED
  BY <1>5, <1>6, <1>7, <1>8

\* Whatever the counters say, the verdict of runJob is a terminal status.
LEMMA VerdictTerminal == \A row : Terminal(Verdict(row))
  BY DEF Terminal, Verdict

\* The step FinalGetJob keeps HoldInv.
LEMMA FinalGetJobHoldInv ==
  ASSUME NEW w \in Workers, HoldInv, FinalGetJob(w)
  PROVE  HoldInv'
<1> USE DEF FinalGetJob, HoldInv, Created, Goto
<1> DEFINE row == [job[cur[w]] EXCEPT !.status = Verdict(job[cur[w]])]
<1>0. cur[w] \in Jobs /\ Created(cur[w]) /\ job[cur[w]] \in JobRow
  BY DEF TypeOK, WorkersHold
<1>1. row \in JobRow /\ Terminal(row.status)
  BY <1>0 DEF JobRow, JobStatus, Verdict, Terminal
<1>2. \/ Return(w) /\ UNCHANGED finalized
      \/ /\ snap' = [snap EXCEPT ![w] = row]
         /\ finalized' = [finalized EXCEPT ![cur[w]] = UpTo2(@)]
         /\ Goto(w, "finish")
         /\ UNCHANGED cur
  OBVIOUS
<1> HIDE DEF row
<1>3. TypeOK'
  <2>1. pc' \in [Workers -> WorkerPC]
    BY <1>2 DEF TypeOK, WorkerPC, Return
  <2>2. snap' \in [Workers -> JobRow] /\ cur' \in [Workers -> Jobs \cup {NoJob}]
    <3>1. snap' \in {[snap EXCEPT ![w] = NoRow], [snap EXCEPT ![w] = row]}
      BY <1>2 DEF Return
    <3>2. cur' \in {cur, [cur EXCEPT ![w] = NoJob]}
      BY <1>2 DEF Return
    <3>3. snap \in [Workers -> JobRow] /\ cur \in [Workers -> Jobs \cup {NoJob}]
      BY DEF TypeOK
    <3>4. QED
      BY <1>1, <3>1, <3>2, <3>3, NoRowType
  <2>3. finalized' \in [Jobs -> 0..2]
    <3>1. finalized' \in {finalized, [finalized EXCEPT ![cur[w]] = UpTo2(finalized[cur[w]])]}
      BY <1>2
    <3>2. UpTo2(finalized[cur[w]]) \in 0..2
      BY <1>0 DEF TypeOK, UpTo2
    <3>3. QED
      BY <1>0, <3>1, <3>2 DEF TypeOK
  <2>4. faults' \in 0..MaxFaults
    BY ConstantsAssumption DEF TypeOK
  <2>5. raced' \in [Jobs -> SUBSET {"start", "finish"}]
    <3>1. UNCHANGED raced \/ Record(w, "finish", {"finish"})
      OBVIOUS
    <3>2. raced \in [Jobs -> SUBSET {"start", "finish"}]
      BY DEF TypeOK
    <3>3. QED
      BY <1>0, <3>1, <3>2, RecordType
  <2>6. QED
    BY <2>1, <2>2, <2>3, <2>4, <2>5 DEF TypeOK
<1>4. AbsentEmpty' /\ ChannelCreated' /\ StopBudget'
  BY DEF AbsentEmpty, ChannelCreated, StopBudget
<1>5. WorkersHold'
  <2>1. job' = job /\ item' = item /\ claim' = claim
    OBVIOUS
  <2>2. CASE Return(w)
    BY <2>1, <2>2 DEF TypeOK, WorkersHold, Holding, Return
  <2>3. CASE snap' = [snap EXCEPT ![w] = row] /\ Goto(w, "finish") /\ UNCHANGED cur
    BY <1>0, <1>1, <2>1, <2>3 DEF TypeOK, WorkersHold, Holding
  <2>4. QED
    BY <1>2, <2>2, <2>3
<1>6. QED
  BY <1>3, <1>4, <1>5

\* The step FinishJob keeps HoldInv.
LEMMA FinishJobHoldInv ==
  ASSUME NEW w \in Workers, HoldInv, FinishJob(w)
  PROVE  HoldInv'
<1> USE DEF FinishJob, HoldInv, Created, Goto
<1>0. cur[w] \in Jobs /\ Created(cur[w]) /\ snap[w] \in JobRow
      /\ snap[w].status # "absent"
  BY DEF TypeOK, WorkersHold, Terminal
<1>1. job' = job \/ job' = [job EXCEPT ![cur[w]] = snap[w]]
  BY DEF UpdateJob
<1>2. job' \in [Jobs -> JobRow] /\ \A j \in Jobs : Created(j) <=> Created(j)'
  BY <1>0, <1>1 DEF TypeOK
<1>3. TypeOK'
  <2>1. pc' \in [Workers -> WorkerPC]
    BY DEF TypeOK, WorkerPC, Return
  <2>2. snap' \in [Workers -> JobRow] /\ cur' \in [Workers -> Jobs \cup {NoJob}]
    BY NoRowType DEF TypeOK, Return
  <2>3. faults' \in 0..MaxFaults
    BY ConstantsAssumption DEF TypeOK
  <2>4. QED
    BY <1>2, <2>1, <2>2, <2>3 DEF TypeOK
<1>4. AbsentEmpty'
  BY <1>0, <1>1, <1>2 DEF TypeOK, AbsentEmpty
<1>5. WorkersHold'
  BY <1>2 DEF TypeOK, WorkersHold, Holding, Return
<1>6. ChannelCreated' /\ StopBudget'
  BY <1>2 DEF TypeOK, ChannelCreated, StopBudget
<1>7. QED
  BY <1>3, <1>4, <1>5, <1>6

\* A restart, after a crash or a graceful stop, keeps HoldInv: every goroutine lets go.
LEMMA RebootHoldInv ==
  ASSUME HoldInv, Reboot, crashes < MaxCrashes
  PROVE  HoldInv'
<1> USE DEF Reboot, HoldInv
<1>1. TypeOK'
  <2>1. crashes' \in 0..MaxCrashes
    BY ConstantsAssumption DEF TypeOK
  <2>2. notify' \in Seq(Jobs) /\ Len(notify') <= BufCap
    BY ConstantsAssumption
  <2>3. snap' \in [Workers -> JobRow]
    BY NoRowType
  <2>4. pc' \in [Workers -> WorkerPC] /\ rpc' \in [Resumers -> ResumerPC]
    BY DEF WorkerPC, ResumerPC
  <2>5. /\ cur' \in [Workers -> Jobs \cup {NoJob}]
        /\ claim' \in [Workers -> Items \cup {NoItem}]
        /\ held' \in [Workers -> BOOLEAN] /\ runErr' \in [Workers -> BOOLEAN]
        /\ rlist' \in [Resumers -> SUBSET Jobs]
        /\ toNotify' \subseteq Jobs /\ stopping' \in BOOLEAN
    OBVIOUS
  <2>6. QED
    BY <2>1, <2>2, <2>3, <2>4, <2>5 DEF TypeOK
<1>2. AbsentEmpty'
  BY DEF AbsentEmpty, Created
<1>3. WorkersHold' /\ ChannelCreated' /\ StopBudget'
  BY DEF WorkersHold, ChannelCreated, StopBudget, Holding
<1>4. QED
  BY <1>1, <1>2, <1>3

\* Stop, Crash and Relaunch keep HoldInv.
LEMMA ProcessHoldInv ==
  ASSUME HoldInv, Stop \/ Crash \/ Relaunch
  PROVE  HoldInv'
<1>1. CASE Stop
  BY <1>1 DEF Stop, HoldInv, TypeOK, AbsentEmpty, WorkersHold, ChannelCreated,
              StopBudget, Created, Holding
<1>2. CASE Crash
  BY <1>2, RebootHoldInv DEF Crash
<1>3. CASE Relaunch
  BY <1>3, RebootHoldInv DEF Relaunch, Stopped, HoldInv, StopBudget
<1>4. QED
  BY <1>1, <1>2, <1>3

\* A stuttering step keeps HoldInv.
LEMMA StutterHoldInv == HoldInv /\ UNCHANGED vars => HoldInv'
  BY DEF vars, HoldInv, TypeOK, AbsentEmpty, WorkersHold, ChannelCreated, StopBudget,
         Created, Holding

\* HoldInv is inductive.
LEMMA HoldInvInductive == HoldInv /\ [Next]_vars => HoldInv'
<1> SUFFICES ASSUME HoldInv, [Next]_vars PROVE HoldInv'
  OBVIOUS
<1>1. CASE \E j \in Jobs, S \in SUBSET Items : CreateJob(j, S)
  BY <1>1, CreateJobHoldInv
<1>2. CASE \E j \in Jobs : Notify(j)
  BY <1>2, NotifyHoldInv
<1>3. ASSUME NEW w \in Workers, WorkerStep(w) \/ WorkerExit(w)
      PROVE  HoldInv'
  BY <1>3, ReceiveHoldInv, GetJobHoldInv, StartJobHoldInv, ClaimNextItemHoldInv,
     DrainStopHoldInv, CreateMemoryHoldInv, SetItemTrackIDHoldInv, AddSourceHoldInv,
     MarkItemHoldInv, FinalGetJobHoldInv, FinishJobHoldInv, WorkerExitHoldInv
  DEF WorkerStep
<1>4. ASSUME NEW r \in Resumers, ResumeStep(r) \/ ResumeExit(r)
      PROVE  HoldInv'
  BY <1>4, ResumeResetHoldInv, ResumeListHoldInv, ResumeSendHoldInv, ResumeExitHoldInv
  DEF ResumeStep
<1>5. CASE Stop \/ Crash \/ Relaunch
  BY <1>5, ProcessHoldInv
<1>6. CASE UNCHANGED vars
  BY <1>6, StutterHoldInv
<1>7. QED
  BY <1>1, <1>2, <1>3, <1>4, <1>5, <1>6 DEF Next

\* HoldInv holds in every reachable state.
LEMMA HoldInvHolds == Spec => []HoldInv
<1>1. QED
  BY InitHoldInv, HoldInvInductive, PTL DEF Spec

\* Type correctness of the pool: rows stay rows, the notify channel never
\* exceeds its capacity, and the restart and fault budgets are respected.
THEOREM TypeCorrect == Spec => []TypeOK
<1>1. HoldInv => TypeOK
  BY DEF HoldInv
<1>2. QED
  BY <1>1, HoldInvHolds, PTL

-----------------------------------------------------------------------------
(* Items only move forward.                                                 *)

\* No step adds an item to, or removes one from, a stored job, and no step
\* changes the outcome of an item that has one.
ItemsAdvance ==
    \A j \in Jobs : Created(j) =>
        \A i \in Items :
            /\ item'[j][i] = "none" <=> item[j][i] = "none"
            /\ ItemTerminal(item[j][i]) => item'[j][i] = item[j][i]

\* No step moves an item away from a stored outcome, or creates or removes an item of an existing job.
LEMMA ItemsAdvanceStep == HoldInv /\ [Next]_vars => ItemsAdvance
<1> SUFFICES ASSUME HoldInv, [Next]_vars PROVE ItemsAdvance
  OBVIOUS
<1> USE DEF ItemsAdvance
<1>1. ASSUME NEW j \in Jobs, NEW S \in SUBSET Items, CreateJob(j, S)
      PROVE  ItemsAdvance
  BY <1>1 DEF CreateJob, HoldInv, TypeOK, Created
<1>2. ASSUME NEW r \in Resumers, ResumeReset(r)
      PROVE  ItemsAdvance
  BY <1>2 DEF ResumeReset, ResetRunningItems, HoldInv, TypeOK, ItemTerminal
<1>3. ASSUME NEW w \in Workers, ClaimNextItem(w)
      PROVE  ItemsAdvance
  <2>1. cur[w] \in Jobs
    BY <1>3 DEF ClaimNextItem, HoldInv, WorkersHold
  <2>2. CASE UNCHANGED item
    BY <2>2
  <2>3. CASE \E i \in ItemsIn(cur[w], "pending") :
               item' = [item EXCEPT ![cur[w]][i] = "running"]
    <3>1. PICK k \in Items : /\ item[cur[w]][k] = "pending"
                             /\ item' = [item EXCEPT ![cur[w]][k] = "running"]
      BY <2>3 DEF ItemsIn
    <3>2. QED
      BY <2>1, <3>1 DEF HoldInv, TypeOK, ItemTerminal
  <2>4. QED
    BY <1>3, <2>2, <2>3 DEF ClaimNextItem, HoldItem
<1>4. ASSUME NEW w \in Workers, MarkItem(w)
      PROVE  ItemsAdvance
  <2>1. cur[w] \in Jobs /\ claim[w] \in Items /\ item[cur[w]][claim[w]] # "none"
    BY <1>4 DEF MarkItem, HoldInv, WorkersHold, Holding
  <2>2. CASE UNCHANGED item
    BY <2>2
  <2>3. ASSUME NEW st \in {"done", "failed"},
               ~ItemTerminal(item[cur[w]][claim[w]]),
               item' = [item EXCEPT ![cur[w]][claim[w]] = st]
        PROVE  ItemsAdvance
    BY <2>1, <2>3 DEF HoldInv, TypeOK, ItemTerminal
  <2>4. QED
    BY <1>4, <2>2, <2>3 DEF MarkItem, MarkItemDoneAndProgress
<1>5. CASE UNCHANGED item
  BY <1>5
<1>6. ASSUME NEW w \in Workers, WorkerStep(w) \/ WorkerExit(w)
      PROVE  ItemsAdvance
  BY <1>3, <1>4, <1>5, <1>6
  DEF WorkerStep, WorkerExit, Receive, GetJob, StartJob, DrainStop, CreateMemory,
      SetItemTrackID, AddSource, FinalGetJob, FinishJob
<1>7. ASSUME NEW r \in Resumers, ResumeStep(r) \/ ResumeExit(r)
      PROVE  ItemsAdvance
  BY <1>2, <1>5, <1>7 DEF ResumeStep, ResumeList, ResumeSend, ResumeExit
<1>8. CASE (\E j \in Jobs : Notify(j)) \/ Stop \/ Crash \/ Relaunch \/ UNCHANGED vars
  BY <1>5, <1>8 DEF Notify, Stop, Crash, Relaunch, Reboot, vars
<1>9. QED
  BY <1>1, <1>6, <1>7, <1>8 DEF Next

\* An item's stored outcome is final, whoever runs the item again.
THEOREM OutcomesAreStable == Spec => OutcomesStable
<1>1. HoldInv /\ [Next]_vars =>
        [\A j \in Jobs, i \in Items :
            ItemTerminal(item[j][i]) => item'[j][i] = item[j][i]]_vars
  <2> SUFFICES ASSUME HoldInv, [Next]_vars, NEW j \in Jobs, NEW i \in Items,
                      ItemTerminal(item[j][i])
               PROVE  item'[j][i] = item[j][i]
    OBVIOUS
  <2>1. Created(j)
    BY DEF HoldInv, AbsentEmpty, ItemTerminal
  <2>2. QED
    BY <2>1, ItemsAdvanceStep DEF ItemsAdvance
<1>2. QED
  BY <1>1, HoldInvHolds, PTL DEF Spec, OutcomesStable

-----------------------------------------------------------------------------
(* Rows never count more than their items.  f and g stand for the statuses  *)
(* item[j] of one job's items, before and after a step.                     *)

Listed(f)     == {i \in Items : f[i] # "none"}
Having(f, st) == {i \in Items : f[i] = st}

\* g is f after some steps.
Forward(f, g) ==
    \A i \in Items : /\ g[i] = "none" <=> f[i] = "none"
                     /\ ItemTerminal(f[i]) => g[i] = f[i]

Bounded(f, row) ==
    /\ row.total = Cardinality(Listed(f))
    /\ row.done <= Cardinality(Having(f, "done"))
    /\ row.failed <= Cardinality(Having(f, "failed"))

Settled(f, st) ==
    /\ \A i \in Listed(f) : ItemTerminal(f[i])
    /\ st = "succeeded" => Having(f, "failed") = {}
    /\ st = "failed"    => Having(f, "done") = {}
    /\ st = "partial"   => Having(f, "done") # {} /\ Having(f, "failed") # {}

\* The items of a settled job justify its status.
LEMMA SettledIsJustified ==
  ASSUME NEW j \in Jobs, NEW st
  PROVE  Justified(j, st) <=> Settled(item[j], st)
  BY DEF Justified, Settled, ItemsOf, ItemsIn, Listed, Having

\* The items with a given outcome are finitely many.
LEMMA CountsAreFinite ==
  ASSUME NEW f, NEW st
  PROVE  /\ IsFiniteSet(Having(f, st)) /\ Cardinality(Having(f, st)) \in Nat
         /\ IsFiniteSet(Listed(f)) /\ Cardinality(Listed(f)) \in Nat
<1>1. Having(f, st) \in SUBSET Items /\ Listed(f) \in SUBSET Items
  BY DEF Having, Listed
<1>2. QED
  BY <1>1, ConstantsAssumption, FS_Subset, FS_CardinalityType

\* A bounded row that accounts for every item is exact: all items have
\* settled, and the verdict computed from the row is theirs.
LEMMA AccountedIsExact ==
  ASSUME NEW f, NEW row \in JobRow, Bounded(f, row), Accounted(row)
  PROVE  Settled(f, Verdict(row))
<1> DEFINE D == Having(f, "done")
           F == Having(f, "failed")
           A == Listed(f)
<1>1. /\ IsFiniteSet(D) /\ Cardinality(D) \in Nat
      /\ IsFiniteSet(F) /\ Cardinality(F) \in Nat
      /\ IsFiniteSet(A) /\ Cardinality(A) \in Nat
  BY CountsAreFinite
<1>2. D \cap F = {} /\ D \cup F \in SUBSET A
  BY DEF Having, Listed
<1>3. row.done \in Nat /\ row.failed \in Nat /\ row.total \in Nat
  BY DEF JobRow
<1>4. /\ row.total = Cardinality(A) /\ row.done <= Cardinality(D)
      /\ row.failed <= Cardinality(F) /\ row.done + row.failed >= row.total
  BY DEF Bounded, Accounted
<1> HIDE DEF D, F, A
<1>5. Cardinality(D \cup F) = Cardinality(D) + Cardinality(F)
  <2>1. Cardinality(D \cap F) = 0
    BY <1>2, FS_EmptySet
  <2>2. Cardinality(D \cup F) = Cardinality(D) + Cardinality(F) - Cardinality(D \cap F)
    BY <1>1, FS_Union
  <2>3. QED
    BY <1>1, <2>1, <2>2
<1>6. /\ Cardinality(D \cup F) <= Cardinality(A)
      /\ Cardinality(A) = Cardinality(D \cup F) => A = D \cup F
  BY <1>1, <1>2, FS_Subset
<1>7. row.done = Cardinality(D) /\ row.failed = Cardinality(F) /\ A = D \cup F
  BY <1>1, <1>3, <1>4, <1>5, <1>6
<1>8. (row.done = 0 <=> D = {}) /\ (row.failed = 0 <=> F = {})
  BY <1>1, <1>7, FS_EmptySet
<1>9. \A i \in A : ItemTerminal(f[i])
  BY <1>7 DEF D, F, Having, ItemTerminal
<1>10. QED
  BY <1>8, <1>9 DEF Settled, Verdict, A, D, F

\* A bounded row stays bounded while the items advance.
LEMMA BoundedForward ==
  ASSUME NEW f, NEW g, Forward(f, g), NEW row \in JobRow, Bounded(f, row)
  PROVE  Bounded(g, row)
<1>1. Listed(g) = Listed(f)
  BY DEF Forward, Listed
<1>2. /\ Having(f, "done") \in SUBSET Having(g, "done")
      /\ Having(f, "failed") \in SUBSET Having(g, "failed")
  BY DEF Forward, Having, ItemTerminal
<1>3. /\ Cardinality(Having(f, "done")) <= Cardinality(Having(g, "done"))
      /\ Cardinality(Having(f, "failed")) <= Cardinality(Having(g, "failed"))
  BY <1>2, CountsAreFinite, FS_Subset
<1>4. /\ Cardinality(Having(f, "done")) \in Nat /\ Cardinality(Having(g, "done")) \in Nat
      /\ Cardinality(Having(f, "failed")) \in Nat /\ Cardinality(Having(g, "failed")) \in Nat
  BY CountsAreFinite
<1>5. row.done \in Nat /\ row.failed \in Nat
  BY DEF JobRow
<1>6. QED
  BY <1>1, <1>3, <1>4, <1>5 DEF Bounded

\* Settled items stay settled.
LEMMA SettledForward ==
  ASSUME NEW f, NEW g, Forward(f, g), NEW st, Settled(f, st)
  PROVE  Settled(g, st)
<1>1. \A i \in Items : ItemTerminal(f[i]) \/ f[i] = "none"
  BY DEF Settled, Listed
<1>2. \A i \in Items : g[i] = f[i]
  BY <1>1 DEF Forward
<1>3. Listed(g) = Listed(f) /\ Having(g, "done") = Having(f, "done")
      /\ Having(g, "failed") = Having(f, "failed")
  BY <1>2 DEF Listed, Having
<1>4. QED
  BY <1>2, <1>3 DEF Settled, Listed

\* Settling one item makes room for one more in its counter.
LEMMA SettleOne ==
  ASSUME NEW f \in [Items -> ItemStatus], NEW i \in Items, f[i] # "none",
         ~ItemTerminal(f[i]), NEW ok \in BOOLEAN, NEW row \in JobRow, Bounded(f, row)
  PROVE  Bounded([f EXCEPT ![i] = IF ok THEN "done" ELSE "failed"], BumpProgress(row, i, ok))
<1> DEFINE st == IF ok THEN "done" ELSE "failed"
           ot == IF ok THEN "failed" ELSE "done"
           g  == [f EXCEPT ![i] = st]
<1>1. Listed(g) = Listed(f)
  BY DEF Listed
<1>2. Having(g, st) = Having(f, st) \cup {i} /\ i \notin Having(f, st)
  BY DEF Having, ItemTerminal
<1>3. Having(g, ot) = Having(f, ot)
  BY DEF Having, ItemTerminal
<1>4. Cardinality(Having(g, st)) = Cardinality(Having(f, st)) + 1
  BY <1>2, CountsAreFinite, FS_AddElement
<1>5. row.done \in Nat /\ row.failed \in Nat
  BY DEF JobRow
<1>6. Cardinality(Having(f, "done")) \in Nat /\ Cardinality(Having(f, "failed")) \in Nat
  BY CountsAreFinite
<1>7. CASE ok
  <2>1. /\ BumpProgress(row, i, ok).total = row.total
        /\ BumpProgress(row, i, ok).done = row.done + 1
        /\ BumpProgress(row, i, ok).failed = row.failed
    BY <1>7, BumpShape
  <2>2. /\ Cardinality(Having(g, "done")) = Cardinality(Having(f, "done")) + 1
        /\ Having(g, "failed") = Having(f, "failed")
    BY <1>3, <1>4, <1>7
  <2> HIDE DEF g
  <2>3. Bounded(g, BumpProgress(row, i, ok))
    BY <1>1, <1>5, <1>6, <2>1, <2>2 DEF Bounded
  <2>4. QED
    BY <2>3 DEF g
<1>8. CASE ~ok
  <2>1. /\ BumpProgress(row, i, ok).total = row.total
        /\ BumpProgress(row, i, ok).done = row.done
        /\ BumpProgress(row, i, ok).failed = row.failed + 1
    BY <1>8, BumpShape
  <2>2. /\ Cardinality(Having(g, "failed")) = Cardinality(Having(f, "failed")) + 1
        /\ Having(g, "done") = Having(f, "done")
    BY <1>3, <1>4, <1>8
  <2> HIDE DEF g
  <2>3. Bounded(g, BumpProgress(row, i, ok))
    BY <1>1, <1>5, <1>6, <2>1, <2>2 DEF Bounded
  <2>4. QED
    BY <2>3 DEF g
<1>9. QED
  BY <1>7, <1>8

-----------------------------------------------------------------------------
(* The counting invariant is inductive, given HoldInv.                      *)

JobOK(j) ==
    /\ Bounded(item[j], job[j])
    /\ Terminal(job[j].status) => Settled(item[j], job[j].status)

SnapOK(w) ==
    /\ pc[w] \in {"start", "finish"} => Bounded(item[cur[w]], snap[w])
    /\ pc[w] = "finish" => Settled(item[cur[w]], snap[w].status)

CountInv == (\A j \in Jobs : JobOK(j)) /\ (\A w \in Workers : SnapOK(w))

\* The zero row is bounded by a job without items.
LEMMA EmptyBounded ==
  ASSUME NEW f, \A i \in Items : f[i] = "none"
  PROVE  Bounded(f, NoRow)
<1>1. Listed(f) = {} /\ Having(f, "done") = {} /\ Having(f, "failed") = {}
  BY DEF Listed, Having
<1>2. QED
  BY <1>1, FS_EmptySet DEF Bounded, NoRow

\* A job whose row a step leaves alone stays sound.
LEMMA JobUntouched ==
  ASSUME HoldInv, HoldInv', ItemsAdvance, CountInv, NEW j \in Jobs, job'[j] = job[j]
  PROVE  JobOK(j)'
<1>1. CASE Created(j)
  <2>1. Forward(item[j], item'[j])
    BY <1>1 DEF ItemsAdvance, Forward
  <2>2. job[j] \in JobRow
    BY DEF HoldInv, TypeOK
  <2>3. Bounded(item'[j], job[j])
    BY <2>1, <2>2, BoundedForward DEF CountInv, JobOK
  <2>4. Terminal(job[j].status) => Settled(item'[j], job[j].status)
    BY <2>1, SettledForward DEF CountInv, JobOK
  <2>5. QED
    BY <2>3, <2>4 DEF JobOK
<1>2. CASE ~Created(j)
  <2>1. job'[j] = NoRow /\ \A i \in Items : item'[j][i] = "none"
    BY <1>2 DEF HoldInv, AbsentEmpty, Created
  <2>2. QED
    BY <2>1, EmptyBounded DEF JobOK, NoRow, Terminal
<1>3. QED
  BY <1>1, <1>2

\* A snapshot stays sound while the goroutine that holds it waits.
LEMMA SnapUntouched ==
  ASSUME HoldInv, ItemsAdvance, CountInv, NEW w \in Workers,
         pc'[w] = pc[w], cur'[w] = cur[w], snap'[w] = snap[w]
  PROVE  SnapOK(w)'
<1>1. CASE pc[w] \in {"start", "finish"}
  <2>1. cur[w] \in Jobs /\ Created(cur[w])
    BY <1>1 DEF HoldInv, WorkersHold
  <2>2. Forward(item[cur[w]], item'[cur[w]])
    BY <2>1 DEF ItemsAdvance, Forward
  <2>3. snap[w] \in JobRow
    BY DEF HoldInv, TypeOK
  <2>4. Bounded(item'[cur[w]], snap[w])
    BY <1>1, <2>2, <2>3, BoundedForward DEF CountInv, SnapOK
  <2>5. pc[w] = "finish" => Settled(item'[cur[w]], snap[w].status)
    BY <2>2, SettledForward DEF CountInv, SnapOK
  <2>6. QED
    BY <2>4, <2>5 DEF SnapOK
<1>2. CASE pc[w] \notin {"start", "finish"}
  BY <1>2 DEF SnapOK
<1>3. QED
  BY <1>1, <1>2

\* A step that leaves every row and every snapshot alone.
LEMMA OthersCountInv ==
  ASSUME HoldInv, HoldInv', ItemsAdvance, CountInv, UNCHANGED job,
         \A w \in Workers : \/ pc'[w] = pc[w] /\ cur'[w] = cur[w] /\ snap'[w] = snap[w]
                            \/ pc'[w] \notin {"start", "finish"}
  PROVE  CountInv'
<1>1. \A j \in Jobs : JobOK(j)'
  BY JobUntouched
<1>2. ASSUME NEW w \in Workers PROVE SnapOK(w)'
  BY SnapUntouched DEF SnapOK
<1>3. QED
  BY <1>1, <1>2 DEF CountInv

\* The step CreateJob keeps CountInv.
LEMMA CreateJobCountInv ==
  ASSUME HoldInv, HoldInv', ItemsAdvance, CountInv,
         NEW j \in Jobs, NEW S \in SUBSET Items, CreateJob(j, S)
  PROVE  CountInv'
<1> USE DEF CreateJob
<1> DEFINE f == [i \in Items |-> IF i \in S THEN "pending" ELSE "none"]
<1>1. item'[j] = f /\ Listed(f) = S
  BY DEF HoldInv, TypeOK, Listed
<1>2. Cardinality(Having(f, "done")) \in Nat /\ Cardinality(Having(f, "failed")) \in Nat
  BY CountsAreFinite
<1>3. /\ job'[j].total = Cardinality(S) /\ job'[j].done = 0 /\ job'[j].failed = 0
      /\ job'[j].status = "queued"
  BY DEF HoldInv, TypeOK, NoRow
<1> HIDE DEF f
<1>4. JobOK(j)'
  BY <1>1, <1>2, <1>3 DEF JobOK, Bounded, Terminal
<1>5. \A k \in Jobs \ {j} : JobOK(k)'
  <2>1. \A k \in Jobs \ {j} : job'[k] = job[k]
    BY DEF HoldInv, TypeOK
  <2>2. QED
    BY <2>1, JobUntouched
<1>6. \A w \in Workers : SnapOK(w)'
  BY SnapUntouched
<1>7. QED
  BY <1>4, <1>5, <1>6 DEF CountInv

\* The step GetJob keeps CountInv.
LEMMA GetJobCountInv ==
  ASSUME HoldInv, HoldInv', ItemsAdvance, CountInv, NEW w \in Workers, GetJob(w)
  PROVE  CountInv'
<1> USE DEF GetJob, Goto, Return
<1>1. UNCHANGED <<job, item>>
  OBVIOUS
<1>2. \A j \in Jobs : JobOK(j)'
  BY <1>1, JobUntouched
<1>3. \A v \in Workers \ {w} : SnapOK(v)'
  <2>1. \A v \in Workers \ {w} : pc'[v] = pc[v] /\ cur'[v] = cur[v] /\ snap'[v] = snap[v]
    BY DEF HoldInv, TypeOK
  <2>2. QED
    BY <2>1, SnapUntouched
<1>4. SnapOK(w)'
  <2>1. CASE pc'[w] = "start"
    <3>1. snap'[w] = job[cur[w]] /\ cur'[w] = cur[w] /\ cur[w] \in Jobs
      BY <2>1 DEF HoldInv, TypeOK, WorkersHold
    <3>2. QED
      BY <1>1, <2>1, <3>1 DEF SnapOK, CountInv, JobOK
  <2>2. CASE pc'[w] # "start"
    <3>1. pc'[w] # "finish"
      BY DEF HoldInv, TypeOK
    <3>2. QED
      BY <2>2, <3>1 DEF SnapOK
  <2>3. QED
    BY <2>1, <2>2
<1>5. QED
  BY <1>2, <1>3, <1>4 DEF CountInv

\* The step StartJob keeps CountInv.
LEMMA StartJobCountInv ==
  ASSUME HoldInv, HoldInv', ItemsAdvance, CountInv, NEW w \in Workers, StartJob(w)
  PROVE  CountInv'
<1> USE DEF StartJob, Goto
<1>1. cur[w] \in Jobs /\ snap[w] \in JobRow /\ item' = item
  BY DEF HoldInv, TypeOK, WorkersHold
<1>2. ASSUME NEW j \in Jobs PROVE JobOK(j)'
  <2>1. CASE job'[j] = job[j]
    BY <2>1, JobUntouched
  <2>2. CASE j = cur[w] /\ job'[j] = [snap[w] EXCEPT !.status = "running"]
    <3>1. Bounded(item[j], snap[w])
      BY <2>2 DEF CountInv, SnapOK
    <3>2. /\ job'[j].total = snap[w].total /\ job'[j].done = snap[w].done
          /\ job'[j].failed = snap[w].failed /\ job'[j].status = "running"
      BY <1>1, <2>2 DEF JobRow
    <3>3. QED
      BY <1>1, <3>1, <3>2 DEF JobOK, Bounded, Terminal
  <2>3. QED
    BY <1>1, <2>1, <2>2 DEF UpdateJob, HoldInv, TypeOK
<1>3. ASSUME NEW v \in Workers PROVE SnapOK(v)'
  <2>1. CASE v = w
    BY <2>1 DEF SnapOK, HoldInv, TypeOK
  <2>2. CASE v # w
    <3>1. pc'[v] = pc[v] /\ cur'[v] = cur[v] /\ snap'[v] = snap[v]
      BY <2>2 DEF HoldInv, TypeOK
    <3>2. QED
      BY <3>1, SnapUntouched
  <2>3. QED
    BY <2>1, <2>2
<1>4. QED
  BY <1>2, <1>3 DEF CountInv

\* The step MarkItem keeps CountInv.
LEMMA MarkItemCountInv ==
  ASSUME HoldInv, HoldInv', ItemsAdvance, CountInv, NEW w \in Workers, MarkItem(w)
  PROVE  CountInv'
<1> USE DEF MarkItem, Goto
<1> DEFINE c == cur[w]
           i == claim[w]
           ok == ~runErr[w]
<1>1. /\ c \in Jobs /\ i \in Items /\ item[c][i] # "none" /\ Created(c)
      /\ item[c] \in [Items -> ItemStatus] /\ job[c] \in JobRow /\ ok \in BOOLEAN
  BY DEF HoldInv, TypeOK, WorkersHold, Holding
<1>2. \/ UNCHANGED <<item, job>>
      \/ /\ ~ItemTerminal(item[c][i])
         /\ item' = [item EXCEPT ![c][i] = IF ok THEN "done" ELSE "failed"]
         /\ job' = [job EXCEPT ![c] = BumpProgress(job[c], i, ok)]
  BY DEF MarkItemDoneAndProgress
<1>3. ASSUME NEW j \in Jobs PROVE JobOK(j)'
  <2>1. CASE job'[j] = job[j]
    BY <2>1, JobUntouched
  <2>2. CASE /\ j = c
             /\ ~ItemTerminal(item[c][i])
             /\ item' = [item EXCEPT ![c][i] = IF ok THEN "done" ELSE "failed"]
             /\ job' = [job EXCEPT ![c] = BumpProgress(job[c], i, ok)]
    <3> HIDE DEF c, i, ok
    <3>1. item'[c] = [item[c] EXCEPT ![i] = IF ok THEN "done" ELSE "failed"]
      BY <1>1, <2>2 DEF HoldInv, TypeOK
    <3>2. job'[c] = BumpProgress(job[c], i, ok) /\ job'[c].status = job[c].status
      BY <1>1, <2>2, BumpShape DEF HoldInv, TypeOK
    <3>3. Bounded(item'[c], job'[c])
      BY <1>1, <2>2, <3>1, <3>2, SettleOne DEF CountInv, JobOK
    <3>4. ~Terminal(job[c].status)
      <4>1. i \in Listed(item[c])
        BY <1>1 DEF Listed
      <4>2. QED
        BY <1>1, <2>2, <4>1 DEF CountInv, JobOK, Settled
    <3>5. QED
      BY <2>2, <3>2, <3>3, <3>4 DEF JobOK
  <2>3. QED
    BY <1>1, <1>2, <2>1, <2>2 DEF HoldInv, TypeOK
<1>4. ASSUME NEW v \in Workers PROVE SnapOK(v)'
  <2>1. CASE v = w
    BY <2>1 DEF SnapOK, HoldInv, TypeOK
  <2>2. CASE v # w
    <3>1. pc'[v] = pc[v] /\ cur'[v] = cur[v] /\ snap'[v] = snap[v]
      BY <2>2 DEF HoldInv, TypeOK
    <3>2. QED
      BY <3>1, SnapUntouched
  <2>3. QED
    BY <2>1, <2>2
<1>5. QED
  BY <1>3, <1>4 DEF CountInv

\* The step FinalGetJob keeps CountInv.
LEMMA FinalGetJobCountInv ==
  ASSUME HoldInv, HoldInv', ItemsAdvance, CountInv, NEW w \in Workers, FinalGetJob(w)
  PROVE  CountInv'
<1> USE DEF FinalGetJob, Goto
<1> DEFINE c == cur[w]
           row == job[c]
<1>1. UNCHANGED <<job, item>> /\ c \in Jobs /\ row \in JobRow
  BY DEF HoldInv, TypeOK, WorkersHold
<1>2. \A j \in Jobs : JobOK(j)'
  BY <1>1, JobUntouched
<1>3. \A v \in Workers \ {w} : SnapOK(v)'
  <2>1. \A v \in Workers \ {w} : pc'[v] = pc[v] /\ cur'[v] = cur[v] /\ snap'[v] = snap[v]
    BY DEF HoldInv, TypeOK, Return
  <2>2. QED
    BY <2>1, SnapUntouched
<1>4. SnapOK(w)'
  <2>1. CASE Return(w)
    BY <2>1 DEF SnapOK, HoldInv, TypeOK, Return
  <2>2. CASE /\ Accounted(row)
             /\ snap' = [snap EXCEPT ![w] = [row EXCEPT !.status = Verdict(row)]]
             /\ pc' = [pc EXCEPT ![w] = "finish"]
             /\ UNCHANGED cur
    <3> HIDE DEF row
    <3>1. Bounded(item[c], row)
      BY <1>1 DEF CountInv, JobOK, row
    <3>2. Settled(item[c], Verdict(row))
      BY <1>1, <2>2, <3>1, AccountedIsExact
    <3>3. /\ snap'[w].status = Verdict(row) /\ snap'[w].total = row.total
          /\ snap'[w].done = row.done /\ snap'[w].failed = row.failed
      BY <1>1, <2>2 DEF HoldInv, TypeOK, JobRow
    <3>4. pc'[w] = "finish" /\ cur'[w] = c /\ item' = item
      BY <1>1, <2>2 DEF HoldInv, TypeOK
    <3>5. QED
      BY <3>1, <3>2, <3>3, <3>4 DEF SnapOK, Bounded
  <2>3. QED
    BY <2>1, <2>2
<1>5. QED
  BY <1>2, <1>3, <1>4 DEF CountInv

\* The step FinishJob keeps CountInv.
LEMMA FinishJobCountInv ==
  ASSUME HoldInv, HoldInv', ItemsAdvance, CountInv, NEW w \in Workers, FinishJob(w)
  PROVE  CountInv'
<1> USE DEF FinishJob, Goto, Return
<1>1. cur[w] \in Jobs /\ item' = item
  BY DEF HoldInv, TypeOK, WorkersHold
<1>2. ASSUME NEW j \in Jobs PROVE JobOK(j)'
  <2>1. CASE job'[j] = job[j]
    BY <2>1, JobUntouched
  <2>2. CASE j = cur[w] /\ job'[j] = snap[w]
    BY <1>1, <2>2 DEF CountInv, SnapOK, JobOK
  <2>3. QED
    BY <1>1, <2>1, <2>2 DEF UpdateJob, HoldInv, TypeOK
<1>3. ASSUME NEW v \in Workers PROVE SnapOK(v)'
  <2>1. CASE v = w
    BY <2>1 DEF SnapOK, HoldInv, TypeOK
  <2>2. CASE v # w
    <3>1. pc'[v] = pc[v] /\ cur'[v] = cur[v] /\ snap'[v] = snap[v]
      BY <2>2 DEF HoldInv, TypeOK
    <3>2. QED
      BY <3>1, SnapUntouched
  <2>3. QED
    BY <2>1, <2>2
<1>4. QED
  BY <1>2, <1>3 DEF CountInv

\* Worker steps that write no job row and take no new snapshot keep CountInv.
LEMMA OtherWorkerCountInv ==
  ASSUME HoldInv, HoldInv', ItemsAdvance, CountInv, NEW w \in Workers,
         \/ Receive(w) \/ WorkerExit(w) \/ ClaimNextItem(w) \/ DrainStop(w)
         \/ CreateMemory(w) \/ SetItemTrackID(w) \/ AddSource(w)
  PROVE  CountInv'
<1>1. UNCHANGED job
  BY DEF Receive, WorkerExit, ClaimNextItem, DrainStop, CreateMemory, SetItemTrackID, AddSource
<1>2. ASSUME NEW v \in Workers, v # w
      PROVE  pc'[v] = pc[v] /\ cur'[v] = cur[v] /\ snap'[v] = snap[v]
  BY <1>2 DEF HoldInv, TypeOK, Receive, WorkerExit, ClaimNextItem, HoldItem, DrainStop,
      CreateMemory, SetItemTrackID, AddSource, Goto, Return
<1>3. pc'[w] \notin {"start", "finish"}
  BY DEF HoldInv, TypeOK, Receive, WorkerExit, ClaimNextItem, HoldItem, DrainStop,
      CreateMemory, SetItemTrackID, AddSource, Goto, Return
<1>4. QED
  BY <1>1, <1>2, <1>3, OthersCountInv

\* CountInv is inductive relative to HoldInv.
LEMMA CountInvInductive == HoldInv /\ HoldInv' /\ CountInv /\ [Next]_vars => CountInv'
<1> SUFFICES ASSUME HoldInv, HoldInv', CountInv, [Next]_vars PROVE CountInv'
  OBVIOUS
<1>0. ItemsAdvance
  BY ItemsAdvanceStep
<1>1. CASE \E j \in Jobs, S \in SUBSET Items : CreateJob(j, S)
  BY <1>0, <1>1, CreateJobCountInv
<1>2. ASSUME NEW w \in Workers, WorkerStep(w) \/ WorkerExit(w)
      PROVE  CountInv'
  BY <1>0, <1>2, GetJobCountInv, StartJobCountInv, MarkItemCountInv, FinalGetJobCountInv,
     FinishJobCountInv, OtherWorkerCountInv DEF WorkerStep
<1>3. CASE UNCHANGED <<job, pc, cur, snap>>
  BY <1>0, <1>3, OthersCountInv
<1>4. CASE \/ \E j \in Jobs : Notify(j)
           \/ \E r \in Resumers : ResumeStep(r) \/ ResumeExit(r)
           \/ Stop
           \/ UNCHANGED vars
  BY <1>3, <1>4 DEF Notify, ResumeStep, ResumeReset, ResumeList, ResumeSend, ResumeExit,
                    Stop, vars
<1>5. CASE Crash \/ Relaunch
  <2>1. UNCHANGED job /\ \A w \in Workers : pc'[w] = "idle"
    BY <1>5 DEF Crash, Relaunch, Reboot
  <2>2. QED
    BY <1>0, <2>1, OthersCountInv
<1>6. QED
  BY <1>1, <1>2, <1>4, <1>5 DEF Next

\* The initial states satisfy CountInv.
LEMMA InitCountInv == Init => CountInv
<1> SUFFICES ASSUME Init PROVE CountInv
  OBVIOUS
<1>1. ASSUME NEW j \in Jobs PROVE JobOK(j)
  <2>1. job[j] = NoRow /\ \A i \in Items : item[j][i] = "none"
    BY DEF Init
  <2>2. QED
    BY <2>1, EmptyBounded DEF JobOK, NoRow, Terminal
<1>2. \A w \in Workers : SnapOK(w)
  BY DEF Init, SnapOK
<1>3. QED
  BY <1>1, <1>2 DEF CountInv

\* CountInv holds in every reachable state.
LEMMA CountInvHolds == Spec => []CountInv
  BY InitCountInv, CountInvInductive, HoldInvHolds, PTL DEF Spec

\* A finished job has settled all its items, and its verdict is the one they
\* justify, for any number of workers racing on it, any number of resumes
\* under their feet, and any pattern of restarts and failing store calls.
THEOREM VerdictsAreSound == Spec => []VerdictSound
<1>1. HoldInv /\ CountInv => VerdictSound
  BY SettledIsJustified DEF CountInv, JobOK, VerdictSound
<1>2. QED
  BY <1>1, HoldInvHolds, CountInvHolds, PTL

\* The stored counters never run ahead of the items, although UpdateJob writes
\* back counters that were read earlier.
THEOREM CountersNeverOvercount == Spec => []NeverOvercounts
<1>1. CountInv => NeverOvercounts
  BY DEF CountInv, JobOK, Bounded, Having, ItemsIn, NeverOvercounts
<1>2. QED
  BY <1>1, CountInvHolds, PTL
=============================================================================
