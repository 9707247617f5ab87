-------------------------- MODULE IngestItemsProofs --------------------------
(***************************************************************************)
(* More proofs about IngestPool, on top of IngestPoolProofs: what a done   *)
(* item stands for, what the error list names, what a graceful stop leaves *)
(* behind, what one worker guarantees in addition (one document per item,  *)
(* and that every step of the pool is a step of JobLifecycle or leaves its *)
(* state alone), and what any number of workers do to a job's counters and *)
(* its verdict's count, but for the two races that runJob has.             *)
(***************************************************************************)
EXTENDS IngestPoolProofs

USE DEF jobStore, worker, resumer, channel, external, process, Fault, NoFault

-----------------------------------------------------------------------------
(* Steps of one worker and the others.                                     *)

\* What worker v keeps between two store calls is left alone.
Undisturbed(v) ==
    /\ pc'[v] = pc[v] /\ cur'[v] = cur[v] /\ snap'[v] = snap[v]
    /\ claim'[v] = claim[v] /\ held'[v] = held[v] /\ runErr'[v] = runErr[v]

\* A worker's step leaves the memory of the others alone.
LEMMA OthersUndisturbed ==
  ASSUME HoldInv, NEW w \in Workers, WorkerStep(w) \/ WorkerExit(w), NEW v \in Workers, v # w
  PROVE  Undisturbed(v)
<1> USE DEF Undisturbed, HoldInv, TypeOK, Goto, Return
<1>1. CASE Receive(w) \/ WorkerExit(w) \/ GetJob(w) \/ StartJob(w)
  BY <1>1 DEF Receive, WorkerExit, GetJob, StartJob
<1>2. CASE ClaimNextItem(w) \/ DrainStop(w) \/ CreateMemory(w)
  BY <1>2 DEF ClaimNextItem, HoldItem, DrainStop, CreateMemory
<1>3. CASE SetItemTrackID(w) \/ AddSource(w) \/ MarkItem(w)
  BY <1>3 DEF SetItemTrackID, AddSource, MarkItem
<1>4. CASE FinalGetJob(w) \/ FinishJob(w)
  BY <1>4 DEF FinalGetJob, FinishJob
<1>5. QED
  BY <1>1, <1>2, <1>3, <1>4 DEF WorkerStep

\* A step outside the workers leaves their memory alone or starts it anew.
OutsideStep ==
    \/ \E j \in Jobs, S \in SUBSET Items : CreateJob(j, S)
    \/ \E j \in Jobs : Notify(j)
    \/ \E r \in Resumers : ResumeStep(r) \/ ResumeExit(r)
    \/ Stop \/ Crash \/ Relaunch \/ UNCHANGED vars

\* A step is one of a worker or one outside them.
LEMMA StepSplit ==
  ASSUME [Next]_vars
  PROVE  OutsideStep \/ \E w \in Workers : WorkerStep(w) \/ WorkerExit(w)
  BY DEF Next, OutsideStep

\* Outside the workers nothing touches a document, a track or the index, and
\* no item settles.
LEMMA OutsideTouches ==
  ASSUME HoldInv, OutsideStep
  PROVE  /\ UNCHANGED <<docs, track, indexed, finalized>>
         /\ (\A v \in Workers : Undisturbed(v)) \/ (\A v \in Workers : pc'[v] = "idle")
         /\ \A j \in Jobs, i \in Items : ItemTerminal(item'[j][i]) => ItemTerminal(item[j][i])
<1> USE DEF Undisturbed
<1>1. ASSUME NEW k \in Jobs, NEW S \in SUBSET Items, CreateJob(k, S)
      PROVE  \A j \in Jobs, i \in Items : ItemTerminal(item'[j][i]) => ItemTerminal(item[j][i])
  BY <1>1 DEF CreateJob, HoldInv, TypeOK, ItemTerminal
<1>2. ASSUME NEW r \in Resumers, ResumeReset(r)
      PROVE  \A j \in Jobs, i \in Items : ItemTerminal(item'[j][i]) => ItemTerminal(item[j][i])
  BY <1>2 DEF ResumeReset, ResetRunningItems, ItemTerminal
<1>3. CASE \E j \in Jobs, S \in SUBSET Items : CreateJob(j, S)
  BY <1>1, <1>3 DEF CreateJob
<1>4. CASE \E r \in Resumers : ResumeStep(r) \/ ResumeExit(r)
  BY <1>2, <1>4 DEF ResumeStep, ResumeReset, ResumeList, ResumeSend, ResumeExit
<1>5. CASE (\E j \in Jobs : Notify(j)) \/ Stop \/ UNCHANGED vars
  BY <1>5 DEF Notify, Stop, vars
<1>6. CASE Crash \/ Relaunch
  BY <1>6 DEF Crash, Relaunch, Reboot
<1>7. QED
  BY <1>3, <1>4, <1>5, <1>6 DEF OutsideStep

-----------------------------------------------------------------------------
(* What a done item stands for.                                            *)

Stored(j, i)  == docs[j][i] > 0
Sourced(j, i) == i \in Filed => indexed[j][i] # "no"

ItemSound(j, i) ==
    /\ track[j][i] \/ item[j][i] = "done" => Stored(j, i)
    /\ item[j][i] = "done" => Sourced(j, i)
    /\ indexed[j][i] # "no" => i \in Filed

\* What a worker's place in runItem says of the item it holds.
HandSound(w) ==
    /\ pc[w] \in {"track", "source"} => Stored(cur[w], claim[w]) /\ held[w]
    /\ pc[w] = "mark" /\ ~runErr[w] => Stored(cur[w], claim[w]) /\ Sourced(cur[w], claim[w])

ItemInv == (\A j \in Jobs, i \in Items : ItemSound(j, i)) /\ (\A w \in Workers : HandSound(w))

\* Documents and index rows stay.
Monotone ==
    \A j \in Jobs, i \in Items :
        /\ docs[j][i] > 0 => docs'[j][i] > 0
        /\ indexed[j][i] # "no" => indexed'[j][i] # "no"
        /\ indexed'[j][i] # "no" => indexed[j][i] # "no" \/ i \in Filed

\* What a worker knows of its item stays true while it waits.
LEMMA HandKeeps ==
  ASSUME HoldInv, ItemInv, Monotone, NEW v \in Workers, Undisturbed(v)
  PROVE  HandSound(v)'
<1>1. CASE pc[v] \in {"track", "source", "mark"}
  <2>1. cur[v] \in Jobs /\ claim[v] \in Items
    BY <1>1 DEF HoldInv, WorkersHold, Holding
  <2>2. QED
    BY <2>1 DEF ItemInv, HandSound, Monotone, Undisturbed, Stored, Sourced
<1>2. CASE pc[v] \notin {"track", "source", "mark"}
  BY <1>2 DEF HandSound, Undisturbed
<1>3. QED
  BY <1>1, <1>2

\* An item whose track is not set anew and which does not become done.
LEMMA ItemKeeps ==
  ASSUME ItemInv, Monotone, NEW j \in Jobs, NEW i \in Items,
         track'[j][i] => track[j][i], item'[j][i] = "done" => item[j][i] = "done"
  PROVE  ItemSound(j, i)'
  BY DEF ItemInv, ItemSound, Monotone, Stored, Sourced

\* Steps outside the workers keep ItemInv.
LEMMA OutsideItemInv ==
  ASSUME HoldInv, HoldInv', ItemsAdvance, ItemInv, OutsideStep
  PROVE  ItemInv'
<1>1. Monotone /\ \A j \in Jobs, i \in Items : track'[j][i] => track[j][i]
  BY OutsideTouches DEF Monotone
<1>2. ASSUME NEW j \in Jobs, NEW i \in Items, item'[j][i] = "done" PROVE item[j][i] = "done"
  <2>1. ItemTerminal(item[j][i])
    BY <1>2, OutsideTouches DEF ItemTerminal
  <2>2. Created(j)
    BY <2>1 DEF HoldInv, AbsentEmpty, ItemTerminal
  <2>3. QED
    BY <1>2, <2>1, <2>2 DEF ItemsAdvance
<1>3. ASSUME NEW v \in Workers PROVE HandSound(v)'
  <2>1. CASE Undisturbed(v)
    BY <1>1, <2>1, HandKeeps
  <2>2. CASE pc'[v] = "idle"
    BY <2>2 DEF HandSound
  <2>3. QED
    BY <2>1, <2>2, OutsideTouches
<1>4. QED
  BY <1>1, <1>2, <1>3, ItemKeeps DEF ItemInv

\* The item a worker holds, and its documents, tracks and index rows.
LEMMA Hands ==
  ASSUME HoldInv, NEW w \in Workers, pc[w] \in Holding
  PROVE  /\ cur[w] \in Jobs /\ claim[w] \in Items
         /\ docs \in [Jobs -> [Items -> 0..2]] /\ track \in [Jobs -> [Items -> BOOLEAN]]
         /\ indexed \in [Jobs -> [Items -> {"no", "yes", "lost"}]]
         /\ item \in [Jobs -> [Items -> ItemStatus]]
         /\ pc \in [Workers -> WorkerPC] /\ held \in [Workers -> BOOLEAN] /\ runErr \in [Workers -> BOOLEAN]
         /\ cur \in [Workers -> Jobs \cup {NoJob}] /\ claim \in [Workers -> Items \cup {NoItem}]
  BY DEF HoldInv, TypeOK, WorkersHold, Holding

\* Worker steps that hand no item on keep ItemInv.
LEMMA RestItemInv ==
  ASSUME HoldInv, ItemInv, NEW w \in Workers, WorkerStep(w) \/ WorkerExit(w),
         UNCHANGED <<docs, track, indexed>>, pc'[w] \notin {"track", "source", "mark"},
         \A j \in Jobs, i \in Items : item'[j][i] = "done" => item[j][i] = "done"
  PROVE  ItemInv'
<1>1. Monotone
  BY DEF Monotone
<1>2. \A v \in Workers : HandSound(v)'
  BY <1>1, OthersUndisturbed, HandKeeps DEF HandSound
<1>3. QED
  BY <1>1, <1>2, ItemKeeps DEF ItemInv

\* Claiming an item keeps ItemInv: a set TrackID means a document.
LEMMA ClaimItemInv ==
  ASSUME HoldInv, ItemInv, NEW w \in Workers, ClaimNextItem(w)
  PROVE  ItemInv'
<1>1. cur[w] \in Jobs /\ UNCHANGED <<docs, track, indexed, cur>> /\ WorkerStep(w)
  BY DEF ClaimNextItem, HoldInv, WorkersHold, WorkerStep
<1>2. ASSUME NEW k \in Items, item' = [item EXCEPT ![cur[w]][k] = "running"]
      PROVE  \A j \in Jobs, i \in Items : item'[j][i] = "done" => item[j][i] = "done"
  BY <1>1, <1>2 DEF HoldInv, TypeOK
<1>3. ASSUME NEW k \in ItemsIn(cur[w], "pending"), HoldItem(w, k) PROVE ItemInv'
  <2>1. k \in Items /\ item' = [item EXCEPT ![cur[w]][k] = "running"]
    BY <1>3 DEF ItemsIn, HoldItem
  <2>2. \A j \in Jobs, i \in Items : item'[j][i] = "done" => item[j][i] = "done"
    BY <1>2, <2>1
  <2>3. /\ claim'[w] = k /\ cur'[w] = cur[w] /\ held'[w] = track[cur[w]][k]
        /\ pc'[w] = IF track[cur[w]][k] THEN "source" ELSE "create"
    BY <1>1, <1>3 DEF HoldItem, Goto, HoldInv, TypeOK
  <2>4. Monotone
    BY <1>1 DEF Monotone
  <2>5. HandSound(w)'
    BY <1>1, <2>1, <2>3 DEF HandSound, ItemInv, ItemSound, Stored
  <2>6. \A v \in Workers \ {w} : HandSound(v)'
    BY <1>1, <2>4, OthersUndisturbed, HandKeeps
  <2>7. QED
    BY <1>1, <2>2, <2>4, <2>5, <2>6, ItemKeeps DEF ItemInv
<1>4. CASE pc' = [pc EXCEPT ![w] = "final"] /\ (UNCHANGED item \/ \E i \in ItemsIn(cur[w], "pending") :
             item' = [item EXCEPT ![cur[w]][i] = "running"])
  <2>1. pc'[w] = "final"
    BY <1>4 DEF HoldInv, TypeOK
  <2>2. \A j \in Jobs, i \in Items : item'[j][i] = "done" => item[j][i] = "done"
    BY <1>2, <1>4 DEF ItemsIn
  <2>3. QED
    BY <1>1, <2>1, <2>2, RestItemInv
<1>5. QED
  BY <1>3, <1>4 DEF ClaimNextItem, Goto

\* CreateMemory keeps ItemInv: only an accepted text moves on to its track.
LEMMA CreateItemInv ==
  ASSUME HoldInv, ItemInv, NEW w \in Workers, CreateMemory(w)
  PROVE  ItemInv'
<1>0. pc[w] \in Holding /\ WorkerStep(w) /\ UNCHANGED <<track, indexed, item, cur, claim>>
  BY DEF CreateMemory, Holding, WorkerStep
<1>1. /\ cur[w] \in Jobs /\ claim[w] \in Items /\ docs \in [Jobs -> [Items -> 0..2]]
      /\ pc \in [Workers -> WorkerPC] /\ runErr \in [Workers -> BOOLEAN] /\ held \in [Workers -> BOOLEAN]
  BY <1>0, Hands
<1>2. PICK accepted, failed \in BOOLEAN :
         /\ accepted \/ failed
         /\ docs' = IF accepted
                    THEN [docs EXCEPT ![cur[w]][claim[w]] = UpTo2(@)]
                    ELSE docs
         /\ held' = [held EXCEPT ![w] = ~failed]
         /\ runErr' = [runErr EXCEPT ![w] = failed]
         /\ pc' = [pc EXCEPT ![w] = IF failed THEN "mark" ELSE "track"]
  BY DEF CreateMemory, Goto
<1>3. Monotone /\ (accepted => docs'[cur[w]][claim[w]] > 0)
  <2>1. CASE ~accepted
    BY <1>0, <1>2, <2>1 DEF Monotone
  <2>2. CASE accepted
    <3>1. docs'[cur[w]][claim[w]] = UpTo2(docs[cur[w]][claim[w]]) /\ docs[cur[w]][claim[w]] \in 0..2
      BY <1>1, <1>2, <2>2
    <3>2. \A j \in Jobs, i \in Items : j # cur[w] \/ i # claim[w] => docs'[j][i] = docs[j][i]
      BY <1>1, <1>2, <2>2
    <3>3. docs'[cur[w]][claim[w]] > 0
      BY <3>1 DEF UpTo2
    <3>4. QED
      BY <1>0, <3>2, <3>3 DEF Monotone
  <2>3. QED
    BY <2>1, <2>2
<1>4. HandSound(w)'
  <2>1. pc'[w] = (IF failed THEN "mark" ELSE "track") /\ runErr'[w] = failed /\ held'[w] = ~failed
    BY <1>1, <1>2
  <2>2. QED
    BY <1>0, <1>2, <1>3, <2>1 DEF HandSound, Stored
<1>5. \A v \in Workers \ {w} : HandSound(v)'
  BY <1>0, <1>3, OthersUndisturbed, HandKeeps
<1>6. QED
  BY <1>0, <1>3, <1>4, <1>5, ItemKeeps DEF ItemInv

\* SetItemTrackID keeps ItemInv: it runs after CreateMemory.
LEMMA TrackItemInv ==
  ASSUME HoldInv, ItemInv, NEW w \in Workers, SetItemTrackID(w)
  PROVE  ItemInv'
<1>0. /\ pc[w] \in Holding /\ pc[w] = "track" /\ WorkerStep(w)
      /\ UNCHANGED <<docs, indexed, item, cur, claim>>
  BY DEF SetItemTrackID, Holding, WorkerStep
<1>1. cur[w] \in Jobs /\ claim[w] \in Items /\ pc'[w] = "source" /\ Monotone
  BY <1>0, Hands DEF SetItemTrackID, Goto, Monotone
<1>2. Stored(cur[w], claim[w]) /\ Stored(cur[w], claim[w])' /\ held'[w]
  BY <1>0 DEF ItemInv, HandSound, Stored, SetItemTrackID
<1>3. \A v \in Workers : HandSound(v)'
  BY <1>0, <1>1, <1>2, OthersUndisturbed, HandKeeps DEF HandSound, Stored
<1>4. ASSUME NEW j \in Jobs, NEW i \in Items PROVE ItemSound(j, i)'
  <2>1. CASE j = cur[w] /\ i = claim[w]
    BY <1>0, <1>2, <2>1 DEF ItemInv, ItemSound, Stored, Sourced
  <2>2. CASE j # cur[w] \/ i # claim[w]
    <3>1. track'[j][i] = track[j][i]
      <4>1. track' = track \/ track' = [track EXCEPT ![cur[w]][claim[w]] = TRUE]
        BY DEF SetItemTrackID
      <4>2. track \in [Jobs -> [Items -> BOOLEAN]]
        BY <1>0, Hands
      <4>3. QED
        BY <1>1, <2>2, <4>1, <4>2, Zenon
    <3>2. QED
      BY <1>0, <1>1, <3>1, ItemKeeps
  <2>3. QED
    BY <2>1, <2>2
<1>5. QED
  BY <1>3, <1>4 DEF ItemInv

\* sources.Add keeps ItemInv: it leaves an index row or a counted loss.
LEMMA SourceItemInv ==
  ASSUME HoldInv, ItemInv, NEW w \in Workers, AddSource(w)
  PROVE  ItemInv'
<1>0. /\ pc[w] \in Holding /\ pc[w] = "source" /\ WorkerStep(w)
      /\ UNCHANGED <<docs, track, item, cur, claim>>
  BY DEF AddSource, Holding, WorkerStep
<1>1. cur[w] \in Jobs /\ claim[w] \in Items /\ indexed \in [Jobs -> [Items -> {"no", "yes", "lost"}]]
  BY <1>0, Hands
<1>2. /\ claim[w] \in Filed => indexed'[cur[w]][claim[w]] # "no"
      /\ claim[w] \notin Filed => indexed' = indexed
      /\ \A j \in Jobs, i \in Items : j # cur[w] \/ i # claim[w] => indexed'[j][i] = indexed[j][i]
  <2>1. held[w]
    BY <1>0 DEF ItemInv, HandSound
  <2>2. CASE claim[w] \notin Filed
    BY <2>1, <2>2 DEF AddSource
  <2>3. CASE claim[w] \in Filed
    <3>1. \/ indexed' = [indexed EXCEPT ![cur[w]][claim[w]] = "yes"]
          \/ indexed' = [indexed EXCEPT ![cur[w]][claim[w]] =
                            IF indexed[cur[w]][claim[w]] = "no" THEN "lost" ELSE indexed[cur[w]][claim[w]]]
      BY <2>1, <2>3 DEF AddSource
    <3>2. QED
      BY <1>1, <2>3, <3>1
  <2>4. QED
    BY <2>2, <2>3
<1>3. Monotone
  <2>1. ASSUME NEW j \in Jobs, NEW i \in Items
        PROVE  /\ indexed[j][i] # "no" => indexed'[j][i] # "no"
               /\ indexed'[j][i] # "no" => indexed[j][i] # "no" \/ i \in Filed
    <3>1. CASE j = cur[w] /\ i = claim[w]
      BY <1>2, <3>1
    <3>2. CASE j # cur[w] \/ i # claim[w]
      BY <1>2, <3>2
    <3>3. QED
      BY <3>1, <3>2
  <2>2. QED
    BY <1>0, <2>1 DEF Monotone
<1>4. HandSound(w)'
  <2>1. pc'[w] = "mark" /\ Stored(cur[w], claim[w])
    BY <1>0, Hands DEF AddSource, Goto, ItemInv, HandSound
  <2>2. QED
    BY <1>0, <1>2, <2>1 DEF HandSound, Stored, Sourced
<1>5. \A v \in Workers \ {w} : HandSound(v)'
  BY <1>0, <1>3, OthersUndisturbed, HandKeeps
<1>6. QED
  BY <1>0, <1>3, <1>4, <1>5, ItemKeeps DEF ItemInv

\* MarkItem keeps ItemInv: an item becomes done only in the hands of a worker
\* that saw its document and its index row.
LEMMA MarkItemInv ==
  ASSUME HoldInv, ItemInv, NEW w \in Workers, MarkItem(w)
  PROVE  ItemInv'
<1>0. /\ pc[w] \in Holding /\ pc[w] = "mark" /\ WorkerStep(w)
      /\ UNCHANGED <<docs, track, indexed, cur>>
  BY DEF MarkItem, Holding, WorkerStep
<1>1. cur[w] \in Jobs /\ claim[w] \in Items /\ pc'[w] = "drain" /\ Monotone
  BY <1>0, Hands DEF MarkItem, Goto, Monotone
<1>2. ASSUME NEW j \in Jobs, NEW i \in Items, item'[j][i] = "done", item[j][i] # "done"
      PROVE  j = cur[w] /\ i = claim[w] /\ ~runErr[w]
  <2>1. \/ item' = item
        \/ item' = [item EXCEPT ![cur[w]][claim[w]] = IF ~runErr[w] THEN "done" ELSE "failed"]
    BY DEF MarkItem, MarkItemDoneAndProgress
  <2>2. item \in [Jobs -> [Items -> ItemStatus]]
    BY <1>0, Hands
  <2>3. QED
    BY <1>1, <1>2, <2>1, <2>2
<1>3. ASSUME NEW j \in Jobs, NEW i \in Items PROVE ItemSound(j, i)'
  <2>1. CASE item'[j][i] = "done" => item[j][i] = "done"
    BY <1>0, <1>1, <2>1, ItemKeeps
  <2>2. CASE item'[j][i] = "done" /\ item[j][i] # "done"
    <3>1. Stored(j, i) /\ Sourced(j, i)
      BY <1>0, <1>2, <2>2 DEF ItemInv, HandSound
    <3>2. QED
      BY <1>0, <3>1 DEF ItemInv, ItemSound, Stored, Sourced
  <2>3. QED
    BY <2>1, <2>2
<1>4. \A v \in Workers : HandSound(v)'
  BY <1>0, <1>1, OthersUndisturbed, HandKeeps DEF HandSound
<1>5. QED
  BY <1>3, <1>4 DEF ItemInv

\* ItemInv is inductive relative to HoldInv.
LEMMA ItemInvStep ==
  ASSUME HoldInv, HoldInv', ItemInv, [Next]_vars
  PROVE  ItemInv'
<1>0. ItemsAdvance
  BY ItemsAdvanceStep
<1>1. CASE OutsideStep
  BY <1>0, <1>1, OutsideItemInv
<1>2. ASSUME NEW w \in Workers, WorkerStep(w) \/ WorkerExit(w) PROVE ItemInv'
  <2>1. CASE \/ Receive(w) \/ WorkerExit(w) \/ GetJob(w) \/ StartJob(w) \/ DrainStop(w)
             \/ FinalGetJob(w) \/ FinishJob(w)
    <3>1. UNCHANGED <<docs, track, indexed, item>>
      BY <2>1 DEF Receive, WorkerExit, GetJob, StartJob, DrainStop, FinalGetJob, FinishJob
    <3>2. pc'[w] \notin {"track", "source", "mark"}
      BY <2>1 DEF Receive, WorkerExit, GetJob, StartJob, DrainStop, FinalGetJob, FinishJob,
                  Goto, Return, HoldInv, TypeOK
    <3>3. QED
      BY <1>2, <3>1, <3>2, RestItemInv
  <2>2. QED
    BY <1>2, <2>1, ClaimItemInv, CreateItemInv, TrackItemInv, SourceItemInv, MarkItemInv
    DEF WorkerStep
<1>3. QED
  BY <1>1, <1>2, StepSplit

\* ItemInv holds in every reachable state.
LEMMA ItemInvHolds == Spec => []ItemInv
<1>1. Init => ItemInv
  BY DEF Init, ItemInv, ItemSound, HandSound
<1>2. QED
  BY <1>1, ItemInvStep, HoldInvHolds, PTL DEF Spec

\* An item is done only if LightRAG accepted its text, for any number of
\* workers, restarts and failing store calls.
THEOREM DoneMeansStoredHolds == Spec => []DoneMeansStored
<1>1. ItemInv => DoneMeansStored
  BY DEF ItemInv, ItemSound, Stored, DoneMeansStored
<1>2. QED
  BY <1>1, ItemInvHolds, PTL

\* A done item has its source-index row, or the failure to write it was
\* counted: a retry that skips CreateMemory still repeats sources.Add.
THEOREM DoneMeansIndexedHolds == Spec => []DoneMeansIndexed
<1>1. ItemInv => DoneMeansIndexed
  BY DEF ItemInv, ItemSound, Sourced, DoneMeansIndexed
<1>2. QED
  BY <1>1, ItemInvHolds, PTL

-----------------------------------------------------------------------------
(* What a step does to the row of a job, and to a worker's copy of it.     *)

\* CreateJob: a new row for items that are all pending.
NewRow(j) ==
    /\ ~Created(j)
    /\ job'[j].status = "queued" /\ job'[j].done = 0 /\ job'[j].failed = 0 /\ job'[j].errors = {}
    /\ \A i \in Items : item'[j][i] \in {"pending", "none"}
    /\ \E i \in Items : item'[j][i] = "pending"
    /\ \A k \in Jobs : k # j => job'[k] = job[k] /\ item'[k] = item[k]

\* StartJob and FinishJob write the worker's copy.
StartsRow(w, j) ==
    /\ pc[w] = "start" /\ pc'[w] = "drain" /\ cur[w] = j /\ cur'[w] = j
    /\ job' = [job EXCEPT ![j] = [snap[w] EXCEPT !.status = "running"]]
    /\ item' = item

FinishesRow(w, j) ==
    /\ pc[w] = "finish" /\ pc'[w] = "idle" /\ cur[w] = j
    /\ job' = [job EXCEPT ![j] = snap[w]]
    /\ item' = item

\* MarkItem bumps the row of an item it settles.
BumpsRow(w, j) ==
    /\ pc[w] = "mark" /\ pc'[w] = "drain" /\ cur[w] = j /\ cur'[w] = j
    /\ ~ItemTerminal(item[j][claim[w]])
    /\ item' = [item EXCEPT ![j][claim[w]] = IF ~runErr[w] THEN "done" ELSE "failed"]
    /\ job' = [job EXCEPT ![j] = BumpProgress(job[j], claim[w], ~runErr[w])]

\* Nothing else writes a row or settles an item.
LEMMA RowStep ==
  ASSUME HoldInv, [Next]_vars
  PROVE  \/ /\ UNCHANGED job
            /\ \A j \in Jobs, i \in Items : ItemTerminal(item'[j][i]) => ItemTerminal(item[j][i])
         \/ \E j \in Jobs : NewRow(j)
         \/ \E w \in Workers : cur[w] \in Jobs /\ (StartsRow(w, cur[w]) \/ FinishesRow(w, cur[w]) \/ BumpsRow(w, cur[w]))
<1>1. ASSUME NEW j \in Jobs, NEW S \in SUBSET Items, CreateJob(j, S) PROVE NewRow(j)
  <2>1. /\ job'[j] = [NoRow EXCEPT !.status = "queued", !.total = Cardinality(S)]
        /\ item'[j] = [i \in Items |-> IF i \in S THEN "pending" ELSE "none"]
        /\ \A k \in Jobs : k # j => job'[k] = job[k] /\ item'[k] = item[k]
        /\ ~Created(j) /\ S # {}
    BY <1>1 DEF CreateJob, HoldInv, TypeOK, Created
  <2>2. \E i \in Items : item'[j][i] = "pending"
    BY <2>1
  <2>3. QED
    BY <2>1, <2>2 DEF NewRow, NoRow
<1>2. CASE OutsideStep
  <2>1. CASE \E j \in Jobs, S \in SUBSET Items : CreateJob(j, S)
    BY <1>1, <2>1
  <2>2. CASE \/ \E j \in Jobs : Notify(j)
             \/ \E r \in Resumers : ResumeStep(r) \/ ResumeExit(r)
             \/ Stop \/ Crash \/ Relaunch \/ UNCHANGED vars
    <3>1. UNCHANGED job
      BY <2>2 DEF Notify, ResumeStep, ResumeReset, ResumeList, ResumeSend, ResumeExit, Stop, Crash,
                  Relaunch, Reboot, vars
    <3>2. QED
      BY <1>2, <3>1, OutsideTouches
  <2>3. QED
    BY <1>2, <2>1, <2>2 DEF OutsideStep
<1>3. ASSUME NEW w \in Workers, WorkerStep(w) \/ WorkerExit(w)
      PROVE  \/ /\ UNCHANGED job
                /\ \A j \in Jobs, i \in Items : ItemTerminal(item'[j][i]) => ItemTerminal(item[j][i])
             \/ /\ cur[w] \in Jobs
                /\ StartsRow(w, cur[w]) \/ FinishesRow(w, cur[w]) \/ BumpsRow(w, cur[w])
  <2>1. CASE UNCHANGED <<job, item>>
    BY <2>1
  <2>2. CASE \/ Receive(w) \/ WorkerExit(w) \/ GetJob(w) \/ DrainStop(w) \/ CreateMemory(w)
             \/ SetItemTrackID(w) \/ AddSource(w) \/ FinalGetJob(w)
    BY <2>1, <2>2 DEF Receive, WorkerExit, GetJob, DrainStop, CreateMemory, SetItemTrackID,
                      AddSource, FinalGetJob
  <2>3. CASE ClaimNextItem(w)
    <3>1. UNCHANGED job /\ cur[w] \in Jobs /\ item \in [Jobs -> [Items -> ItemStatus]]
      BY <2>3 DEF ClaimNextItem, HoldInv, WorkersHold, TypeOK
    <3>2. ASSUME NEW k \in Items, item' = [item EXCEPT ![cur[w]][k] = "running"]
          PROVE  \A j \in Jobs, i \in Items : ItemTerminal(item'[j][i]) => ItemTerminal(item[j][i])
      BY <3>1, <3>2 DEF ItemTerminal
    <3>3. item' = item \/ \E k \in Items : item' = [item EXCEPT ![cur[w]][k] = "running"]
      BY <2>3 DEF ClaimNextItem, HoldItem, ItemsIn
    <3>4. QED
      BY <3>1, <3>2, <3>3
  <2>4. CASE StartJob(w)
    <3>1. /\ cur[w] \in Jobs /\ pc[w] = "start" /\ pc'[w] = "drain" /\ cur' = cur /\ item' = item
          /\ job' = job \/ job' = [job EXCEPT ![cur[w]] = [snap[w] EXCEPT !.status = "running"]]
      BY <2>4 DEF StartJob, HoldInv, WorkersHold, TypeOK, Goto, UpdateJob
    <3>2. QED
      BY <2>1, <3>1 DEF StartsRow
  <2>5. CASE FinishJob(w)
    <3>1. /\ cur[w] \in Jobs /\ pc[w] = "finish" /\ pc'[w] = "idle" /\ item' = item
          /\ job' = job \/ job' = [job EXCEPT ![cur[w]] = snap[w]]
      BY <2>5 DEF FinishJob, HoldInv, WorkersHold, TypeOK, Goto, Return, UpdateJob
    <3>2. QED
      BY <2>1, <3>1 DEF FinishesRow
  <2>6. CASE MarkItem(w)
    <3>1. cur[w] \in Jobs /\ pc[w] = "mark" /\ pc'[w] = "drain" /\ cur' = cur
      BY <2>6 DEF MarkItem, HoldInv, WorkersHold, TypeOK, Goto
    <3>2. \/ UNCHANGED <<item, job>>
          \/ /\ ~ItemTerminal(item[cur[w]][claim[w]])
             /\ item' = [item EXCEPT ![cur[w]][claim[w]] = IF ~runErr[w] THEN "done" ELSE "failed"]
             /\ job' = [job EXCEPT ![cur[w]] = BumpProgress(job[cur[w]], claim[w], ~runErr[w])]
      BY <2>6 DEF MarkItem, MarkItemDoneAndProgress
    <3>3. QED
      BY <2>1, <3>1, <3>2 DEF BumpsRow
  <2>7. QED
    BY <1>3, <2>2, <2>3, <2>4, <2>5, <2>6 DEF WorkerStep
<1>4. QED
  BY <1>2, <1>3, StepSplit

\* GetJob and FinalGetJob take a copy; a verdict is made of a row that
\* accounts for every item.
Reads(w) ==
    /\ pc[w] = "get" /\ pc'[w] = "start" /\ cur[w] \in Jobs
    /\ job[cur[w]].status = "queued" /\ snap'[w] = job[cur[w]]
    /\ Record(w, "start", PastGet)

Judges(w) ==
    /\ pc[w] = "final" /\ pc'[w] = "finish" /\ cur[w] \in Jobs
    /\ ~Terminal(job[cur[w]].status) /\ Accounted(job[cur[w]])
    /\ snap'[w] = [job[cur[w]] EXCEPT !.status = Verdict(job[cur[w]])]
    /\ finalized' = [finalized EXCEPT ![cur[w]] = UpTo2(finalized[cur[w]])]
    /\ Record(w, "finish", {"finish"})

\* Where a worker's copy comes from.
LEMMA CopyStep ==
  ASSUME HoldInv, [Next]_vars, NEW v \in Workers, pc'[v] \in {"start", "finish"}
  PROVE  \/ Undisturbed(v)
         \/ (Reads(v) \/ Judges(v)) /\ UNCHANGED <<job, item, cur>>
<1>1. CASE OutsideStep
  BY <1>1, OutsideTouches
<1>2. ASSUME NEW w \in Workers, WorkerStep(w) \/ WorkerExit(w), w # v PROVE Undisturbed(v)
  BY <1>2, OthersUndisturbed
<1>3. CASE WorkerStep(v) \/ WorkerExit(v)
  <2>1. CASE GetJob(v)
    <3>1. pc'[v] = "start"
      BY <2>1 DEF GetJob, Goto, Return, HoldInv, TypeOK
    <3>2. /\ pc[v] = "get" /\ cur[v] \in Jobs /\ UNCHANGED <<job, item, cur>>
          /\ job[cur[v]].status = "queued" /\ snap'[v] = job[cur[v]]
          /\ Record(v, "start", PastGet)
      BY <2>1, <3>1 DEF GetJob, Goto, Return, HoldInv, TypeOK, WorkersHold
    <3>3. QED
      BY <3>1, <3>2 DEF Reads
  <2>2. CASE FinalGetJob(v)
    <3>1. pc[v] = "final" /\ cur[v] \in Jobs /\ UNCHANGED <<job, item>> /\ pc'[v] # "start" /\ ~Return(v)
      BY <2>2 DEF FinalGetJob, Goto, Return, HoldInv, TypeOK, WorkersHold
    <3>2. QED
      BY <2>2, <3>1 DEF FinalGetJob, Goto, HoldInv, TypeOK, Judges
  <2>3. CASE \/ Receive(v) \/ WorkerExit(v) \/ StartJob(v) \/ ClaimNextItem(v) \/ DrainStop(v)
             \/ CreateMemory(v) \/ SetItemTrackID(v) \/ AddSource(v) \/ MarkItem(v) \/ FinishJob(v)
    <3>1. pc'[v] \notin {"start", "finish"}
      BY <2>3 DEF Receive, WorkerExit, StartJob, ClaimNextItem, HoldItem, DrainStop, CreateMemory,
                  SetItemTrackID, AddSource, MarkItem, FinishJob, Goto, Return, HoldInv, TypeOK
    <3>2. QED
      BY <3>1
  <2>4. QED
    BY <1>3, <2>1, <2>2, <2>3 DEF WorkerStep
<1>4. QED
  BY <1>1, <1>2, <1>3, StepSplit

-----------------------------------------------------------------------------
(* The error list.  f stands for the statuses of one job's items.          *)

Explains(f, row) ==
    /\ row.errors \subseteq Having(f, "failed")
    /\ Cardinality(row.errors) = IF row.failed < MaxErrors THEN row.failed ELSE MaxErrors

\* A row explains its failures while the items advance.
LEMMA ExplainsForward ==
  ASSUME NEW f, NEW g, Forward(f, g), NEW row, Explains(f, row)
  PROVE  Explains(g, row)
<1>1. Having(f, "failed") \subseteq Having(g, "failed")
  BY DEF Forward, Having, ItemTerminal
<1>2. QED
  BY <1>1 DEF Explains

\* One more failure adds its item to the list, or finds the list full.
LEMMA ExplainsBump ==
  ASSUME NEW f \in [Items -> ItemStatus], NEW i \in Items, ~ItemTerminal(f[i]),
         NEW ok \in BOOLEAN, NEW row \in JobRow, Explains(f, row)
  PROVE  Explains([f EXCEPT ![i] = IF ok THEN "done" ELSE "failed"], BumpProgress(row, i, ok))
<1>1. CASE ok
  <2>1. Having(f, "failed") \subseteq Having([f EXCEPT ![i] = "done"], "failed")
    BY DEF Having, ItemTerminal
  <2>2. BumpProgress(row, i, ok).failed = row.failed /\ BumpProgress(row, i, ok).errors = row.errors
    BY <1>1 DEF BumpProgress, JobRow
  <2>3. QED
    BY <1>1, <2>1, <2>2 DEF Explains
<1>2. CASE ~ok
  <2> DEFINE E == IF Cardinality(row.errors) < MaxErrors THEN row.errors \cup {i} ELSE row.errors
             g == [f EXCEPT ![i] = "failed"]
  <2>1. BumpProgress(row, i, ok).failed = row.failed + 1 /\ BumpProgress(row, i, ok).errors = E
    BY <1>2 DEF BumpProgress, JobRow
  <2>2. Having(f, "failed") \cup {i} \subseteq Having(g, "failed") /\ i \notin Having(f, "failed")
    BY DEF Having, ItemTerminal
  <2>3. IsFiniteSet(row.errors) /\ Cardinality(row.errors) \in Nat /\ i \notin row.errors
    BY <2>2, ConstantsAssumption, FS_Subset, FS_CardinalityType DEF JobRow, Explains
  <2>4. Cardinality(row.errors \cup {i}) = Cardinality(row.errors) + 1
    BY <2>3, FS_AddElement
  <2>5. row.failed \in Nat /\ MaxErrors \in Nat
    BY ConstantsAssumption DEF JobRow
  <2> HIDE DEF g
  <2>6. E \subseteq Having(g, "failed")
    BY <2>2 DEF Explains
  <2>7. Cardinality(E) = IF row.failed + 1 < MaxErrors THEN row.failed + 1 ELSE MaxErrors
    BY <2>3, <2>4, <2>5 DEF Explains
  <2> HIDE DEF E
  <2>8. Explains(g, BumpProgress(row, i, ok))
    BY <2>1, <2>6, <2>7 DEF Explains
  <2>9. QED
    BY <1>2, <2>8 DEF g
<1>3. QED
  BY <1>1, <1>2

\* A row in the store, or in the hands of a worker that will write it.
ErrInv ==
    /\ \A j \in Jobs : Explains(item[j], job[j])
    /\ \A w \in Workers : pc[w] \in {"start", "finish"} => Explains(item[cur[w]], snap[w])

\* A row without errors and failures explains itself.
LEMMA ExplainsNothing ==
  ASSUME NEW f, NEW row, row.errors = {}, row.failed = 0
  PROVE  Explains(f, row)
  BY ConstantsAssumption, FS_EmptySet DEF Explains

\* The items of a stored job move forward in every step.
LEMMA ForwardStep ==
  ASSUME HoldInv, [Next]_vars, NEW j \in Jobs, Created(j)
  PROVE  Forward(item[j], item'[j])
  BY ItemsAdvanceStep DEF ItemsAdvance, Forward

\* ErrInv is inductive relative to HoldInv.
LEMMA ErrInvStep ==
  ASSUME HoldInv, HoldInv', ErrInv, [Next]_vars
  PROVE  ErrInv'
<1>1. ASSUME NEW j \in Jobs, job'[j] = job[j] PROVE Explains(item'[j], job'[j])
  <2>1. CASE Created(j)
    BY <1>1, <2>1, ForwardStep, ExplainsForward DEF ErrInv
  <2>2. CASE ~Created(j)
    <3>1. job'[j].errors = {} /\ job'[j].failed = 0
      BY <1>1, <2>2 DEF HoldInv, AbsentEmpty, NoRow
    <3>2. QED
      BY <3>1, ExplainsNothing
  <2>3. QED
    BY <2>1, <2>2
<1>2. ASSUME NEW j \in Jobs PROVE Explains(item'[j], job'[j])
  <2>1. CASE UNCHANGED job
    BY <1>1, <2>1
  <2>2. ASSUME NEW k \in Jobs, NewRow(k) PROVE Explains(item'[j], job'[j])
    <3>1. CASE j = k
      BY <2>2, <3>1, ExplainsNothing DEF NewRow
    <3>2. CASE j # k
      BY <1>1, <2>2, <3>2 DEF NewRow
    <3>3. QED
      BY <3>1, <3>2
  <2>3. ASSUME NEW w \in Workers, cur[w] \in Jobs, StartsRow(w, cur[w]) PROVE Explains(item'[j], job'[j])
    <3>1. CASE j = cur[w]
      <4>1. /\ job'[j].errors = snap[w].errors /\ job'[j].failed = snap[w].failed
            /\ item'[j] = item[j] /\ pc[w] = "start"
        BY <2>3, <3>1 DEF StartsRow, HoldInv, TypeOK, JobRow
      <4>2. Explains(item[j], snap[w])
        BY <3>1, <4>1 DEF ErrInv
      <4>3. QED
        BY <4>1, <4>2 DEF Explains
    <3>2. CASE j # cur[w]
      BY <1>1, <2>3, <3>2 DEF StartsRow, HoldInv, TypeOK
    <3>3. QED
      BY <3>1, <3>2
  <2>4. ASSUME NEW w \in Workers, cur[w] \in Jobs, FinishesRow(w, cur[w]) PROVE Explains(item'[j], job'[j])
    <3>1. CASE j = cur[w]
      BY <2>4, <3>1 DEF FinishesRow, HoldInv, TypeOK, ErrInv
    <3>2. CASE j # cur[w]
      BY <1>1, <2>4, <3>2 DEF FinishesRow, HoldInv, TypeOK
    <3>3. QED
      BY <3>1, <3>2
  <2>5. ASSUME NEW w \in Workers, cur[w] \in Jobs, BumpsRow(w, cur[w]) PROVE Explains(item'[j], job'[j])
    <3>1. CASE j = cur[w]
      <4>1. claim[w] \in Items /\ item[j] \in [Items -> ItemStatus] /\ job[j] \in JobRow
        BY <2>5, <3>1 DEF BumpsRow, HoldInv, TypeOK, WorkersHold, Holding
      <4>2. /\ job'[j] = BumpProgress(job[j], claim[w], ~runErr[w])
            /\ item'[j] = [item[j] EXCEPT ![claim[w]] = IF ~runErr[w] THEN "done" ELSE "failed"]
            /\ ~ItemTerminal(item[j][claim[w]])
        BY <2>5, <3>1 DEF BumpsRow, HoldInv, TypeOK
      <4>3. Explains(item[j], job[j])
        BY DEF ErrInv
      <4> DEFINE ok == ~runErr[w]
                 n == claim[w]
      <4>4. ok \in BOOLEAN
        OBVIOUS
      <4> HIDE DEF ok, n
      <4>5. Explains([item[j] EXCEPT ![n] = IF ok THEN "done" ELSE "failed"], BumpProgress(job[j], n, ok))
        BY <4>1, <4>2, <4>3, <4>4, ExplainsBump DEF n
      <4>6. QED
        BY <4>2, <4>5 DEF ok, n
    <3>2. CASE j # cur[w]
      BY <1>1, <2>5, <3>2 DEF BumpsRow, HoldInv, TypeOK
    <3>3. QED
      BY <3>1, <3>2
  <2>6. QED
    BY <2>1, <2>2, <2>3, <2>4, <2>5, RowStep
<1>3. ASSUME NEW v \in Workers, pc'[v] \in {"start", "finish"} PROVE Explains(item'[cur'[v]], snap'[v])
  <2>1. CASE Undisturbed(v)
    <3>1. cur[v] \in Jobs /\ Created(cur[v]) /\ Explains(item[cur[v]], snap[v])
      BY <1>3, <2>1 DEF Undisturbed, HoldInv, WorkersHold, ErrInv
    <3>2. QED
      BY <2>1, <3>1, ForwardStep, ExplainsForward DEF Undisturbed
  <2>2. CASE Reads(v) /\ UNCHANGED <<job, item, cur>>
    BY <2>2 DEF Reads, ErrInv
  <2>3. CASE Judges(v) /\ UNCHANGED <<job, item, cur>>
    <3>1. /\ snap'[v].errors = job[cur[v]].errors /\ snap'[v].failed = job[cur[v]].failed
          /\ cur[v] \in Jobs
      BY <2>3 DEF Judges, HoldInv, TypeOK, JobRow
    <3>2. QED
      BY <2>3, <3>1 DEF ErrInv, Explains
  <2>4. QED
    BY <1>3, <2>1, <2>2, <2>3, CopyStep
<1>4. QED
  BY <1>2, <1>3 DEF ErrInv

\* The error list of a job names only failed items, one for each failure the
\* job counts until the list is full, although UpdateJob writes back lists that
\* were read earlier.
THEOREM ErrorsExplainFailuresHolds == Spec => []ErrorsExplainFailures
<1>1. Init => ErrInv
  <2>1. Init => \A j \in Jobs : job[j].errors = {} /\ job[j].failed = 0
    BY DEF Init, NoRow
  <2>2. Init => \A w \in Workers : pc[w] = "idle"
    BY DEF Init
  <2>3. QED
    BY <2>1, <2>2, ExplainsNothing DEF ErrInv
<1>2. ErrInv => ErrorsExplainFailures
  BY DEF ErrInv, Explains, ErrorsExplainFailures, Having, ItemsIn
<1>3. QED
  BY <1>1, <1>2, ErrInvStep, HoldInvHolds, PTL DEF Spec

-----------------------------------------------------------------------------
(* A graceful stop.                                                        *)

\* While nothing has failed, a running item is in some worker's hands.
InHand(j, i) == \E w \in Workers : pc[w] \in Holding /\ cur[w] = j /\ claim[w] = i

RunningHeld ==
    crashes = 0 /\ faults = 0 => \A j \in Jobs, i \in Items : item[j][i] = "running" => InHand(j, i)

\* Failures and restarts are never forgotten.
LEMMA BudgetsGrow ==
  ASSUME HoldInv, [Next]_vars, crashes' = 0, faults' = 0
  PROVE  crashes = 0 /\ faults = 0 /\ ~Crash /\ ~Relaunch
<1>1. crashes \in Nat /\ faults \in Nat
  BY ConstantsAssumption DEF HoldInv, TypeOK
<1>2. crashes' = crashes \/ crashes' = crashes + 1
  BY DEF Next, WorkerStep, ResumeStep, vars, CreateJob, Notify, ResumeReset, ResumeList, ResumeSend,
         ResumeExit, Receive, WorkerExit, GetJob, StartJob, ClaimNextItem, DrainStop, CreateMemory,
         SetItemTrackID, AddSource, MarkItem, FinalGetJob, FinishJob, Stop, Crash, Relaunch, Reboot
<1>3. faults' = faults \/ faults' = faults + 1
  BY DEF Next, WorkerStep, ResumeStep, vars, CreateJob, Notify, ResumeReset, ResumeList, ResumeSend,
         ResumeExit, Receive, WorkerExit, GetJob, StartJob, ClaimNextItem, DrainStop, CreateMemory,
         SetItemTrackID, AddSource, MarkItem, FinalGetJob, FinishJob, Stop, Crash, Relaunch, Reboot
<1>4. ~Crash /\ ~Relaunch
  BY <1>1 DEF Crash, Relaunch, Reboot
<1>5. QED
  BY <1>1, <1>2, <1>3, <1>4

\* An item that a step leaves running stays in the hands it is in.
LEMMA StaysInHand ==
  ASSUME HoldInv, NEW w \in Workers, WorkerStep(w) \/ WorkerExit(w), NEW j \in Jobs, NEW i \in Items,
         InHand(j, i),
         \/ pc[w] \notin Holding
         \/ pc'[w] \in Holding /\ cur'[w] = cur[w] /\ claim'[w] = claim[w]
         \/ cur[w] # j \/ claim[w] # i
  PROVE  InHand(j, i)'
<1>1. PICK h \in Workers : pc[h] \in Holding /\ cur[h] = j /\ claim[h] = i
  BY DEF InHand
<1>2. CASE h # w
  BY <1>1, <1>2, OthersUndisturbed DEF Undisturbed, InHand
<1>3. CASE h = w
  BY <1>1, <1>3 DEF InHand
<1>4. QED
  BY <1>2, <1>3

\* RunningHeld is inductive relative to HoldInv.
LEMMA RunningHeldStep ==
  ASSUME HoldInv, RunningHeld, [Next]_vars
  PROVE  RunningHeld'
<1> SUFFICES ASSUME crashes' = 0, faults' = 0, NEW j \in Jobs, NEW i \in Items, item'[j][i] = "running"
             PROVE  InHand(j, i)'
  BY DEF RunningHeld
<1>0. /\ ~Crash /\ ~Relaunch /\ faults = 0
      /\ \A k \in Jobs, n \in Items : item[k][n] = "running" => InHand(k, n)
  BY BudgetsGrow DEF RunningHeld
<1>1. CASE OutsideStep
  <2>1. UNCHANGED worker
    BY <1>0, <1>1 DEF OutsideStep, CreateJob, Notify, ResumeStep, ResumeReset, ResumeList, ResumeSend,
                      ResumeExit, Stop, vars
  <2>2. item[j][i] = "running"
    <3>1. CASE item' = item
      BY <3>1
    <3>2. ASSUME NEW k \in Jobs, NEW S \in SUBSET Items, CreateJob(k, S) PROVE item[j][i] = "running"
      BY <3>2 DEF CreateJob, HoldInv, TypeOK
    <3>3. ASSUME NEW r \in Resumers, ResumeReset(r) PROVE item[j][i] = "running"
      BY <3>3 DEF ResumeReset, ResetRunningItems
    <3>4. QED
      BY <1>0, <1>1, <3>1, <3>2, <3>3 DEF OutsideStep, Notify, ResumeStep, ResumeList, ResumeSend,
                                           ResumeExit, Stop, vars
  <2>3. InHand(j, i)
    BY <1>0, <2>2
  <2>4. QED
    BY <2>1, <2>3 DEF InHand
<1>2. ASSUME NEW w \in Workers, WorkerStep(w) \/ WorkerExit(w) PROVE InHand(j, i)'
  <2>1. CASE \/ Receive(w) \/ WorkerExit(w) \/ GetJob(w) \/ StartJob(w) \/ DrainStop(w)
             \/ FinalGetJob(w) \/ FinishJob(w)
    <3>1. item' = item /\ pc[w] \notin Holding
      BY <2>1 DEF Receive, WorkerExit, GetJob, StartJob, DrainStop, FinalGetJob, FinishJob, Holding
    <3>2. QED
      BY <1>0, <1>2, <3>1, StaysInHand
  <2>2. CASE CreateMemory(w) \/ SetItemTrackID(w) \/ AddSource(w)
    <3>1. item' = item /\ pc'[w] \in Holding /\ cur'[w] = cur[w] /\ claim'[w] = claim[w]
      BY <2>2 DEF CreateMemory, SetItemTrackID, AddSource, Holding, Goto, HoldInv, TypeOK
    <3>2. QED
      BY <1>0, <1>2, <3>1, StaysInHand
  <2>3. CASE ClaimNextItem(w)
    <3>1. pc[w] \notin Holding /\ cur' = cur /\ cur[w] \in Jobs
      BY <2>3 DEF ClaimNextItem, Holding, HoldInv, WorkersHold
    <3>2. item' = item \/ \E k \in Items : HoldItem(w, k)
      BY <1>0, <2>3 DEF ClaimNextItem, ItemsIn
    <3>3. CASE item' = item
      BY <1>0, <1>2, <3>1, <3>3, StaysInHand
    <3>4. ASSUME NEW k \in Items, HoldItem(w, k) PROVE InHand(j, i)'
      <4>1. item' = [item EXCEPT ![cur[w]][k] = "running"] /\ claim'[w] = k /\ pc'[w] \in Holding
        BY <3>4 DEF HoldItem, Goto, HoldInv, TypeOK, Holding
      <4>2. CASE j = cur[w] /\ i = k
        BY <3>1, <4>1, <4>2 DEF InHand
      <4>3. CASE j # cur[w] \/ i # k
        <5>1. item'[j][i] = item[j][i]
          BY <3>1, <4>1, <4>3 DEF HoldInv, TypeOK
        <5>2. QED
          BY <1>0, <1>2, <3>1, <5>1, StaysInHand
      <4>4. QED
        BY <4>2, <4>3
    <3>5. QED
      BY <3>2, <3>3, <3>4
  <2>4. CASE MarkItem(w)
    <3>1. cur[w] \in Jobs /\ claim[w] \in Items /\ item \in [Jobs -> [Items -> ItemStatus]]
      BY <2>4 DEF MarkItem, Holding, HoldInv, WorkersHold, TypeOK
    <3>2. \/ ItemTerminal(item[cur[w]][claim[w]]) /\ item' = item
          \/ item' = [item EXCEPT ![cur[w]][claim[w]] = IF ~runErr[w] THEN "done" ELSE "failed"]
      BY <1>0, <2>4 DEF MarkItem, MarkItemDoneAndProgress
    <3>3. (cur[w] # j \/ claim[w] # i) /\ item[j][i] = "running"
      BY <3>1, <3>2 DEF ItemTerminal
    <3>4. QED
      BY <1>0, <1>2, <3>3, StaysInHand
  <2>5. QED
    BY <1>2, <2>1, <2>2, <2>3, <2>4 DEF WorkerStep
<1>3. QED
  BY <1>1, <1>2, StepSplit

\* A graceful Stop of a process that no store call failed leaves no item
\* running when every goroutine has exited, for any number of workers.
THEOREM GracefulStopHolds == Spec => []GracefulStopLeavesNoOrphan
<1>1. Init => RunningHeld
  BY DEF Init, RunningHeld
<1>2. RunningHeld => GracefulStopLeavesNoOrphan
  <2> SUFFICES ASSUME RunningHeld, Stopped, crashes = 0, faults = 0, NEW j \in Jobs
               PROVE  ItemsIn(j, "running") = {}
    BY DEF GracefulStopLeavesNoOrphan
  <2>1. \A i \in Items : ~InHand(j, i)
    BY DEF InHand, Stopped, Holding
  <2>2. QED
    BY <2>1 DEF RunningHeld, ItemsIn
<1>3. QED
  BY <1>1, <1>2, RunningHeldStep, HoldInvHolds, PTL DEF Spec

-----------------------------------------------------------------------------
(* One worker (WORKER_POOL_SIZE=1): exact counters.                        *)

Exact(f, row) ==
    /\ row.done = Cardinality(Having(f, "done"))
    /\ row.failed = Cardinality(Having(f, "failed"))

Busy == {"start", "drain", "create", "track", "source", "mark", "finish"}

\* The worker's copy of a row is the stored row but for its status, and the job
\* it runs is unfinished.
AloneInv(w) ==
    /\ \A j \in Jobs : Exact(item[j], job[j])
    /\ pc[w] \in Busy => Unfinished(cur[w])
    /\ pc[w] = "start" => snap[w] = job[cur[w]]
    /\ pc[w] = "finish" =>
         snap[w] = [job[cur[w]] EXCEPT !.status = Verdict(job[cur[w]])] /\ Accounted(job[cur[w]])

\* A step that settles no item of a job leaves its outcomes alone.
LEMMA SameOutcomes ==
  ASSUME HoldInv, [Next]_vars, NEW j \in Jobs,
         \A i \in Items : ItemTerminal(item'[j][i]) => ItemTerminal(item[j][i])
  PROVE  /\ Having(item'[j], "done") = Having(item[j], "done")
         /\ Having(item'[j], "failed") = Having(item[j], "failed")
<1>1. ASSUME NEW i \in Items, ItemTerminal(item[j][i]) PROVE item'[j][i] = item[j][i]
  <2>1. Created(j)
    BY <1>1 DEF HoldInv, AbsentEmpty, ItemTerminal
  <2>2. QED
    BY <1>1, <2>1, ItemsAdvanceStep DEF ItemsAdvance
<1>2. ASSUME NEW i \in Items, ItemTerminal(item'[j][i]) PROVE item'[j][i] = item[j][i]
  BY <1>1, <1>2
<1>3. QED
  BY <1>1, <1>2 DEF Having, ItemTerminal

\* Settling one item and bumping its row keeps the row exact.
LEMMA ExactBump ==
  ASSUME NEW f \in [Items -> ItemStatus], NEW i \in Items, ~ItemTerminal(f[i]),
         NEW ok \in BOOLEAN, NEW row \in JobRow, Exact(f, row)
  PROVE  Exact([f EXCEPT ![i] = IF ok THEN "done" ELSE "failed"], BumpProgress(row, i, ok))
<1> DEFINE st == IF ok THEN "done" ELSE "failed"
           ot == IF ok THEN "failed" ELSE "done"
           g  == [f EXCEPT ![i] = st]
<1>1. Having(g, st) = Having(f, st) \cup {i} /\ i \notin Having(f, st) /\ Having(g, ot) = Having(f, ot)
  BY DEF Having, ItemTerminal
<1>2. Cardinality(Having(g, st)) = Cardinality(Having(f, st)) + 1
  BY <1>1, CountsAreFinite, FS_AddElement
<1>3. /\ BumpProgress(row, i, ok).done = IF ok THEN row.done + 1 ELSE row.done
      /\ BumpProgress(row, i, ok).failed = IF ok THEN row.failed ELSE row.failed + 1
  BY BumpShape
<1> HIDE DEF g
<1>4. Exact(g, BumpProgress(row, i, ok))
  BY <1>1, <1>2, <1>3 DEF Exact
<1>5. QED
  BY <1>4 DEF g

\* What MarkItem writes, for the job it writes to and for the others.
LEMMA BumpEffect ==
  ASSUME HoldInv, NEW w \in Workers, cur[w] \in Jobs, BumpsRow(w, cur[w])
  PROVE  /\ claim[w] \in Items /\ item[cur[w]][claim[w]] \notin {"none", "done", "failed"}
         /\ Exact(item[cur[w]], job[cur[w]]) => Exact(item'[cur[w]], job'[cur[w]])
         /\ job'[cur[w]].status = job[cur[w]].status
         /\ \A j \in Jobs : j # cur[w] => job'[j] = job[j] /\ item'[j] = item[j]
<1> DEFINE c == cur[w]
           n == claim[w]
           ok == ~runErr[w]
<1>1. /\ n \in Items /\ item[c] \in [Items -> ItemStatus] /\ job[c] \in JobRow /\ ok \in BOOLEAN
      /\ item[c][n] \notin {"none", "done", "failed"} /\ ~ItemTerminal(item[c][n])
  BY DEF BumpsRow, HoldInv, TypeOK, WorkersHold, Holding, ItemTerminal
<1>2. /\ job'[c] = BumpProgress(job[c], n, ok)
      /\ item'[c] = [item[c] EXCEPT ![n] = IF ok THEN "done" ELSE "failed"]
      /\ \A j \in Jobs : j # c => job'[j] = job[j] /\ item'[j] = item[j]
  BY DEF BumpsRow, HoldInv, TypeOK
<1> HIDE DEF c, n, ok
<1>3. Exact(item[c], job[c]) => Exact(item'[c], job'[c])
  BY <1>1, <1>2, ExactBump
<1>4. job'[c].status = job[c].status
  BY <1>1, <1>2, BumpShape
<1>5. QED
  BY <1>1, <1>2, <1>3, <1>4 DEF c, n

\* With one worker every row stays exact.
LEMMA ExactStep ==
  ASSUME NEW w, Workers = {w}, HoldInv, HoldInv', AloneInv(w), [Next]_vars, NEW j \in Jobs
  PROVE  Exact(item'[j], job'[j])
<1>0. Exact(item[j], job[j])
  BY DEF AloneInv
<1>1. ASSUME job'[j].done = job[j].done, job'[j].failed = job[j].failed,
             \A i \in Items : ItemTerminal(item'[j][i]) => ItemTerminal(item[j][i])
      PROVE  Exact(item'[j], job'[j])
  BY <1>0, <1>1, SameOutcomes DEF Exact
<1>2. ASSUME NEW k \in Jobs, NewRow(k) PROVE Exact(item'[j], job'[j])
  <2>1. CASE j = k
    <3>1. Having(item'[j], "done") = {} /\ Having(item'[j], "failed") = {}
      BY <1>2, <2>1 DEF NewRow, Having
    <3>2. QED
      BY <1>2, <2>1, <3>1, FS_EmptySet DEF NewRow, Exact
  <2>2. CASE j # k
    BY <1>1, <1>2, <2>2 DEF NewRow
  <2>3. QED
    BY <2>1, <2>2
<1>3. CASE w \in Workers /\ cur[w] \in Jobs /\ StartsRow(w, cur[w])
  <2>1. /\ item' = item /\ job[cur[w]] \in JobRow /\ snap[w] = job[cur[w]]
        /\ job' = [job EXCEPT ![cur[w]] = [snap[w] EXCEPT !.status = "running"]]
    BY <1>3 DEF StartsRow, AloneInv, HoldInv, TypeOK
  <2>2. job'[j].done = job[j].done /\ job'[j].failed = job[j].failed
    BY <1>3, <2>1 DEF HoldInv, TypeOK, JobRow
  <2>3. QED
    BY <1>1, <2>1, <2>2
<1>4. CASE w \in Workers /\ cur[w] \in Jobs /\ FinishesRow(w, cur[w])
  <2>1. /\ item' = item /\ job[cur[w]] \in JobRow
        /\ job' = [job EXCEPT ![cur[w]] = [job[cur[w]] EXCEPT !.status = Verdict(job[cur[w]])]]
    BY <1>4 DEF FinishesRow, AloneInv, HoldInv, TypeOK
  <2>2. job'[j].done = job[j].done /\ job'[j].failed = job[j].failed
    BY <1>4, <2>1 DEF HoldInv, TypeOK, JobRow
  <2>3. QED
    BY <1>1, <2>1, <2>2
<1>5. CASE w \in Workers /\ cur[w] \in Jobs /\ BumpsRow(w, cur[w])
  <2>1. CASE j = cur[w]
    BY <1>0, <1>5, <2>1, BumpEffect
  <2>2. CASE j # cur[w]
    BY <1>1, <1>5, <2>2, BumpEffect
  <2>3. QED
    BY <2>1, <2>2
<1>6. CASE UNCHANGED job /\ \A k \in Jobs, i \in Items : ItemTerminal(item'[k][i]) => ItemTerminal(item[k][i])
  BY <1>1, <1>6
<1>7. QED
  BY <1>2, <1>3, <1>4, <1>5, <1>6, RowStep

\* With one worker a step outside it leaves the row of its job alone.
LEMMA AloneOutside ==
  ASSUME HoldInv, NEW w \in Workers, OutsideStep, pc[w] \notin {"idle", "exited"}
  PROVE  job'[cur[w]] = job[cur[w]]
<1>1. cur[w] \in Jobs /\ job[cur[w]].status # "absent"
  BY DEF HoldInv, WorkersHold, Created
<1>2. CASE UNCHANGED job
  BY <1>2
<1>3. ASSUME NEW j \in Jobs, NEW S \in SUBSET Items, CreateJob(j, S) PROVE job'[cur[w]] = job[cur[w]]
  BY <1>1, <1>3 DEF CreateJob, HoldInv, TypeOK
<1>4. QED
  BY <1>2, <1>3 DEF OutsideStep, Notify, ResumeStep, ResumeReset, ResumeList, ResumeSend, ResumeExit,
                    Stop, Crash, Relaunch, Reboot, vars

\* The job one worker runs stays unfinished until the worker writes its verdict.
LEMMA BusyStep ==
  ASSUME NEW w, Workers = {w}, HoldInv, HoldInv', AloneInv(w), [Next]_vars, pc'[w] \in Busy
  PROVE  Unfinished(cur[w])' /\ cur'[w] = cur[w]
<1>0. w \in Workers
  OBVIOUS
<1>1. CASE OutsideStep
  <2>1. Undisturbed(w)
    BY <1>0, <1>1, OutsideTouches DEF Busy
  <2>2. job'[cur[w]] = job[cur[w]]
    BY <1>0, <1>1, <2>1, AloneOutside DEF Undisturbed, Busy
  <2>3. QED
    BY <2>1, <2>2 DEF Undisturbed, AloneInv, Unfinished
<1>2. CASE GetJob(w)
  <2>1. pc[w] = "get" /\ UNCHANGED job /\ job \in [Jobs -> JobRow] /\ cur[w] \in Jobs /\ Created(cur[w])
    BY <1>0, <1>2 DEF GetJob, HoldInv, TypeOK, WorkersHold
  <2>2. cur' = cur /\ ~Terminal(job[cur[w]].status)
    BY <1>0, <1>2 DEF GetJob, Return, Goto, HoldInv, TypeOK, Busy, Terminal
  <2>3. QED
    BY <2>1, <2>2 DEF Unfinished, Created, Terminal, JobRow, JobStatus
<1>3. CASE StartJob(w)
  <2>1. cur' = cur /\ Unfinished(cur[w]) /\ cur[w] \in Jobs /\ snap[w] \in JobRow
    BY <1>0, <1>3 DEF StartJob, AloneInv, Busy, HoldInv, TypeOK, WorkersHold
  <2>2. job' = job \/ job' = [job EXCEPT ![cur[w]] = [snap[w] EXCEPT !.status = "running"]]
    BY <1>3 DEF StartJob, UpdateJob
  <2>3. QED
    BY <2>1, <2>2 DEF Unfinished, HoldInv, TypeOK, JobRow
<1>4. CASE ClaimNextItem(w) \/ CreateMemory(w) \/ SetItemTrackID(w) \/ AddSource(w)
  BY <1>4 DEF ClaimNextItem, CreateMemory, SetItemTrackID, AddSource, AloneInv, Busy, Unfinished
<1>5. CASE MarkItem(w)
  <2>1. cur' = cur /\ Unfinished(cur[w]) /\ cur[w] \in Jobs /\ pc[w] = "mark"
    BY <1>0, <1>5 DEF MarkItem, AloneInv, Busy, HoldInv, WorkersHold
  <2>2. UNCHANGED job \/ BumpsRow(w, cur[w])
    BY <1>0, <1>5, <2>1 DEF MarkItem, MarkItemDoneAndProgress, BumpsRow, Goto, HoldInv, TypeOK
  <2>3. job'[cur[w]].status = job[cur[w]].status
    BY <1>0, <2>1, <2>2, BumpEffect
  <2>4. QED
    BY <2>1, <2>3 DEF Unfinished
<1>6. CASE FinalGetJob(w)
  <2>1. pc'[w] = "finish"
    BY <1>0, <1>6 DEF FinalGetJob, Return, Goto, HoldInv, TypeOK, Busy
  <2>2. pc[w] = "final"
    BY <1>6 DEF FinalGetJob
  <2>3. Judges(w) /\ UNCHANGED <<job, item, cur>>
    BY <1>0, <2>1, <2>2, CopyStep DEF Undisturbed, Reads
  <2>4. job[cur[w]] \in JobRow /\ Created(cur[w])
    BY <1>0, <2>2, <2>3 DEF Judges, HoldInv, TypeOK, WorkersHold
  <2>5. QED
    BY <2>3, <2>4 DEF Judges, Unfinished, Created, Terminal, JobRow, JobStatus
<1>7. CASE Receive(w) \/ WorkerExit(w) \/ DrainStop(w) \/ FinishJob(w)
  BY <1>0, <1>7 DEF Receive, WorkerExit, DrainStop, FinishJob, Return, Goto, HoldInv, TypeOK, Busy
<1>8. QED
  BY <1>0, <1>1, <1>2, <1>3, <1>4, <1>5, <1>6, <1>7, StepSplit DEF WorkerStep

\* AloneInv is inductive relative to HoldInv.
LEMMA AloneInvStep ==
  ASSUME NEW w, Workers = {w}, HoldInv, HoldInv', AloneInv(w), [Next]_vars
  PROVE  AloneInv(w)'
<1>0. w \in Workers
  OBVIOUS
<1>1. \A j \in Jobs : Exact(item'[j], job'[j])
  BY ExactStep
<1>2. pc'[w] \in Busy => Unfinished(cur[w])' /\ cur'[w] = cur[w]
  BY BusyStep
<1>3. ASSUME pc'[w] \in {"start", "finish"}
      PROVE  /\ pc'[w] = "start" => snap'[w] = job'[cur'[w]]
             /\ pc'[w] = "finish" => /\ snap'[w] = [job'[cur'[w]] EXCEPT !.status = Verdict(job'[cur'[w]])]
                                     /\ Accounted(job'[cur'[w]])
  <2>1. CASE (Reads(w) \/ Judges(w)) /\ UNCHANGED <<job, item, cur>>
    BY <2>1 DEF Reads, Judges
  <2>2. CASE Undisturbed(w)
    <3>1. cur[w] \in Jobs /\ Created(cur[w]) /\ pc[w] = pc'[w] /\ snap'[w] = snap[w] /\ cur'[w] = cur[w]
      BY <1>0, <1>3, <2>2 DEF Undisturbed, HoldInv, WorkersHold
    <3>2. job'[cur[w]] = job[cur[w]]
      <4>1. CASE UNCHANGED job
        BY <4>1
      <4>2. ASSUME NEW j \in Jobs, NewRow(j) PROVE job'[cur[w]] = job[cur[w]]
        BY <3>1, <4>2 DEF NewRow
      <4>3. CASE StartsRow(w, cur[w]) \/ FinishesRow(w, cur[w]) \/ BumpsRow(w, cur[w])
        BY <3>1, <4>3 DEF StartsRow, FinishesRow, BumpsRow
      <4>4. QED
        BY <1>0, <4>1, <4>2, <4>3, RowStep
    <3>3. QED
      BY <1>3, <3>1, <3>2 DEF AloneInv
  <2>3. QED
    BY <1>0, <1>3, <2>1, <2>2, CopyStep
<1>4. QED
  BY <1>1, <1>2, <1>3 DEF AloneInv, Unfinished

\* AloneInv holds in every reachable state of a pool with one worker.
LEMMA AloneInvHolds ==
  ASSUME NEW w, Workers = {w}
  PROVE  Spec => []AloneInv(w)
<1>1. ASSUME Init PROVE AloneInv(w)
  <2>1. pc[w] = "idle" /\ \A j \in Jobs : job[j] = NoRow /\ \A i \in Items : item[j][i] = "none"
    BY <1>1 DEF Init
  <2>2. ASSUME NEW j \in Jobs PROVE Exact(item[j], job[j])
    <3>1. Having(item[j], "done") = {} /\ Having(item[j], "failed") = {}
      BY <2>1 DEF Having
    <3>2. job[j].done = 0 /\ job[j].failed = 0
      BY <2>1 DEF NoRow
    <3>3. Cardinality(Having(item[j], "done")) = 0 /\ Cardinality(Having(item[j], "failed")) = 0
      BY <3>1, FS_EmptySet
    <3>4. QED
      BY <3>2, <3>3 DEF Exact
  <2>3. QED
    BY <2>1, <2>2 DEF AloneInv, Busy
<1>2. HoldInv /\ HoldInv' /\ AloneInv(w) /\ [Next]_vars => AloneInv(w)'
  BY AloneInvStep
<1>3. QED
  BY <1>1, <1>2, HoldInvHolds, PTL DEF Spec

-----------------------------------------------------------------------------
(* One worker: no text is stored twice, until a store call fails or the    *)
(* process is restarted.                                                   *)

\* Where a document of an item shows: in its TrackID, in its outcome, or in
\* the hands of the worker.
Known(w, j, i) ==
    track[j][i] \/ ItemTerminal(item[j][i]) \/ (pc[w] \in {"track", "mark"} /\ cur[w] = j /\ claim[w] = i)

OnceInv(w) ==
    crashes = 0 /\ faults = 0 =>
        /\ \A j \in Jobs, i \in Items : docs[j][i] <= 1 /\ (docs[j][i] > 0 => Known(w, j, i))
        /\ pc[w] = "create" => docs[cur[w]][claim[w]] = 0

\* OnceInv is inductive relative to HoldInv.
LEMMA OnceInvStep ==
  ASSUME NEW w, Workers = {w}, HoldInv, HoldInv', OnceInv(w), [Next]_vars
  PROVE  OnceInv(w)'
<1> SUFFICES ASSUME crashes' = 0, faults' = 0
             PROVE  /\ \A j \in Jobs, i \in Items : docs'[j][i] <= 1 /\ (docs'[j][i] > 0 => Known(w, j, i)')
                    /\ pc'[w] = "create" => docs'[cur'[w]][claim'[w]] = 0
  BY DEF OnceInv
<1>0. /\ w \in Workers /\ ~Crash /\ ~Relaunch /\ faults = 0 /\ crashes = 0
      /\ \A j \in Jobs, i \in Items : docs[j][i] <= 1 /\ (docs[j][i] > 0 => Known(w, j, i))
      /\ pc[w] = "create" => docs[cur[w]][claim[w]] = 0
  BY BudgetsGrow DEF OnceInv
<1>1. ASSUME NEW j \in Jobs, NEW i \in Items, ItemTerminal(item[j][i]) PROVE ItemTerminal(item'[j][i])
  <2>1. Created(j)
    BY <1>1 DEF HoldInv, AbsentEmpty, ItemTerminal
  <2>2. QED
    BY <1>1, <2>1, ItemsAdvanceStep DEF ItemsAdvance
<1>2. CASE /\ UNCHANGED <<docs, track>>
           /\ Undisturbed(w) \/ (pc[w] \notin {"track", "mark"} /\ pc'[w] # "create")
  BY <1>0, <1>1, <1>2 DEF Known, Undisturbed
<1>3. CASE OutsideStep
  <2>1. UNCHANGED worker
    BY <1>0, <1>3 DEF OutsideStep, CreateJob, Notify, ResumeStep, ResumeReset, ResumeList, ResumeSend,
                      ResumeExit, Stop, vars
  <2>2. UNCHANGED <<docs, track>> /\ Undisturbed(w)
    BY <1>3, <2>1, OutsideTouches DEF Undisturbed
  <2>3. QED
    BY <1>2, <2>2
<1>4. CASE \/ Receive(w) \/ WorkerExit(w) \/ GetJob(w) \/ StartJob(w) \/ DrainStop(w)
           \/ AddSource(w) \/ FinalGetJob(w) \/ FinishJob(w)
  <2>1. UNCHANGED <<docs, track>> /\ pc[w] \notin {"track", "mark"} /\ pc'[w] # "create"
    BY <1>0, <1>4 DEF Receive, WorkerExit, GetJob, StartJob, DrainStop, AddSource, FinalGetJob,
                      FinishJob, Goto, Return, HoldInv, TypeOK
  <2>2. QED
    BY <1>2, <2>1
<1>5. CASE ClaimNextItem(w)
  <2>1. UNCHANGED <<docs, track, cur>> /\ pc[w] = "drain" /\ cur[w] \in Jobs
    BY <1>0, <1>5 DEF ClaimNextItem, HoldInv, WorkersHold
  <2>2. CASE pc'[w] # "create"
    BY <1>2, <2>1, <2>2
  <2>3. CASE pc'[w] = "create"
    <3>1. PICK k \in ItemsIn(cur[w], "pending") : HoldItem(w, k)
      BY <1>0, <1>5, <2>3 DEF ClaimNextItem, Goto, HoldInv, TypeOK
    <3>2. k \in Items /\ item[cur[w]][k] = "pending" /\ claim'[w] = k /\ ~track[cur[w]][k]
      BY <1>0, <2>3, <3>1 DEF ItemsIn, HoldItem, Goto, HoldInv, TypeOK
    <3>3. ~Known(w, cur[w], k)
      BY <2>1, <3>2 DEF Known, ItemTerminal
    <3>4. docs[cur[w]][k] \in 0..2
      BY <2>1, <3>2 DEF HoldInv, TypeOK
    <3>5. docs[cur[w]][k] = 0
      BY <1>0, <2>1, <3>2, <3>3, <3>4
    <3>6. \A j \in Jobs, i \in Items : docs[j][i] > 0 => Known(w, j, i)'
      BY <1>0, <1>1, <2>1 DEF Known
    <3>7. QED
      BY <1>0, <2>1, <3>2, <3>5, <3>6
  <2>4. QED
    BY <2>2, <2>3
<1>6. CASE CreateMemory(w)
  <2>1. /\ pc[w] = "create" /\ UNCHANGED <<track, cur, claim, item>> /\ pc'[w] \in {"track", "mark"}
        /\ cur[w] \in Jobs /\ claim[w] \in Items
    BY <1>0, <1>6 DEF CreateMemory, Goto, HoldInv, TypeOK, WorkersHold, Holding
  <2>2. docs' = docs \/ docs' = [docs EXCEPT ![cur[w]][claim[w]] = UpTo2(docs[cur[w]][claim[w]])]
    BY <1>6 DEF CreateMemory
  <2>3. docs'[cur[w]][claim[w]] <= 1
    BY <1>0, <2>1, <2>2 DEF HoldInv, TypeOK, UpTo2
  <2>4. \A j \in Jobs, i \in Items : j # cur[w] \/ i # claim[w] => docs'[j][i] = docs[j][i]
    <3>1. docs \in [Jobs -> [Items -> 0..2]]
      BY DEF HoldInv, TypeOK
    <3>2. CASE docs' = docs
      BY <3>2
    <3>3. ASSUME NEW x, docs' = [docs EXCEPT ![cur[w]][claim[w]] = x]
          PROVE  \A j \in Jobs, i \in Items : j # cur[w] \/ i # claim[w] => docs'[j][i] = docs[j][i]
      BY <2>1, <3>1, <3>3
    <3>4. QED
      BY <2>2, <3>2, <3>3
  <2>5. \A j \in Jobs, i \in Items : docs'[j][i] > 0 => Known(w, j, i)'
    BY <1>0, <2>1, <2>4 DEF Known
  <2>6. QED
    BY <1>0, <2>1, <2>3, <2>4, <2>5
<1>7. CASE SetItemTrackID(w)
  <2>1. /\ pc[w] = "track" /\ UNCHANGED <<docs, cur, claim, item>> /\ pc'[w] = "source"
        /\ cur[w] \in Jobs /\ claim[w] \in Items /\ track \in [Jobs -> [Items -> BOOLEAN]]
        /\ track' = [track EXCEPT ![cur[w]][claim[w]] = TRUE]
    BY <1>0, <1>7 DEF SetItemTrackID, Goto, HoldInv, TypeOK, WorkersHold, Holding
  <2>2. /\ track'[cur[w]][claim[w]]
        /\ \A j \in Jobs, i \in Items : track[j][i] => track'[j][i]
    BY <2>1, Zenon
  <2>3. \A j \in Jobs, i \in Items : docs'[j][i] > 0 => Known(w, j, i)'
    BY <1>0, <2>1, <2>2 DEF Known
  <2>4. QED
    BY <1>0, <2>1, <2>3
<1>8. CASE MarkItem(w)
  <2>1. /\ pc[w] = "mark" /\ UNCHANGED <<docs, track, cur>> /\ pc'[w] = "drain"
        /\ cur[w] \in Jobs /\ claim[w] \in Items /\ item \in [Jobs -> [Items -> ItemStatus]]
    BY <1>0, <1>8 DEF MarkItem, Goto, HoldInv, TypeOK, WorkersHold, Holding
  <2>2. \/ ItemTerminal(item[cur[w]][claim[w]]) /\ item' = item
        \/ item' = [item EXCEPT ![cur[w]][claim[w]] = IF ~runErr[w] THEN "done" ELSE "failed"]
    BY <1>0, <1>8 DEF MarkItem, MarkItemDoneAndProgress
  <2>3. ItemTerminal(item'[cur[w]][claim[w]])
    BY <2>1, <2>2 DEF ItemTerminal
  <2>4. \A j \in Jobs, i \in Items : docs'[j][i] > 0 => Known(w, j, i)'
    BY <1>0, <1>1, <2>1, <2>3 DEF Known
  <2>5. QED
    BY <1>0, <2>1, <2>4
<1>9. QED
  BY <1>0, <1>3, <1>4, <1>5, <1>6, <1>7, <1>8, StepSplit DEF WorkerStep

\* With one worker LightRAG is given an item's text at most once, until a store
\* call fails or the process is restarted.
THEOREM NoDuplicateInsertHolds ==
  ASSUME NEW w, Workers = {w}
  PROVE  Spec => []NoDuplicateInsert
<1>1. Init => OnceInv(w)
  BY DEF Init, OnceInv
<1>2. HoldInv /\ HoldInv' /\ OnceInv(w) /\ [Next]_vars => OnceInv(w)'
  BY OnceInvStep
<1>3. OnceInv(w) => NoDuplicateInsert
  BY DEF OnceInv, NoDuplicateInsert
<1>4. QED
  BY <1>1, <1>2, <1>3, HoldInvHolds, PTL DEF Spec

-----------------------------------------------------------------------------
(* One worker: every step of the pool is a step of the abstract life cycle *)
(* of a job, or changes neither a status nor an outcome.                   *)

\* What JobLifecycle sees of an item's status.
Abstract(st) == IF st \in {"pending", "running"} THEN "open" ELSE st

Statuses == [j \in Jobs |-> job[j].status]
Outcomes == [j \in Jobs |-> [i \in Items |-> Abstract(item[j][i])]]

\* The initial state is the abstract one.
LEMMA LifecycleInit == Init => Lifecycle!Init
  BY DEF Init, Lifecycle!Init, NoRow

\* A step that writes no row and settles no item is a stuttering step.
LEMMA LifecycleStutter ==
  ASSUME HoldInv, HoldInv', [Next]_vars, UNCHANGED job,
         \A j \in Jobs, i \in Items : ItemTerminal(item'[j][i]) => ItemTerminal(item[j][i])
  PROVE  Statuses' = Statuses /\ Outcomes' = Outcomes
<1>1. ASSUME NEW j \in Jobs, NEW i \in Items PROVE Abstract(item'[j][i]) = Abstract(item[j][i])
  <2>0. item[j][i] \in ItemStatus /\ item'[j][i] \in ItemStatus
    BY DEF HoldInv, TypeOK
  <2>1. CASE Created(j)
    <3>1. /\ item'[j][i] = "none" <=> item[j][i] = "none"
          /\ ItemTerminal(item[j][i]) => item'[j][i] = item[j][i]
      BY <2>1, ItemsAdvanceStep DEF ItemsAdvance
    <3>2. ItemTerminal(item'[j][i]) => ItemTerminal(item[j][i])
      OBVIOUS
    <3>3. QED
      BY <2>0, <3>1, <3>2 DEF Abstract, ItemStatus, ItemTerminal
  <2>2. CASE ~Created(j)
    BY <2>2 DEF HoldInv, AbsentEmpty, Created
  <2>3. QED
    BY <2>1, <2>2
<1>2. QED
  BY <1>1 DEF Statuses, Outcomes

\* CreateJob submits a job.
LEMMA LifecycleSubmit ==
  ASSUME HoldInv, HoldInv', NEW k \in Jobs, NewRow(k)
  PROVE  Lifecycle!Submit(k)
<1> DEFINE S == {i \in Items : item'[k][i] = "pending"}
<1>1. S \in (SUBSET Items) \ {{}}
  BY DEF NewRow
<1>2. job[k].status = "absent" /\ job'[k].status = "queued"
  BY DEF NewRow, Created
<1>3. Statuses' = [Statuses EXCEPT ![k] = "queued"]
  BY <1>2 DEF Statuses, NewRow
<1>4. Outcomes' = [Outcomes EXCEPT ![k] = [i \in Items |-> IF i \in S THEN "open" ELSE "none"]]
  <2>1. \A i \in Items : Abstract(item'[k][i]) = IF i \in S THEN "open" ELSE "none"
    BY DEF NewRow, Abstract
  <2>2. \A j \in Jobs : j # k => item'[j] = item[j]
    BY DEF NewRow
  <2> HIDE DEF S
  <2>3. QED
    BY <2>1, <2>2 DEF Outcomes
<1> HIDE DEF S
<1>5. QED
  BY <1>1, <1>2, <1>3, <1>4 DEF Lifecycle!Submit, Statuses, Outcomes, Abstract

\* StartJob begins one.
LEMMA LifecycleBegin ==
  ASSUME NEW w, Workers = {w}, HoldInv, AloneInv(w), NEW c \in Jobs, cur[w] = c, StartsRow(w, c)
  PROVE  Lifecycle!Begin(c)
<1>1. job[c].status = "queued" /\ item' = item /\ snap[w] \in JobRow
  BY DEF StartsRow, AloneInv, HoldInv, WorkersHold, TypeOK
<1>2. Statuses' = [Statuses EXCEPT ![c] = "running"]
  <2>1. job'[c].status = "running" /\ \A j \in Jobs : j # c => job'[j] = job[j]
    BY <1>1 DEF StartsRow, HoldInv, TypeOK, JobRow
  <2>2. QED
    BY <2>1 DEF Statuses
<1>3. Outcomes' = Outcomes
  BY <1>1 DEF Outcomes
<1>4. QED
  BY <1>1, <1>2, <1>3 DEF Lifecycle!Begin, Statuses, Outcomes, Abstract

\* MarkItem settles an item.
LEMMA LifecycleSettle ==
  ASSUME NEW w, Workers = {w}, HoldInv, AloneInv(w), NEW c \in Jobs, cur[w] = c, BumpsRow(w, c),
         NEW n \in Items, claim[w] = n
  PROVE  Lifecycle!Settle(c, n)
<1> DEFINE o == IF ~runErr[w] THEN "done" ELSE "failed"
<1>1. /\ n \in Items /\ item[c][n] \notin {"none", "done", "failed"} /\ item[c][n] \in ItemStatus
      /\ job'[c].status = job[c].status
      /\ \A j \in Jobs : j # c => job'[j] = job[j] /\ item'[j] = item[j]
  BY BumpEffect DEF HoldInv, TypeOK
<1>2. Unfinished(c) /\ item' = [item EXCEPT ![c][n] = o] /\ o \in {"done", "failed"}
  BY DEF BumpsRow, AloneInv, Busy
<1> HIDE DEF o
<1>3. c \in Jobs
  OBVIOUS
<1>4. Statuses' = Statuses
  BY <1>1 DEF Statuses
<1>5. Outcomes' = [Outcomes EXCEPT ![c][n] = o]
  <2>1. \A j \in Jobs, i \in Items : item'[j][i] = IF j = c /\ i = n THEN o ELSE item[j][i]
    BY <1>1, <1>2, <1>3 DEF HoldInv, TypeOK
  <2>2. Abstract(o) = o
    BY <1>2 DEF Abstract
  <2> DEFINE T == {Abstract(st) : st \in ItemStatus \cup {"done", "failed"}}
  <2>3. Outcomes \in [Jobs -> [Items -> T]] /\ Outcomes' \in [Jobs -> [Items -> T]]
    <3>1. \A j \in Jobs, i \in Items : item[j][i] \in ItemStatus /\ item'[j][i] \in ItemStatus \cup {"done", "failed"}
      BY <1>2, <2>1 DEF HoldInv, TypeOK
    <3>2. QED
      BY <3>1 DEF Outcomes
  <2>4. \A j \in Jobs, i \in Items : Outcomes'[j][i] = IF j = c /\ i = n THEN o ELSE Outcomes[j][i]
    BY <2>1, <2>2 DEF Outcomes
  <2> HIDE DEF T
  <2>5. [Outcomes EXCEPT ![c][n] = o] \in [Jobs -> [Items -> T \cup {o}]]
    BY <1>1, <1>3, <2>3
  <2>6. \A j \in Jobs, i \in Items : [Outcomes EXCEPT ![c][n] = o][j][i] = Outcomes'[j][i]
    BY <1>1, <1>3, <2>3, <2>4
  <2>7. QED
    BY <2>3, <2>5, <2>6
<1>6. Abstract(item[c][n]) = "open"
  BY <1>1 DEF Abstract, ItemStatus
<1>7. QED
  BY <1>1, <1>2, <1>3, <1>4, <1>5, <1>6 DEF Lifecycle!Settle, Statuses, Outcomes, Abstract, Unfinished

\* FinishJob closes a job whose items have settled, with their verdict.
LEMMA LifecycleClose ==
  ASSUME NEW w, Workers = {w}, HoldInv, CountInv, AloneInv(w), NEW c \in Jobs, cur[w] = c,
         FinishesRow(w, c)
  PROVE  Lifecycle!Close(c)
<1>1. /\ item' = item /\ Unfinished(c) /\ job[c] \in JobRow /\ pc[w] = "finish" /\ Accounted(job[c])
      /\ snap[w] = [job[c] EXCEPT !.status = Verdict(job[c])] /\ Exact(item[c], job[c])
  BY DEF FinishesRow, AloneInv, Busy, HoldInv, TypeOK
<1>2. Settled(item[c], Verdict(job[c]))
  BY <1>1, AccountedIsExact DEF CountInv, JobOK
<1>3. \A i \in Items : Abstract(item[c][i]) # "open"
  BY <1>2 DEF Settled, Listed, ItemTerminal, Abstract
<1>4. /\ job[c].failed = 0 <=> Having(item[c], "failed") = {}
      /\ job[c].done = 0 <=> Having(item[c], "done") = {}
  BY <1>1, CountsAreFinite, FS_EmptySet DEF Exact
<1>5. /\ Having(item[c], "failed") = {} <=> ~\E i \in Items : Abstract(item[c][i]) = "failed"
      /\ Having(item[c], "done") = {} <=> ~\E i \in Items : Abstract(item[c][i]) = "done"
  BY DEF Having, Abstract
<1>6. Statuses' = [Statuses EXCEPT ![c] = Verdict(job[c])]
  <2>1. job'[c].status = Verdict(job[c]) /\ \A j \in Jobs : j # c => job'[j] = job[j]
    BY <1>1 DEF FinishesRow, HoldInv, TypeOK, JobRow
  <2>2. QED
    BY <2>1 DEF Statuses
<1>7. Outcomes' = Outcomes
  BY <1>1 DEF Outcomes
<1>8. Verdict(job[c]) = IF ~\E i \in Items : Abstract(item[c][i]) = "failed" THEN "succeeded"
                        ELSE IF ~\E i \in Items : Abstract(item[c][i]) = "done" THEN "failed" ELSE "partial"
  BY <1>4, <1>5 DEF Verdict
<1>9. QED
  BY <1>1, <1>3, <1>6, <1>7, <1>8 DEF Lifecycle!Close, Lifecycle!Settled, Lifecycle!Some, Statuses, Outcomes,
                                      Abstract, Unfinished

\* Every step maps to a step of the life cycle, or to none.
LEMMA LifecycleStep ==
  ASSUME NEW w, Workers = {w}, HoldInv, HoldInv', CountInv, AloneInv(w), [Next]_vars
  PROVE  [Lifecycle!Next]_(Lifecycle!vars)
<1>1. CASE UNCHANGED job /\ \A j \in Jobs, i \in Items : ItemTerminal(item'[j][i]) => ItemTerminal(item[j][i])
  BY <1>1, LifecycleStutter DEF Lifecycle!vars, Statuses, Outcomes, Abstract
<1>2. ASSUME NEW j \in Jobs, NewRow(j) PROVE Lifecycle!Next
  BY <1>2, LifecycleSubmit DEF Lifecycle!Next
<1>3. ASSUME cur[w] \in Jobs, StartsRow(w, cur[w]) PROVE Lifecycle!Next
  <2>1. PICK c \in Jobs : cur[w] = c /\ StartsRow(w, c)
    BY <1>3
  <2>2. Lifecycle!Begin(c)
    BY <2>1, LifecycleBegin
  <2>3. QED
    BY <2>2 DEF Lifecycle!Next
<1>4. ASSUME cur[w] \in Jobs, BumpsRow(w, cur[w]) PROVE Lifecycle!Next
  <2>1. PICK c \in Jobs : cur[w] = c /\ BumpsRow(w, c)
    BY <1>4
  <2>2. PICK n \in Items : claim[w] = n
    BY <1>4, BumpEffect
  <2>3. Lifecycle!Settle(c, n)
    BY <2>1, <2>2, LifecycleSettle
  <2>4. QED
    BY <2>3 DEF Lifecycle!Next
<1>5. ASSUME cur[w] \in Jobs, FinishesRow(w, cur[w]) PROVE Lifecycle!Next
  <2>1. PICK c \in Jobs : cur[w] = c /\ FinishesRow(w, c)
    BY <1>5
  <2>2. Lifecycle!Close(c)
    BY <2>1, LifecycleClose
  <2>3. QED
    BY <2>2 DEF Lifecycle!Next
<1>6. QED
  BY <1>1, <1>2, <1>3, <1>4, <1>5, RowStep

\* With one worker the pool implements the safety part of JobLifecycle: a job
\* is submitted once, each of its items settles once, and it is closed once,
\* after its last item, with the verdict its items justify, across restarts,
\* resumes and failing store calls.
THEOREM PoolImplementsLifecycle ==
  ASSUME NEW w, Workers = {w}
  PROVE  Spec => Lifecycle!Init /\ [][Lifecycle!Next]_(Lifecycle!vars)
<1>1. HoldInv /\ HoldInv' /\ CountInv /\ AloneInv(w) /\ [Next]_vars => [Lifecycle!Next]_(Lifecycle!vars)
  BY LifecycleStep
<1>2. Spec => []AloneInv(w)
  BY AloneInvHolds
<1>3. QED
  BY <1>1, <1>2, LifecycleInit, HoldInvHolds, CountInvHolds, PTL DEF Spec

-----------------------------------------------------------------------------
(* Any number of workers: what a race is, and exact counters without one.  *)

\* A race once recorded stays recorded.
LEMMA RacesStay ==
  ASSUME HoldInv, [Next]_vars, NEW j \in Jobs, NEW kind, kind \notin raced'[j]
  PROVE  kind \notin raced[j]
<1>1. ASSUME NEW w \in Workers, cur[w] \in Jobs, NEW k, NEW places, Record(w, k, places)
      PROVE  kind \notin raced[j]
  BY <1>1 DEF Record, HoldInv, TypeOK
<1>2. CASE UNCHANGED raced
  BY <1>2
<1>3. CASE OutsideStep
  BY <1>2, <1>3 DEF OutsideStep, CreateJob, Notify, ResumeStep, ResumeReset, ResumeList, ResumeSend,
                    ResumeExit, Stop, Crash, Relaunch, Reboot, vars
<1>4. ASSUME NEW w \in Workers, WorkerStep(w) \/ WorkerExit(w) PROVE kind \notin raced[j]
  <2>1. CASE GetJob(w)
    <3>1. cur[w] \in Jobs
      BY <2>1 DEF GetJob, HoldInv, WorkersHold
    <3>2. QED
      BY <1>1, <1>2, <2>1, <3>1 DEF GetJob
  <2>2. CASE FinalGetJob(w)
    <3>1. cur[w] \in Jobs
      BY <2>2 DEF FinalGetJob, HoldInv, WorkersHold
    <3>2. QED
      BY <1>1, <1>2, <2>2, <3>1 DEF FinalGetJob
  <2>3. CASE \/ Receive(w) \/ WorkerExit(w) \/ StartJob(w) \/ ClaimNextItem(w) \/ DrainStop(w)
             \/ CreateMemory(w) \/ SetItemTrackID(w) \/ AddSource(w) \/ MarkItem(w) \/ FinishJob(w)
    BY <1>2, <2>3 DEF Receive, WorkerExit, StartJob, ClaimNextItem, DrainStop, CreateMemory,
                      SetItemTrackID, AddSource, MarkItem, FinishJob
  <2>4. QED
    BY <1>4, <2>1, <2>2, <2>3 DEF WorkerStep
<1>5. QED
  BY <1>3, <1>4, StepSplit

\* A worker gets past its first read of a job by GetJob alone, and keeps the
\* job from there.
LEMMA EnterStep ==
  ASSUME HoldInv, [Next]_vars, NEW v \in Workers, pc'[v] \in PastGet
  PROVE  /\ cur'[v] = cur[v]
         /\ pc[v] \in PastGet \/ (GetJob(v) /\ pc[v] = "get")
<1> USE DEF PastGet, WorkerPC
<1>1. CASE OutsideStep
  BY <1>1, OutsideTouches DEF Undisturbed
<1>2. ASSUME NEW w \in Workers, WorkerStep(w) \/ WorkerExit(w), w # v
      PROVE  cur'[v] = cur[v] /\ pc[v] \in PastGet
  BY <1>2, OthersUndisturbed DEF Undisturbed
<1>3. CASE WorkerStep(v) \/ WorkerExit(v)
  <2>1. CASE Receive(v) \/ WorkerExit(v) \/ DrainStop(v) \/ FinishJob(v)
    BY <2>1 DEF Receive, WorkerExit, DrainStop, FinishJob, Goto, Return, HoldInv, TypeOK
  <2>2. CASE GetJob(v)
    BY <2>2 DEF GetJob, Goto, Return, HoldInv, TypeOK
  <2>3. CASE FinalGetJob(v)
    BY <2>3 DEF FinalGetJob, Goto, Return, HoldInv, TypeOK
  <2>4. CASE StartJob(v) \/ ClaimNextItem(v) \/ CreateMemory(v) \/ SetItemTrackID(v) \/ AddSource(v) \/ MarkItem(v)
    BY <2>4 DEF StartJob, ClaimNextItem, CreateMemory, SetItemTrackID, AddSource, MarkItem
  <2>5. QED
    BY <1>3, <2>1, <2>2, <2>3, <2>4 DEF WorkerStep
<1>4. QED
  BY <1>1, <1>2, <1>3, StepSplit

\* Nobody writes the row of a job whose only worker past the first read waits.
LEMMA RowLeftAlone ==
  ASSUME HoldInv, [Next]_vars, NEW w \in Workers, pc[w] \in PastGet, Undisturbed(w),
         \A v \in Workers : v # w /\ cur[v] = cur[w] => pc[v] \notin PastGet
  PROVE  job'[cur[w]] = job[cur[w]]
<1>1. cur[w] \in Jobs /\ Created(cur[w])
  BY DEF PastGet, HoldInv, WorkersHold
<1>2. CASE UNCHANGED job
  BY <1>2
<1>3. ASSUME NEW k \in Jobs, NewRow(k) PROVE job'[cur[w]] = job[cur[w]]
  BY <1>1, <1>3 DEF NewRow
<1>4. ASSUME NEW v \in Workers, cur[v] \in Jobs,
             StartsRow(v, cur[v]) \/ FinishesRow(v, cur[v]) \/ BumpsRow(v, cur[v])
      PROVE  job'[cur[w]] = job[cur[w]]
  <2>1. pc[v] \in PastGet /\ pc'[v] # pc[v]
    BY <1>4 DEF StartsRow, FinishesRow, BumpsRow, PastGet, WorkerPC
  <2>2. cur[v] # cur[w]
    BY <2>1 DEF Undisturbed
  <2>3. QED
    BY <1>1, <1>4, <2>2 DEF StartsRow, FinishesRow, BumpsRow, HoldInv, TypeOK
<1>5. QED
  BY <1>2, <1>3, <1>4, RowStep

\* While no row went stale in a worker's hands: the stored row counts every
\* settled item, a worker about to start the job is alone past the first read
\* and holds the stored row, and a verdict is made of exact counters.
ShareInv(j) ==
    "start" \notin raced[j] =>
        /\ Exact(item[j], job[j])
        /\ \A w \in Workers : pc[w] = "start" /\ cur[w] = j =>
              /\ snap[w] = job[j]
              /\ \A v \in Workers : v # w /\ cur[v] = j => pc[v] \notin PastGet
        /\ \A w \in Workers : pc[w] = "finish" /\ cur[w] = j => Exact(item[j], snap[w])

\* Every row that no race made stale stays exact.
LEMMA ShareExact ==
  ASSUME HoldInv, [Next]_vars, NEW j \in Jobs, ShareInv(j), "start" \notin raced[j]
  PROVE  Exact(item'[j], job'[j])
<1>0. Exact(item[j], job[j])
  BY DEF ShareInv
<1>1. ASSUME job'[j].done = job[j].done, job'[j].failed = job[j].failed,
             \A i \in Items : ItemTerminal(item'[j][i]) => ItemTerminal(item[j][i])
      PROVE  Exact(item'[j], job'[j])
  BY <1>0, <1>1, SameOutcomes DEF Exact
<1>2. ASSUME NEW k \in Jobs, NewRow(k) PROVE Exact(item'[j], job'[j])
  <2>1. CASE j = k
    <3>1. Having(item'[j], "done") = {} /\ Having(item'[j], "failed") = {}
      BY <1>2, <2>1 DEF NewRow, Having
    <3>2. QED
      BY <1>2, <2>1, <3>1, FS_EmptySet DEF NewRow, Exact
  <2>2. CASE j # k
    BY <1>1, <1>2, <2>2 DEF NewRow
  <2>3. QED
    BY <2>1, <2>2
<1>3. ASSUME NEW w \in Workers, cur[w] \in Jobs, StartsRow(w, cur[w]) PROVE Exact(item'[j], job'[j])
  <2>1. job \in [Jobs -> JobRow] /\ item' = item
    BY <1>3 DEF HoldInv, TypeOK, StartsRow
  <2>2. CASE j = cur[w]
    <3>1. snap[w] = job[j] /\ job'[j] = [snap[w] EXCEPT !.status = "running"]
      BY <1>3, <2>1, <2>2 DEF StartsRow, ShareInv
    <3>2. QED
      BY <1>1, <2>1, <3>1 DEF JobRow
  <2>3. CASE j # cur[w]
    BY <1>1, <1>3, <2>1, <2>3 DEF StartsRow
  <2>4. QED
    BY <2>2, <2>3
<1>4. ASSUME NEW w \in Workers, cur[w] \in Jobs, FinishesRow(w, cur[w]) PROVE Exact(item'[j], job'[j])
  <2>1. job \in [Jobs -> JobRow] /\ item' = item
    BY <1>4 DEF HoldInv, TypeOK, FinishesRow
  <2>2. CASE j = cur[w]
    <3>1. Exact(item[j], snap[w]) /\ job'[j] = snap[w]
      BY <1>4, <2>1, <2>2 DEF FinishesRow, ShareInv
    <3>2. QED
      BY <2>1, <3>1
  <2>3. CASE j # cur[w]
    BY <1>1, <1>4, <2>1, <2>3 DEF FinishesRow
  <2>4. QED
    BY <2>2, <2>3
<1>5. ASSUME NEW w \in Workers, cur[w] \in Jobs, BumpsRow(w, cur[w]) PROVE Exact(item'[j], job'[j])
  <2>1. CASE j = cur[w]
    BY <1>0, <1>5, <2>1, BumpEffect
  <2>2. CASE j # cur[w]
    BY <1>1, <1>5, <2>2, BumpEffect
  <2>3. QED
    BY <2>1, <2>2
<1>6. CASE UNCHANGED job /\ \A k \in Jobs, i \in Items : ItemTerminal(item'[k][i]) => ItemTerminal(item[k][i])
  BY <1>1, <1>6
<1>7. QED
  BY <1>2, <1>3, <1>4, <1>5, <1>6, RowStep

\* ShareInv is inductive relative to HoldInv and CountInv.
LEMMA ShareInvStep ==
  ASSUME HoldInv, CountInv, [Next]_vars, NEW j \in Jobs, ShareInv(j)
  PROVE  ShareInv(j)'
<1> SUFFICES ASSUME "start" \notin raced'[j]
             PROVE  /\ Exact(item'[j], job'[j])
                    /\ \A w \in Workers : pc'[w] = "start" /\ cur'[w] = j =>
                          /\ snap'[w] = job'[j]
                          /\ \A v \in Workers : v # w /\ cur'[v] = j => pc'[v] \notin PastGet
                    /\ \A w \in Workers : pc'[w] = "finish" /\ cur'[w] = j => Exact(item'[j], snap'[w])
  BY DEF ShareInv
<1>0. "start" \notin raced[j] /\ raced \in [Jobs -> SUBSET {"start", "finish"}]
  BY RacesStay DEF HoldInv, TypeOK
<1>1. Exact(item[j], job[j]) /\ Exact(item'[j], job'[j])
  BY <1>0, ShareExact DEF ShareInv
<1>2. ASSUME NEW w \in Workers, pc'[w] = "start", cur'[w] = j
      PROVE  /\ snap'[w] = job'[j]
             /\ \A v \in Workers : v # w /\ cur'[v] = j => pc'[v] \notin PastGet
  <2>1. CASE Reads(w) /\ UNCHANGED <<job, item, cur>>
    <3>1. cur[w] = j /\ snap'[w] = job'[j]
      BY <1>2, <2>1 DEF Reads
    <3>2. \A v \in Workers : v # w /\ cur[v] = j => pc[v] \notin PastGet
      BY <1>0, <2>1, <3>1 DEF Reads, Record
    <3>3. ASSUME NEW v \in Workers, v # w, cur'[v] = j, pc'[v] \in PastGet PROVE FALSE
      <4>1. cur[v] = j /\ GetJob(v) /\ pc[v] = "get"
        BY <3>2, <3>3, EnterStep
      <4>2. Undisturbed(w)
        BY <3>3, <4>1, OthersUndisturbed DEF WorkerStep
      <4>3. QED
        BY <1>2, <2>1, <4>2 DEF Reads, Undisturbed
    <3>4. QED
      BY <3>1, <3>3
  <2>2. CASE Undisturbed(w)
    <3>1. pc[w] = "start" /\ cur[w] = j /\ snap'[w] = snap[w]
      BY <1>2, <2>2 DEF Undisturbed
    <3>2. snap[w] = job[j] /\ \A v \in Workers : v # w /\ cur[v] = j => pc[v] \notin PastGet
      BY <1>0, <3>1 DEF ShareInv
    <3>3. job'[j] = job[j]
      BY <2>2, <3>1, <3>2, RowLeftAlone DEF PastGet, WorkerPC
    <3>4. ASSUME NEW v \in Workers, v # w, cur'[v] = j, pc'[v] \in PastGet PROVE FALSE
      <4>1. cur[v] = j /\ GetJob(v) /\ pc[v] = "get"
        BY <3>2, <3>4, EnterStep
      <4>2. job[j].status = "queued"
        BY <3>1, <3>2 DEF HoldInv, WorkersHold
      <4>3. \/ Return(v)
            \/ Record(v, "start", PastGet)
        BY <4>1, <4>2 DEF GetJob
      <4>4. CASE Return(v)
        BY <3>4, <4>4 DEF Return, Goto, HoldInv, TypeOK, PastGet
      <4>5. CASE Record(v, "start", PastGet)
        <5>1. raced' = [raced EXCEPT ![cur[v]] = @ \cup {"start"}]
          BY <3>1, <3>4, <4>1, <4>5 DEF Record, PastGet, WorkerPC
        <5>2. QED
          BY <1>0, <4>1, <5>1
      <4>6. QED
        BY <4>3, <4>4, <4>5
    <3>5. QED
      BY <3>1, <3>2, <3>3, <3>4
  <2>3. QED
    BY <1>2, <2>1, <2>2, CopyStep DEF Judges
<1>3. ASSUME NEW w \in Workers, pc'[w] = "finish", cur'[w] = j PROVE Exact(item'[j], snap'[w])
  <2>1. CASE Judges(w) /\ UNCHANGED <<job, item, cur>>
    <3>1. cur[w] = j /\ snap'[w] = [job[j] EXCEPT !.status = Verdict(job[j])] /\ job[j] \in JobRow
      BY <1>3, <2>1 DEF Judges, HoldInv, TypeOK
    <3>2. snap'[w].done = job[j].done /\ snap'[w].failed = job[j].failed
      BY <3>1 DEF JobRow
    <3>3. QED
      BY <1>1, <2>1, <3>2 DEF Exact
  <2>2. CASE Undisturbed(w)
    <3>1. pc[w] = "finish" /\ cur[w] = j /\ snap'[w] = snap[w] /\ Exact(item[j], snap[w])
      BY <1>0, <1>3, <2>2 DEF Undisturbed, ShareInv
    <3>2. Settled(item[j], snap[w].status) /\ Created(j)
      BY <3>1 DEF CountInv, SnapOK, HoldInv, WorkersHold
    <3>3. Forward(item[j], item'[j])
      BY <3>2, ForwardStep
    <3>4. ASSUME NEW i \in Items PROVE item'[j][i] = item[j][i]
      BY <3>2, <3>3 DEF Forward, Settled, Listed
    <3>5. Having(item'[j], "done") = Having(item[j], "done") /\ Having(item'[j], "failed") = Having(item[j], "failed")
      BY <3>4 DEF Having
    <3>6. QED
      BY <3>1, <3>5 DEF Exact
  <2>3. QED
    BY <1>3, <2>1, <2>2, CopyStep DEF Reads
<1>4. QED
  BY <1>1, <1>2, <1>3

\* The stored counters are exact with any number of workers, restarts and
\* failing store calls, until a worker reads a queued row while another one is
\* already past its own read of it (runJob's first UpdateJob, pool.go).
THEOREM CountersExactHolds == Spec => []CountersExact
<1> DEFINE Inv == \A j \in Jobs : ShareInv(j)
<1>1. Init => Inv
  <2> SUFFICES ASSUME Init, NEW j \in Jobs PROVE ShareInv(j)
    OBVIOUS
  <2>1. /\ job[j] = NoRow /\ \A i \in Items : item[j][i] = "none"
        /\ \A w \in Workers : pc[w] = "idle"
    BY DEF Init
  <2>2. Having(item[j], "done") = {} /\ Having(item[j], "failed") = {}
    BY <2>1 DEF Having
  <2>3. Cardinality(Having(item[j], "done")) = 0 /\ Cardinality(Having(item[j], "failed")) = 0
    BY <2>2, FS_EmptySet
  <2>4. Exact(item[j], job[j])
    BY <2>1, <2>3 DEF Exact, NoRow
  <2>5. QED
    BY <2>1, <2>4 DEF ShareInv
<1>2. HoldInv /\ CountInv /\ Inv /\ [Next]_vars => Inv'
  BY ShareInvStep
<1>3. Inv => CountersExact
  BY DEF ShareInv, Exact, CountersExact, Having, ItemsIn
<1>4. QED
  BY <1>1, <1>2, <1>3, HoldInvHolds, CountInvHolds, PTL DEF Spec

-----------------------------------------------------------------------------
(* Any number of workers: a job is counted once unless two finish it       *)
(* together, until a store call fails or the process is restarted.         *)

Zero(row) == row.done = 0 /\ row.failed = 0

Finishing(w, j) == pc[w] = "finish" /\ cur[w] = j

\* A job has items; while nothing failed, a queued row counts none of them,
\* in the store and in the hands of a worker, and a worker past the start has
\* a job that was started.
FreshInv ==
    /\ \A j \in Jobs : Created(j) => \E i \in Items : item[j][i] # "none"
    /\ crashes = 0 /\ faults = 0 =>
         /\ \A j \in Jobs : job[j].status = "queued" => Zero(job[j])
         /\ \A w \in Workers : pc[w] = "start" => Zero(snap[w])
         /\ \A w \in Workers : pc[w] \in PastGet \ {"start"} => job[cur[w]].status # "queued"

\* A row that counts nothing does not account for the items of its job.
LEMMA ZeroIsOpen ==
  ASSUME NEW f, NEW row, Bounded(f, row), Zero(row), \E i \in Items : f[i] # "none"
  PROVE  ~Accounted(row)
<1>1. Listed(f) # {}
  BY DEF Listed
<1>2. IsFiniteSet(Listed(f)) /\ Cardinality(Listed(f)) \in Nat /\ Cardinality(Listed(f)) # 0
  BY <1>1, CountsAreFinite, FS_EmptySet
<1>3. QED
  BY <1>2 DEF Bounded, Zero, Accounted

\* A row that a step leaves queued was queued and is left alone, or is new.
LEMMA QueuedStep ==
  ASSUME HoldInv, FreshInv, [Next]_vars, crashes' = 0, faults' = 0, NEW j \in Jobs
  PROVE  /\ job'[j].status = "queued" => Zero(job'[j])
         /\ Created(j) /\ job[j].status # "queued" => job'[j].status # "queued"
<1>0. /\ crashes = 0 /\ faults = 0 /\ job \in [Jobs -> JobRow]
      /\ job[j].status = "queued" => Zero(job[j])
  BY BudgetsGrow DEF FreshInv, HoldInv, TypeOK
<1>1. CASE job'[j] = job[j]
  BY <1>0, <1>1
<1>2. ASSUME NEW k \in Jobs, NewRow(k)
      PROVE  /\ job'[j].status = "queued" => Zero(job'[j])
             /\ Created(j) /\ job[j].status # "queued" => job'[j].status # "queued"
  BY <1>1, <1>2 DEF NewRow, Zero
<1>3. ASSUME NEW w \in Workers, cur[w] \in Jobs,
             StartsRow(w, cur[w]) \/ FinishesRow(w, cur[w]) \/ BumpsRow(w, cur[w])
      PROVE  /\ job'[j].status = "queued" => Zero(job'[j])
             /\ Created(j) /\ job[j].status # "queued" => job'[j].status # "queued"
  <2>1. CASE j # cur[w]
    BY <1>0, <1>1, <1>3, <2>1 DEF StartsRow, FinishesRow, BumpsRow
  <2>2. CASE j = cur[w] /\ StartsRow(w, cur[w])
    <3>1. job'[j].status = "running"
      BY <1>0, <2>2 DEF StartsRow, HoldInv, TypeOK, JobRow
    <3>2. QED
      BY <3>1
  <2>3. CASE j = cur[w] /\ FinishesRow(w, cur[w])
    <3>1. Terminal(job'[j].status)
      BY <1>0, <2>3 DEF FinishesRow, HoldInv, WorkersHold
    <3>2. QED
      BY <3>1 DEF Terminal
  <2>4. CASE j = cur[w] /\ BumpsRow(w, cur[w])
    <3>1. job'[j].status = job[j].status
      BY <1>3, <2>4, BumpEffect
    <3>2. job[j].status # "queued"
      BY <1>0, <2>4 DEF FreshInv, BumpsRow, PastGet, WorkerPC
    <3>3. QED
      BY <3>1, <3>2
  <2>5. QED
    BY <1>3, <2>1, <2>2, <2>3, <2>4
<1>4. QED
  BY <1>1, <1>2, <1>3, RowStep

\* FreshInv is inductive relative to HoldInv.
LEMMA FreshInvStep ==
  ASSUME HoldInv, HoldInv', FreshInv, [Next]_vars
  PROVE  FreshInv'
<1>1. ASSUME NEW j \in Jobs, Created(j)' PROVE \E i \in Items : item'[j][i] # "none"
  <2>1. CASE Created(j)
    <3>1. PICK i \in Items : item[j][i] # "none"
      BY <2>1 DEF FreshInv
    <3>2. item'[j][i] # "none"
      BY <2>1, <3>1, ForwardStep DEF Forward
    <3>3. QED
      BY <3>2
  <2>2. CASE ~Created(j)
    <3>1. job'[j] # job[j] /\ job \in [Jobs -> JobRow]
      BY <1>1, <2>2 DEF Created, HoldInv, TypeOK
    <3>2. ASSUME NEW w \in Workers, cur[w] \in Jobs,
                 StartsRow(w, cur[w]) \/ FinishesRow(w, cur[w]) \/ BumpsRow(w, cur[w])
          PROVE  FALSE
      <4>1. Created(cur[w])
        BY <3>2 DEF StartsRow, FinishesRow, BumpsRow, HoldInv, WorkersHold
      <4>2. QED
        BY <2>2, <3>1, <3>2, <4>1 DEF StartsRow, FinishesRow, BumpsRow
    <3>3. ASSUME NEW k \in Jobs, NewRow(k) PROVE \E i \in Items : item'[j][i] # "none"
      BY <3>1, <3>3 DEF NewRow
    <3>4. QED
      BY <3>1, <3>2, <3>3, RowStep
  <2>3. QED
    BY <2>1, <2>2
<1>2. ASSUME crashes' = 0, faults' = 0, NEW w \in Workers, pc'[w] = "start" PROVE Zero(snap'[w])
  <2>1. crashes = 0 /\ faults = 0
    BY <1>2, BudgetsGrow
  <2>2. CASE Reads(w)
    BY <2>1, <2>2 DEF Reads, FreshInv, Zero
  <2>3. CASE Undisturbed(w)
    BY <1>2, <2>1, <2>3 DEF Undisturbed, FreshInv, Zero
  <2>4. QED
    BY <1>2, <2>2, <2>3, CopyStep DEF Judges
<1>3. ASSUME crashes' = 0, faults' = 0, NEW w \in Workers, pc'[w] \in PastGet \ {"start"}
      PROVE  job'[cur'[w]].status # "queued"
  <2>0. crashes = 0 /\ faults = 0 /\ cur'[w] = cur[w] /\ cur[w] \in Jobs /\ Created(cur[w])
    BY <1>3, BudgetsGrow, EnterStep DEF PastGet, HoldInv, WorkersHold
  <2>1. CASE pc[w] \in PastGet \ {"start"}
    BY <1>3, <2>0, <2>1, QueuedStep DEF FreshInv
  <2>2. CASE pc[w] = "start"
    <3>1. ~Undisturbed(w) /\ pc'[w] # "idle"
      BY <1>3, <2>2 DEF Undisturbed, PastGet
    <3>2. PICK v \in Workers : WorkerStep(v) \/ WorkerExit(v)
      BY <3>1, OutsideTouches, StepSplit
    <3>3. v = w
      BY <3>1, <3>2, OthersUndisturbed
    <3>4. StartJob(w)
      BY <2>2, <3>2, <3>3 DEF WorkerStep, Receive, WorkerExit, GetJob, ClaimNextItem, DrainStop,
           CreateMemory, SetItemTrackID, AddSource, MarkItem, FinalGetJob, FinishJob
    <3>5. job' = [job EXCEPT ![cur[w]] = [snap[w] EXCEPT !.status = "running"]]
      BY <1>3, <2>0, <3>4 DEF StartJob, UpdateJob
    <3>6. QED
      BY <2>0, <3>5 DEF HoldInv, TypeOK, JobRow
  <2>3. CASE GetJob(w) /\ pc[w] = "get"
    <3>1. job[cur[w]].status # "queued" /\ job' = job
      BY <1>3, <2>3 DEF GetJob, Goto, Return, HoldInv, TypeOK, PastGet
    <3>2. QED
      BY <2>0, <3>1
  <2>4. QED
    BY <1>3, <2>1, <2>2, <2>3, EnterStep
<1>4. ASSUME crashes' = 0, faults' = 0, NEW j \in Jobs, job'[j].status = "queued" PROVE Zero(job'[j])
  BY <1>4, QueuedStep
<1>5. QED
  BY <1>1, <1>2, <1>3, <1>4 DEF FreshInv, Zero

\* A counted job is over: all its items have settled, and its row is terminal,
\* is about to become so, or was started again and accounts for too little
\* ever to be counted.
Over(j) ==
    /\ \A i \in Listed(item[j]) : ItemTerminal(item[j][i])
    /\ Terminal(job[j].status) \/ ~Accounted(job[j]) \/ \E w \in Workers : Finishing(w, j)

CountedInv(j) ==
    crashes = 0 /\ faults = 0 /\ "finish" \notin raced[j] =>
        /\ finalized[j] <= 1
        /\ \A v, w \in Workers : Finishing(v, j) /\ Finishing(w, j) => v = w
        /\ \A w \in Workers : Finishing(w, j) => finalized[j] = 1
        /\ finalized[j] = 1 => Over(j)

\* The counter of a job moves only when a worker judges it.
LEMMA CountStep ==
  ASSUME HoldInv, [Next]_vars, NEW j \in Jobs, finalized'[j] # finalized[j]
  PROVE  \E w \in Workers : Judges(w) /\ cur[w] = j /\ UNCHANGED <<job, item, cur>>
<1>1. PICK w \in Workers : WorkerStep(w) \/ WorkerExit(w)
  BY OutsideTouches, StepSplit
<1>2. FinalGetJob(w)
  BY <1>1 DEF WorkerStep, Receive, WorkerExit, GetJob, StartJob, ClaimNextItem, DrainStop,
       CreateMemory, SetItemTrackID, AddSource, MarkItem, FinishJob
<1>3. pc'[w] = "finish" /\ pc[w] = "final"
  BY <1>2 DEF FinalGetJob, Goto, HoldInv, TypeOK
<1>4. Judges(w) /\ UNCHANGED <<job, item, cur>>
  BY <1>3, CopyStep DEF Undisturbed, Reads
<1>5. cur[w] = j
  BY <1>4 DEF Judges, HoldInv, TypeOK
<1>6. QED
  BY <1>4, <1>5

\* A row that a step writes to a counted job keeps the job over.
LEMMA OverStep ==
  ASSUME HoldInv, HoldInv', CountInv, CountInv', FreshInv, FreshInv', [Next]_vars,
         crashes' = 0, faults' = 0, NEW j \in Jobs, Created(j), Over(j)
  PROVE  Over(j)'
<1>0. crashes = 0 /\ faults = 0 /\ ~Crash /\ ~Relaunch /\ job \in [Jobs -> JobRow]
  BY BudgetsGrow DEF HoldInv, TypeOK
<1>1. \A i \in Items : item'[j][i] = item[j][i]
  BY ForwardStep DEF Forward, Over, Listed
<1>2. \A i \in Listed(item'[j]) : ItemTerminal(item'[j][i])
  BY <1>1 DEF Over, Listed
<1>3. ASSUME NEW w \in Workers, Finishing(w, j)
      PROVE  Finishing(w, j)' \/ Terminal(job'[j].status)
  <2>1. CASE Undisturbed(w)
    BY <1>3, <2>1 DEF Undisturbed, Finishing
  <2>2. CASE ~Undisturbed(w)
    <3>1. ~OutsideStep
      <4>1. OutsideStep => UNCHANGED worker
        BY <1>0 DEF OutsideStep, CreateJob, Notify, ResumeStep, ResumeReset, ResumeList, ResumeSend,
                    ResumeExit, Stop, vars
      <4>2. QED
        BY <2>2, <4>1 DEF Undisturbed
    <3>2. PICK v \in Workers : WorkerStep(v) \/ WorkerExit(v)
      BY <3>1, StepSplit
    <3>3. v = w
      BY <2>2, <3>2, OthersUndisturbed
    <3>4. FinishJob(w)
      BY <1>3, <3>2, <3>3 DEF Finishing, WorkerStep, Receive, WorkerExit, GetJob, StartJob, ClaimNextItem,
           DrainStop, CreateMemory, SetItemTrackID, AddSource, MarkItem, FinalGetJob
    <3>5. job' = [job EXCEPT ![j] = snap[w]] /\ Terminal(snap[w].status)
      BY <1>0, <1>3, <3>4 DEF FinishJob, UpdateJob, Finishing, HoldInv, WorkersHold
    <3>6. QED
      BY <1>0, <3>5
  <2>3. QED
    BY <2>1, <2>2
<1>4. ASSUME job'[j] = job[j] PROVE Over(j)'
  BY <1>2, <1>3, <1>4 DEF Over
<1>5. ASSUME NEW k \in Jobs, NewRow(k) PROVE job'[j] = job[j]
  BY <1>5 DEF NewRow
<1>6. ASSUME NEW w \in Workers, cur[w] \in Jobs,
             StartsRow(w, cur[w]) \/ FinishesRow(w, cur[w]) \/ BumpsRow(w, cur[w])
      PROVE  Over(j)'
  <2>1. CASE j # cur[w]
    <3>1. job'[j] = job[j]
      BY <1>0, <1>6, <2>1 DEF StartsRow, FinishesRow, BumpsRow
    <3>2. QED
      BY <1>4, <3>1
  <2>2. CASE j = cur[w] /\ StartsRow(w, cur[w])
    <3>1. Zero(snap[w]) /\ job'[j] = [snap[w] EXCEPT !.status = "running"] /\ snap[w] \in JobRow
      BY <1>0, <2>2 DEF StartsRow, FreshInv, HoldInv, TypeOK
    <3>2. Zero(job'[j])
      BY <3>1 DEF Zero, JobRow
    <3>3. Bounded(item'[j], job'[j]) /\ \E i \in Items : item'[j][i] # "none"
      BY <1>1 DEF CountInv, JobOK, FreshInv
    <3>4. ~Accounted(job'[j])
      BY <3>2, <3>3, ZeroIsOpen
    <3>5. QED
      BY <1>2, <3>4 DEF Over
  <2>3. CASE j = cur[w] /\ FinishesRow(w, cur[w])
    <3>1. Terminal(job'[j].status)
      BY <1>0, <2>3 DEF FinishesRow, HoldInv, WorkersHold
    <3>2. QED
      BY <1>2, <3>1 DEF Over
  <2>4. CASE j = cur[w] /\ BumpsRow(w, cur[w])
    BY <1>6, <2>4, BumpEffect DEF BumpsRow, Over, Listed
  <2>5. QED
    BY <1>6, <2>1, <2>2, <2>3, <2>4
<1>7. QED
  BY <1>4, <1>5, <1>6, RowStep

\* CountedInv is inductive relative to HoldInv, CountInv and FreshInv.
LEMMA CountedInvStep ==
  ASSUME HoldInv, HoldInv', CountInv, CountInv', FreshInv, FreshInv', [Next]_vars,
         NEW j \in Jobs, CountedInv(j)
  PROVE  CountedInv(j)'
<1> SUFFICES ASSUME crashes' = 0, faults' = 0, "finish" \notin raced'[j]
             PROVE  /\ finalized'[j] <= 1
                    /\ \A v, w \in Workers : Finishing(v, j)' /\ Finishing(w, j)' => v = w
                    /\ \A w \in Workers : Finishing(w, j)' => finalized'[j] = 1
                    /\ finalized'[j] = 1 => Over(j)'
  BY DEF CountedInv
<1>0. /\ crashes = 0 /\ faults = 0 /\ "finish" \notin raced[j]
      /\ raced \in [Jobs -> SUBSET {"start", "finish"}] /\ finalized \in [Jobs -> 0..2]
  BY BudgetsGrow, RacesStay DEF HoldInv, TypeOK
<1>1. /\ finalized[j] <= 1
      /\ \A v, w \in Workers : Finishing(v, j) /\ Finishing(w, j) => v = w
      /\ \A w \in Workers : Finishing(w, j) => finalized[j] = 1
      /\ finalized[j] = 1 => Over(j)
  BY <1>0 DEF CountedInv
<1>2. ASSUME NEW w \in Workers, Finishing(w, j)'
      PROVE  Finishing(w, j) \/ (Judges(w) /\ cur[w] = j /\ UNCHANGED <<job, item, cur>>)
  BY <1>2, CopyStep DEF Finishing, Undisturbed, Reads
<1>3. ASSUME NEW w \in Workers, Judges(w), cur[w] = j, UNCHANGED <<job, item, cur>>
      PROVE  /\ finalized[j] = 0 /\ finalized'[j] = 1 /\ Over(j)'
             /\ \A v \in Workers : Finishing(v, j)' => v = w
  <2>1. \A v \in Workers : v # w => ~Finishing(v, j)
    BY <1>0, <1>3 DEF Judges, Record, Finishing
  <2>2. ~Finishing(w, j)
    BY <1>3 DEF Judges, Finishing
  <2>3. ~Over(j)
    BY <1>3, <2>1, <2>2 DEF Over, Judges
  <2>4. finalized[j] = 0
    BY <1>0, <1>1, <2>3
  <2>5. finalized'[j] = 1
    BY <1>0, <1>3, <2>4 DEF Judges, UpTo2
  <2>6. Settled(item[j], Verdict(job[j]))
    <3>1. job[j] \in JobRow /\ Bounded(item[j], job[j]) /\ Accounted(job[j])
      BY <1>3 DEF Judges, HoldInv, TypeOK, CountInv, JobOK
    <3>2. QED
      BY <3>1, AccountedIsExact
  <2>7. Finishing(w, j)'
    BY <1>3 DEF Judges, Finishing
  <2>8. Over(j)'
    BY <1>3, <2>6, <2>7 DEF Over, Settled
  <2>9. ASSUME NEW v \in Workers, Finishing(v, j)', v # w PROVE FALSE
    <3>1. Judges(v)
      BY <1>2, <2>1, <2>9
    <3>2. ~Undisturbed(v) /\ ~Undisturbed(w)
      BY <1>3, <3>1 DEF Judges, Undisturbed
    <3>3. pc'[v] # "idle" /\ pc'[w] # "idle"
      BY <1>3, <3>1 DEF Judges
    <3>4. QED
      BY <2>9, <3>2, <3>3, StepSplit, OutsideTouches, OthersUndisturbed
  <2>10. QED
    BY <2>4, <2>5, <2>8, <2>9
<1>4. CASE \E w \in Workers : Judges(w) /\ cur[w] = j /\ UNCHANGED <<job, item, cur>>
  <2>1. PICK w \in Workers : Judges(w) /\ cur[w] = j /\ UNCHANGED <<job, item, cur>>
    BY <1>4
  <2>2. QED
    BY <1>3, <2>1
<1>5. CASE ~\E w \in Workers : Judges(w) /\ cur[w] = j /\ UNCHANGED <<job, item, cur>>
  <2>1. finalized'[j] = finalized[j]
    BY <1>5, CountStep
  <2>2. \A w \in Workers : Finishing(w, j)' => Finishing(w, j)
    BY <1>2, <1>5
  <2>3. finalized[j] = 1 => Over(j)'
    <3>1. SUFFICES ASSUME finalized[j] = 1 PROVE Over(j)'
      OBVIOUS
    <3>2. CASE Created(j)
      BY <1>1, <3>1, <3>2, OverStep
    <3>3. CASE ~Created(j)
      <4>1. ~Terminal(job[j].status) /\ Accounted(job[j])
        BY <3>3 DEF HoldInv, AbsentEmpty, NoRow, Terminal, Accounted
      <4>2. \A w \in Workers : ~Finishing(w, j)
        BY <3>3 DEF Finishing, HoldInv, WorkersHold
      <4>3. QED
        BY <1>1, <3>1, <4>1, <4>2 DEF Over
    <3>4. QED
      BY <3>2, <3>3
  <2>4. QED
    BY <1>1, <2>1, <2>2, <2>3
<1>6. QED
  BY <1>4, <1>5

\* A job is counted in ingest_jobs_total at most once by any number of workers,
\* unless two of them were between the read and the write of its finalization
\* together, until a store call fails or the process is restarted (runJob's
\* guard on a terminal status, pool.go).
THEOREM CountedOnceHolds == Spec => []CountedOnce
<1> DEFINE Inv == \A j \in Jobs : CountedInv(j)
<1>1. Init => FreshInv /\ Inv
  BY DEF Init, FreshInv, CountedInv, Finishing, Created, NoRow, PastGet, Zero
<1>2. HoldInv /\ HoldInv' /\ FreshInv /\ [Next]_vars => FreshInv'
  BY FreshInvStep
<1>3. /\ HoldInv /\ HoldInv' /\ CountInv /\ CountInv' /\ FreshInv /\ FreshInv' /\ Inv /\ [Next]_vars
      => Inv'
  BY CountedInvStep
<1>4. Inv => CountedOnce
  BY DEF CountedInv, CountedOnce
<1>5. QED
  BY <1>1, <1>2, <1>3, <1>4, HoldInvHolds, CountInvHolds, PTL DEF Spec
=============================================================================
