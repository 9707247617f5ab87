---------------------------- MODULE MemoryStore ----------------------------
(***************************************************************************)
(* Deleting memories (internal/memory): DELETE /memories/{id}, the          *)
(* purge-before-insert of a bulk request, the tombstones that hide a memory *)
(* while LightRAG deletes it, the source index that says which memories a   *)
(* file produced, and the reaper that removes tombstones.                   *)
(*                                                                          *)
(* LightRAG is external.  It is modelled from how the service uses it: a    *)
(* track's document is deleted in the background under a pipeline lock that *)
(* refuses other deletes ("busy"), a deletion may fail, inserting a text    *)
(* that is still indexed returns the existing track, and a track whose      *)
(* document is gone never has one again.                                    *)
(*                                                                          *)
(* Time is counted in ticks of the reaper (5 minutes in the code).          *)
(***************************************************************************)
EXTENDS Naturals, FiniteSets

CONSTANTS
    Tracks,        \* track identifiers
    Files,         \* files of one repository
    Callers,       \* requests in flight: DELETE of a track, or a purge of files
    Ingesters,     \* ingest workers that insert a text and index its source
    ReapBatch,     \* TombstoneReapBatchSize (1000 in the code)
    ForceAge,      \* maxAge, in ticks (24 h in the code)
    BackoffBase,   \* forceReapBackoffBase, in ticks (1 h in the code)
    BackoffCap,    \* forceReapBackoffCap, in ticks (24 h in the code)
    MaxAttempts,   \* bound on the force_reap_attempts that are told apart
    MaxCrashes,    \* bound on process restarts
    MaxFaults,     \* bound on failed reaper calls, failed sources.Add and expired contexts
    NoTrack,
    NoFile

ASSUME MemoryAssumption ==
    /\ IsFiniteSet(Tracks)
    /\ NoTrack \notin Tracks
    /\ NoFile \notin Files
    /\ ReapBatch \in Nat \ {0}
    /\ ForceAge \in Nat
    /\ BackoffBase \in Nat \ {0}
    /\ BackoffCap \in Nat
    /\ BackoffBase <= BackoffCap
    /\ MaxAttempts \in Nat \ {0}
    /\ MaxCrashes \in Nat
    /\ MaxFaults \in Nat

VARIABLES
    doc,       \* LightRAG's document of each track
    tomb,      \* deleted_memories: the row of each track
    index,     \* memory_sources: pairs of a file and a track
    acked,     \* tracks whose deletion some caller was told has started
    pc,        \* program counter of each caller
    files,     \* files a caller still has to purge
    file,      \* the file it purges, NoFile for DELETE /memories/{id}
    ids,       \* the track_ids TrackIDs returned to it
    todo,      \* those it has not handled yet
    cur,       \* the track it is deleting
    expired,   \* its context is done: the client left or the purge budget is spent
    holding,   \* what an ingest worker inserted and has not indexed yet
    rpc,       \* program counter of the reaper
    rlist,     \* tombstones the reaper still has to check
    rcur,      \* the tombstone the reaper is about to delete
    crashes,
    faults

caller  == <<pc, files, file, ids, todo, cur, expired>>
reaper  == <<rpc, rlist, rcur>>
bounds  == <<crashes, faults>>
vars    == <<doc, tomb, index, acked, caller, holding, reaper, bounds>>

NoTomb == [marked |-> FALSE, age |-> 0, attempts |-> 0, wait |-> 0]

Nothing == <<NoFile, NoTrack>>

Live(t)   == doc[t] \in {"present", "deleting"}
Marked(t) == tomb[t].marked

\* GetMemory: a tombstone hides the track, a track without documents is not found.
Visible(t) == ~Marked(t) /\ Live(t)

Fault   == faults < MaxFaults /\ faults' = faults + 1

Init ==
    /\ doc     = [t \in Tracks |-> "new"]
    /\ tomb    = [t \in Tracks |-> NoTomb]
    /\ index   = {}
    /\ acked   = {}
    /\ pc      = [c \in Callers |-> "idle"]
    /\ files   = [c \in Callers |-> {}]
    /\ file    = [c \in Callers |-> NoFile]
    /\ ids     = [c \in Callers |-> {}]
    /\ todo    = [c \in Callers |-> {}]
    /\ cur     = [c \in Callers |-> NoTrack]
    /\ expired = [c \in Callers |-> FALSE]
    /\ holding = [w \in Ingesters |-> Nothing]
    /\ rpc     = "idle"
    /\ rlist   = {}
    /\ rcur    = NoTrack
    /\ crashes = 0
    /\ faults  = 0

-----------------------------------------------------------------------------
(* LightRAG and the inserts.                                                *)

\* POST /memories inserts a text; it has no source-index row.
CreateMemory(t) ==
    /\ doc[t] = "new"
    /\ doc' = [doc EXCEPT ![t] = "present"]
    /\ UNCHANGED <<tomb, index, acked, caller, holding, reaper, bounds>>

\* An ingest worker inserts a text of file f: a new track, or ("duplicated")
\* the existing track of a text that is still indexed.
IngestCreate(w, f, t) ==
    /\ holding[w] = Nothing
    /\ doc[t] # "absent"
    /\ doc' = [doc EXCEPT ![t] = IF @ = "new" THEN "present" ELSE @]
    /\ holding' = [holding EXCEPT ![w] = <<f, t>>]
    /\ UNCHANGED <<tomb, index, acked, caller, reaper, bounds>>

\* sources.Add; a failure is only logged.
IngestAdd(w) ==
    /\ holding[w] # Nothing
    /\ \/ index' = index \cup {holding[w]} /\ UNCHANGED faults
       \/ Fault /\ UNCHANGED index
    /\ holding' = [holding EXCEPT ![w] = Nothing]
    /\ UNCHANGED <<doc, tomb, acked, caller, reaper, crashes>>

\* The background deletion ends: the document is gone, or is still there.
DeletionEnds(t) ==
    /\ doc[t] = "deleting"
    /\ \E d \in {"absent", "present"} : doc' = [doc EXCEPT ![t] = d]
    /\ UNCHANGED <<tomb, index, acked, caller, holding, reaper, bounds>>

PipelineFree == \A t \in Tracks : doc[t] # "deleting"

-----------------------------------------------------------------------------
(* Callers.                                                                 *)

Goto(c, label) == pc' = [pc EXCEPT ![c] = label]

\* The handler returns.
Done(c) ==
    /\ Goto(c, "idle")
    /\ files'   = [files   EXCEPT ![c] = {}]
    /\ file'    = [file    EXCEPT ![c] = NoFile]
    /\ ids'     = [ids     EXCEPT ![c] = {}]
    /\ todo'    = [todo    EXCEPT ![c] = {}]
    /\ cur'     = [cur     EXCEPT ![c] = NoTrack]
    /\ expired' = [expired EXCEPT ![c] = FALSE]

DeleteMemory(c, t) ==
    /\ pc[c] = "idle"
    /\ Goto(c, "status")
    /\ cur' = [cur EXCEPT ![c] = t]
    /\ UNCHANGED <<doc, tomb, index, acked, files, file, ids, todo, expired, holding, reaper, bounds>>

\* handleBulkIngest purges the reconcile files before it enqueues the items.
DeleteMemoriesBySources(c, F) ==
    /\ pc[c] = "idle"
    /\ F # {}
    /\ Goto(c, "file")
    /\ files' = [files EXCEPT ![c] = F]
    /\ UNCHANGED <<doc, tomb, index, acked, file, ids, todo, cur, expired, holding, reaper, bounds>>

\* DeleteMemoriesBySource begins with the next file.
NextFile(c) ==
    /\ pc[c] = "file"
    /\ \E f \in files[c] :
         /\ file' = [file EXCEPT ![c] = f]
         /\ files' = [files EXCEPT ![c] = @ \ {f}]
    /\ Goto(c, "list")
    /\ UNCHANGED <<doc, tomb, index, acked, ids, todo, cur, expired, holding, reaper, bounds>>

\* The next turn of the loop over the file's tracks, or the index cleanup.
NextTrack(c, rest) ==
    \/ /\ rest = {}
       /\ Goto(c, "cleanup")
       /\ cur' = [cur EXCEPT ![c] = NoTrack]
       /\ todo' = [todo EXCEPT ![c] = {}]
    \/ \E t \in rest :
         /\ Goto(c, "status")
         /\ cur' = [cur EXCEPT ![c] = t]
         /\ todo' = [todo EXCEPT ![c] = rest \ {t}]

TracksOf(f) == {t \in Tracks : <<f, t>> \in index}

TrackIDs(c) ==
    /\ pc[c] = "list"
    /\ \/ expired[c] /\ Done(c)
       \/ /\ ~expired[c]
          /\ ids' = [ids EXCEPT ![c] = TracksOf(file[c])]
          /\ NextTrack(c, TracksOf(file[c]))
          /\ UNCHANGED <<files, file, expired>>
    /\ UNCHANGED <<doc, tomb, index, acked, holding, reaper, bounds>>

\* Seeded fault: the loop over the tracks skips every error, not only ErrNotFound.
Failed_SkipsTrack(c) ==
    \/ file[c] = NoFile /\ Done(c)
    \/ file[c] # NoFile /\ NextTrack(c, todo[c]) /\ UNCHANGED <<files, file, ids, expired>>

\* deleteMemoryRaw returned an error other than ErrNotFound: the request ends.
Failed(c) == Done(c)

\* deleteMemoryRaw returned nil or ErrNotFound: a purge goes on with its loop.
Handled(c) ==
    \/ file[c] = NoFile /\ Done(c)
    \/ file[c] # NoFile /\ NextTrack(c, todo[c]) /\ UNCHANGED <<files, file, ids, expired>>

\* deleteMemoryRaw asks LightRAG for the track's documents.
TrackStatus(c) ==
    /\ pc[c] = "status"
    /\ \/ expired[c] /\ Failed(c)
       \/ ~expired[c] /\ ~Live(cur[c]) /\ Handled(c)
       \/ ~expired[c] /\ Live(cur[c]) /\ Goto(c, "mark")
          /\ UNCHANGED <<files, file, ids, todo, cur, expired>>
    /\ UNCHANGED <<doc, tomb, index, acked, holding, reaper, bounds>>

\* An upsert: marking again refreshes deleted_at and leaves the reap columns.
Mark(c) ==
    /\ pc[c] = "mark"
    /\ \/ expired[c] /\ Failed(c) /\ UNCHANGED tomb
       \/ /\ ~expired[c]
          /\ tomb' = [tomb EXCEPT ![cur[c]] = [@ EXCEPT !.marked = TRUE, !.age = 0]]
          /\ Goto(c, "delete")
          /\ UNCHANGED <<files, file, ids, todo, cur, expired>>
    /\ UNCHANGED <<doc, index, acked, holding, reaper, bounds>>

\* DeleteDocs.  LightRAG starts the deletion or not; the caller is told that
\* it started, or sees busy, a failure, or an error that says nothing.
DeleteDocs(c) ==
    /\ pc[c] = "delete"
    /\ \E started, told \in BOOLEAN :
         /\ started => PipelineFree /\ doc[cur[c]] = "present"
         /\ told => started /\ ~expired[c]
         /\ doc' = IF started THEN [doc EXCEPT ![cur[c]] = "deleting"] ELSE doc
         /\ \/ told /\ acked' = acked \cup {cur[c]} /\ Handled(c)
            \/ /\ ~told
               /\ Goto(c, "unmark")
               /\ UNCHANGED <<acked, files, file, ids, todo, cur, expired>>
    /\ UNCHANGED <<tomb, index, holding, reaper, bounds>>

\* Seeded fault: the rollback is forgotten.
Unmark_Forgotten(c) ==
    /\ pc[c] = "unmark"
    /\ Failed(c)
    /\ UNCHANGED <<doc, tomb, index, acked, holding, reaper, bounds>>

\* The rollback runs on the caller's context and its error is ignored.
Unmark(c) ==
    /\ pc[c] = "unmark"
    /\ tomb' = IF expired[c] THEN tomb ELSE [tomb EXCEPT ![cur[c]] = NoTomb]
    /\ Failed(c)
    /\ UNCHANGED <<doc, index, acked, holding, reaper, bounds>>

DeleteByFile(c) ==
    /\ pc[c] = "cleanup"
    /\ \/ expired[c] /\ Done(c) /\ UNCHANGED index
       \/ /\ ~expired[c]
          /\ index' = {r \in index : r[1] # file[c]}
          /\ \/ files[c] = {} /\ Done(c)
             \/ /\ files[c] # {}
                /\ Goto(c, "file")
                /\ file' = [file EXCEPT ![c] = NoFile]
                /\ ids' = [ids EXCEPT ![c] = {}]
                /\ UNCHANGED <<files, todo, cur, expired>>
    /\ UNCHANGED <<doc, tomb, acked, holding, reaper, bounds>>

\* The purge budget runs out or the client leaves.  It also stands for a store
\* or upstream call that fails by itself: either way the request's next call
\* fails, and a failed call ends the request (after the rollback, if one is due).
Expire(c) ==
    /\ pc[c] # "idle"
    /\ ~expired[c]
    /\ Fault
    /\ expired' = [expired EXCEPT ![c] = TRUE]
    /\ UNCHANGED <<doc, tomb, index, acked, pc, files, file, ids, todo, cur, holding, reaper, crashes>>

-----------------------------------------------------------------------------
(* The reaper.                                                              *)

AtMost(n, m) == IF n <= m THEN n ELSE m

\* The delay, in ticks, before the next forced check of a stuck tombstone.
forceReapBackoff(attempts) == AtMost(BackoffBase * 2^(attempts - 1), BackoffCap)

\* B is the result of SELECT ... ORDER BY deleted_at LIMIT ReapBatch on S, each
\* deleted_at being known up to the age at which a row is aged.
OldestFirst(S, B) ==
    /\ B \subseteq S
    /\ Cardinality(B) = AtMost(Cardinality(S), ReapBatch)
    /\ \A t \in B, u \in S \ B : tomb[t].age >= tomb[u].age

ListAll == {t \in Tracks : Marked(t)}

\* ListOlderThan's rows: aged, and no later check is scheduled.
ListOlderThan == {t \in Tracks : Marked(t) /\ tomb[t].age >= ForceAge /\ tomb[t].wait = 0}

\* A tick begins: every row is one tick older.
Tick ==
    /\ rpc = "idle"
    /\ rpc' = "fast"
    /\ \E B \in SUBSET ListAll : OldestFirst(ListAll, B) /\ rlist' = B
    /\ tomb' = [t \in Tracks |->
                  IF Marked(t)
                  THEN [tomb[t] EXCEPT !.age  = AtMost(@ + 1, ForceAge),
                                       !.wait = IF @ = 0 THEN 0 ELSE @ - 1]
                  ELSE tomb[t]]
    /\ UNCHANGED <<doc, index, acked, caller, holding, rcur, bounds>>

\* The fast path is through: forceTick lists the aged tombstones.
ForceTick ==
    /\ rpc = "fast"
    /\ rlist = {}
    /\ rpc' = "force"
    /\ \E B \in SUBSET ListOlderThan : OldestFirst(ListOlderThan, B) /\ rlist' = B
    /\ UNCHANGED <<doc, tomb, index, acked, caller, holding, rcur, bounds>>

\* Seeded fault: the next check of a stuck tombstone is not scheduled.
RecordForceCheckStillPresent_NoDelay(t) ==
    [tomb EXCEPT ![t] = IF @.marked THEN [@ EXCEPT !.attempts = AtMost(@ + 1, MaxAttempts)] ELSE @]

\* UPDATE ... WHERE track_id: no row, no effect.
RecordForceCheckStillPresent(t) ==
    LET n == AtMost(tomb[t].attempts + 1, MaxAttempts)
    IN  [tomb EXCEPT ![t] = IF @.marked THEN [@ EXCEPT !.attempts = n, !.wait = forceReapBackoff(n)] ELSE @]

\* Seeded fault: a track with documents counts as gone when it is being deleted.
ConfirmedGone_WhenDeleting(t) == doc[t] # "present"

\* TrackStatus answers 404 or an empty list.
ConfirmedGone(t) == ~Live(t)

\* One turn of the loop of tick or forceTick: TrackStatus, then a confirmed
\* track goes on to the delete; an error keeps the tombstone.
ReapCheck ==
    /\ rpc \in {"fast", "force"}
    /\ \E t \in rlist :
         /\ rlist' = rlist \ {t}
         /\ \/ /\ ConfirmedGone(t)
               /\ rcur' = t
               /\ UNCHANGED <<tomb, faults>>
            \/ /\ ~ConfirmedGone(t)
               /\ tomb' = IF rpc = "force" THEN RecordForceCheckStillPresent(t) ELSE tomb
               /\ UNCHANGED <<rcur, faults>>
            \/ Fault /\ UNCHANGED <<tomb, rcur>>
    /\ rcur = NoTrack
    /\ UNCHANGED <<doc, index, acked, caller, holding, rpc, crashes>>

\* reapConfirmed, reapConfirmedForced: the delete may fail.
ReapConfirmed ==
    /\ rcur # NoTrack
    /\ \/ tomb' = [tomb EXCEPT ![rcur] = NoTomb] /\ UNCHANGED faults
       \/ Fault /\ UNCHANGED tomb
    /\ rcur' = NoTrack
    /\ UNCHANGED <<doc, index, acked, caller, holding, rpc, rlist, crashes>>

\* forceTick is through, or a List failed or the tick's deadline passed.
TickEnds ==
    /\ rcur = NoTrack
    /\ \/ rpc = "force" /\ rlist = {} /\ UNCHANGED faults
       \/ rpc # "idle" /\ Fault
    /\ rpc' = "idle"
    /\ rlist' = {}
    /\ UNCHANGED <<doc, tomb, index, acked, caller, holding, rcur, crashes>>

-----------------------------------------------------------------------------
\* A restart forgets the requests and the reaper's tick; an ingest item is in
\* the job store and is run again.
Crash ==
    /\ crashes < MaxCrashes
    /\ crashes' = crashes + 1
    /\ pc'      = [c \in Callers |-> "idle"]
    /\ files'   = [c \in Callers |-> {}]
    /\ file'    = [c \in Callers |-> NoFile]
    /\ ids'     = [c \in Callers |-> {}]
    /\ todo'    = [c \in Callers |-> {}]
    /\ cur'     = [c \in Callers |-> NoTrack]
    /\ expired' = [c \in Callers |-> FALSE]
    /\ rpc'     = "idle"
    /\ rlist'   = {}
    /\ rcur'    = NoTrack
    /\ UNCHANGED <<doc, tomb, index, acked, holding, faults>>

CallerStep(c) ==
    \/ NextFile(c)
    \/ TrackIDs(c)
    \/ TrackStatus(c)
    \/ Mark(c)
    \/ DeleteDocs(c)
    \/ Unmark(c)
    \/ DeleteByFile(c)

ReaperStep == Tick \/ ForceTick \/ ReapCheck \/ ReapConfirmed \/ TickEnds

Next ==
    \/ \E t \in Tracks : CreateMemory(t) \/ DeletionEnds(t)
    \/ \E w \in Ingesters : IngestAdd(w) \/ \E f \in Files, t \in Tracks : IngestCreate(w, f, t)
    \/ \E c \in Callers :
         \/ \E t \in Tracks : DeleteMemory(c, t)
         \/ \E F \in SUBSET Files : DeleteMemoriesBySources(c, F)
         \/ CallerStep(c)
         \/ Expire(c)
    \/ ReaperStep
    \/ Crash

Spec == Init /\ [][Next]_vars

\* The reaper's ticker fires and its goroutine runs; requests that are under
\* way are served.  Nothing else is forced: LightRAG may never finish.
FairSpec == Spec /\ WF_vars(ReaperStep) /\ \A c \in Callers : WF_vars(CallerStep(c))

-----------------------------------------------------------------------------
(* Properties.                                                              *)

\* Every variable holds a value of its kind.
TypeOK ==
    /\ doc \in [Tracks -> {"new", "present", "deleting", "absent"}]
    /\ tomb \in [Tracks -> [marked : BOOLEAN, age : 0..ForceAge,
                            attempts : 0..MaxAttempts, wait : 0..BackoffCap]]
    /\ index \subseteq Files \X Tracks
    /\ acked \subseteq Tracks
    /\ pc \in [Callers -> {"idle", "file", "list", "status", "mark", "delete", "unmark", "cleanup"}]
    /\ files \in [Callers -> SUBSET Files]
    /\ file \in [Callers -> Files \cup {NoFile}]
    /\ ids \in [Callers -> SUBSET Tracks]
    /\ todo \in [Callers -> SUBSET Tracks]
    /\ cur \in [Callers -> Tracks \cup {NoTrack}]
    /\ expired \in [Callers -> BOOLEAN]
    /\ holding \in [Ingesters -> (Files \X Tracks) \cup {Nothing}]
    /\ rpc \in {"idle", "fast", "force"}
    /\ rlist \subseteq Tracks
    /\ rcur \in Tracks \cup {NoTrack}
    /\ crashes \in 0..MaxCrashes
    /\ faults \in 0..MaxFaults

\* The reaper never uncovers a memory: between its TrackStatus and its
\* Delete, whatever callers and LightRAG do, the document stays gone.  Only
\* the rollback of a failed delete takes the tombstone of a live document.
ReaperUncoversNothing ==
    [][\A t \in Tracks :
          Marked(t) /\ ~Marked(t)' /\ Live(t)' =>
             \E c \in Callers : pc[c] = "unmark" /\ cur[c] = t]_vars

\* A purge clears a file's index rows only after every memory it had read
\* there was accepted for deletion or was gone: a failed delete leaves the
\* rows for the caller's retry.
CleanupOnlyAfterPurge ==
    \A c \in Callers :
        pc[c] = "cleanup" => \A t \in ids[c] : t \in acked \/ ~Live(t)

\* Without expired contexts and restarts a memory is hidden only while a
\* delete of it is under way or after LightRAG accepted one: every failed
\* delete was rolled back.
HiddenOnlyIfDeleted ==
    crashes = 0 /\ faults = 0 =>
        \A t \in Tracks :
            Marked(t) => \/ t \in acked
                         \/ \E c \in Callers : cur[c] = t /\ pc[c] \in {"delete", "unmark"}

\* The tombstone of a memory that is gone is removed in the end, although the
\* fast path looks only at the ReapBatch oldest tombstones and those may all
\* be stuck: the backoff of the forced path lets the others be checked.
TombstonesReaped ==
    \A t \in Tracks : Marked(t) /\ doc[t] = "absent" ~> ~Marked(t)

\* "GET-after-DELETE returns 404 immediately": once a delete was acknowledged
\* the memory is not visible again.
GetAfterDelete == \A t \in acked : ~Visible(t)
=============================================================================
