------------------------- MODULE MemoryStoreProofs -------------------------
(***************************************************************************)
(* Proofs about MemoryStore for any number of tracks, files, requests and  *)
(* ingest workers, any batch size, and any number of restarts and failing  *)
(* calls.                                                                  *)
(*                                                                         *)
(* The argument rests on one fact about LightRAG's documents: a track that *)
(* a tombstone, an index row, a request or the reaper knows of was once    *)
(* inserted, and an inserted track whose document is gone never has one    *)
(* again.  So what was seen to be gone is gone when it is acted upon.      *)
(***************************************************************************)
EXTENDS MemoryStore, TLAPS, FiniteSetTheorems

CallerKinds ==
    /\ pc \in [Callers -> {"idle", "file", "list", "status", "mark", "delete", "unmark", "cleanup"}]
    /\ files \in [Callers -> SUBSET Files]
    /\ file \in [Callers -> Files \cup {NoFile}]
    /\ ids \in [Callers -> SUBSET Tracks]
    /\ todo \in [Callers -> SUBSET Tracks]
    /\ cur \in [Callers -> Tracks \cup {NoTrack}]
    /\ expired \in [Callers -> BOOLEAN]

\* The kinds of values, but for the tombstones' clocks.
Kinds ==
    /\ doc \in [Tracks -> {"new", "present", "deleting", "absent"}]
    /\ index \subseteq Files \X Tracks
    /\ acked \subseteq Tracks
    /\ CallerKinds
    /\ holding \in [Ingesters -> (Files \X Tracks) \cup {Nothing}]
    /\ rpc \in {"idle", "fast", "force"}
    /\ rlist \subseteq Tracks
    /\ rcur \in Tracks \cup {NoTrack}
    /\ crashes \in Nat
    /\ faults \in Nat

TombRows ==
    /\ DOMAIN tomb = Tracks
    /\ \A t \in Tracks : /\ DOMAIN tomb[t] = {"marked", "age", "attempts", "wait"}
                         /\ tomb[t].marked \in BOOLEAN

\* What a request holds at each label.
CallersHold ==
    \A c \in Callers :
        /\ pc[c] \in {"status", "mark", "delete", "unmark"} => cur[c] \in Tracks
        /\ pc[c] \in {"list", "cleanup"} => file[c] \in Files
        /\ pc[c] \in {"idle", "file"} => file[c] = NoFile
        /\ pc[c] = "cleanup" => todo[c] = {}
        /\ pc[c] \in {"idle", "file", "list", "cleanup"} => cur[c] = NoTrack

HoldInv == Kinds /\ TombRows /\ CallersHold

USE DEF caller, reaper, bounds, Fault, Goto, Failed
USE MemoryAssumption

\* The initial states satisfy HoldInv.
LEMMA InitHoldInv == Init => HoldInv
<1> SUFFICES ASSUME Init PROVE HoldInv
  OBVIOUS
<1> USE DEF Init
<1>1. Kinds
  BY DEF Kinds, CallerKinds
<1>2. TombRows
  BY DEF TombRows, NoTomb
<1>3. CallersHold
  BY DEF CallersHold
<1>4. QED
  BY <1>1, <1>2, <1>3 DEF HoldInv

\* A handler that returns leaves its variables in order.
LEMMA DoneKinds ==
  ASSUME CallerKinds, NEW c \in Callers, Done(c)
  PROVE  CallerKinds'
  BY DEF CallerKinds, Done

\* So does the next turn of a purge's loop.
LEMMA NextTrackKinds ==
  ASSUME CallerKinds, NEW c \in Callers, NEW rest \in SUBSET Tracks, NextTrack(c, rest),
         ids' \in [Callers -> SUBSET Tracks], UNCHANGED <<files, file, expired>>
  PROVE  CallerKinds'
<1>1. CASE rest = {} /\ Goto(c, "cleanup") /\ cur' = [cur EXCEPT ![c] = NoTrack] /\ todo' = [todo EXCEPT ![c] = {}]
  BY <1>1 DEF CallerKinds
<1>2. ASSUME NEW t \in rest, Goto(c, "status"), cur' = [cur EXCEPT ![c] = t],
             todo' = [todo EXCEPT ![c] = rest \ {t}]
      PROVE  CallerKinds'
  BY <1>2 DEF CallerKinds
<1>3. QED
  BY <1>1, <1>2 DEF NextTrack

\* And what follows a delete that was accepted or not needed.
LEMMA HandledKinds ==
  ASSUME CallerKinds, NEW c \in Callers, Handled(c)
  PROVE  CallerKinds'
<1>1. CASE Done(c)
  BY <1>1, DoneKinds
<1>2. CASE NextTrack(c, todo[c]) /\ UNCHANGED <<files, file, ids, expired>>
  <2>1. todo[c] \in SUBSET Tracks /\ ids' \in [Callers -> SUBSET Tracks]
    BY <1>2 DEF CallerKinds
  <2>2. QED
    BY <1>2, <2>1, NextTrackKinds
<1>3. QED
  BY <1>1, <1>2 DEF Handled

\* Every step keeps the kinds of values.
LEMMA KindsStep == ASSUME HoldInv, [Next]_vars PROVE Kinds'
<1> USE DEF HoldInv, Kinds
<1>1. ASSUME NEW t \in Tracks, CreateMemory(t) \/ DeletionEnds(t) PROVE Kinds'
  BY <1>1 DEF CreateMemory, DeletionEnds, CallerKinds
<1>2. ASSUME NEW w \in Ingesters, IngestAdd(w) PROVE Kinds'
  BY <1>2 DEF IngestAdd, CallerKinds
<1>3. ASSUME NEW w \in Ingesters, NEW f \in Files, NEW t \in Tracks, IngestCreate(w, f, t) PROVE Kinds'
  BY <1>3 DEF IngestCreate, CallerKinds
<1>4. ASSUME NEW c \in Callers, NEW t \in Tracks, DeleteMemory(c, t) PROVE Kinds'
  BY <1>4 DEF DeleteMemory, CallerKinds
<1>5. ASSUME NEW c \in Callers, NEW F \in SUBSET Files, DeleteMemoriesBySources(c, F) PROVE Kinds'
  BY <1>5 DEF DeleteMemoriesBySources, CallerKinds
<1>6. ASSUME NEW c \in Callers, NextFile(c) PROVE Kinds'
  BY <1>6 DEF NextFile, CallerKinds
<1>7. ASSUME NEW c \in Callers, TrackIDs(c) PROVE Kinds'
  <2>1. CASE Done(c)
    BY <1>7, <2>1, DoneKinds DEF TrackIDs
  <2>2. CASE NextTrack(c, TracksOf(file[c])) /\ ids' = [ids EXCEPT ![c] = TracksOf(file[c])]
             /\ UNCHANGED <<files, file, expired>>
    <3>1. TracksOf(file[c]) \in SUBSET Tracks
      BY DEF TracksOf
    <3>2. ids' \in [Callers -> SUBSET Tracks]
      BY <2>2, <3>1 DEF CallerKinds
    <3>3. CallerKinds'
      BY <2>2, <3>1, <3>2, NextTrackKinds
    <3>4. QED
      BY <1>7, <3>3 DEF TrackIDs
  <2>3. QED
    BY <1>7, <2>1, <2>2 DEF TrackIDs
<1>8. ASSUME NEW c \in Callers, TrackStatus(c) PROVE Kinds'
  <2>1. CallerKinds'
    <3>1. CASE Done(c) \/ Handled(c)
      BY <3>1, DoneKinds, HandledKinds
    <3>2. CASE Goto(c, "mark") /\ UNCHANGED <<files, file, ids, todo, cur, expired>>
      BY <3>2 DEF CallerKinds
    <3>3. QED
      BY <1>8, <3>1, <3>2 DEF TrackStatus
  <2>2. QED
    BY <1>8, <2>1 DEF TrackStatus
<1>9. ASSUME NEW c \in Callers, Mark(c) PROVE Kinds'
  <2>1. CallerKinds'
    <3>1. CASE Done(c)
      BY <3>1, DoneKinds
    <3>2. CASE Goto(c, "delete") /\ UNCHANGED <<files, file, ids, todo, cur, expired>>
      BY <3>2 DEF CallerKinds
    <3>3. QED
      BY <1>9, <3>1, <3>2 DEF Mark
  <2>2. QED
    BY <1>9, <2>1 DEF Mark
<1>10. ASSUME NEW c \in Callers, DeleteDocs(c) PROVE Kinds'
  <2>1. CallerKinds'
    <3>1. CASE Handled(c)
      BY <3>1, HandledKinds
    <3>2. CASE Goto(c, "unmark") /\ UNCHANGED <<files, file, ids, todo, cur, expired>>
      BY <3>2 DEF CallerKinds
    <3>3. QED
      BY <1>10, <3>1, <3>2 DEF DeleteDocs
  <2>2. cur[c] \in Tracks
    BY <1>10 DEF DeleteDocs, CallersHold
  <2>3. doc' \in [Tracks -> {"new", "present", "deleting", "absent"}] /\ acked' \subseteq Tracks
    BY <1>10, <2>2 DEF DeleteDocs
  <2>4. QED
    BY <1>10, <2>1, <2>3 DEF DeleteDocs
<1>11. ASSUME NEW c \in Callers, Unmark(c) PROVE Kinds'
  BY <1>11, DoneKinds DEF Unmark
<1>12. ASSUME NEW c \in Callers, DeleteByFile(c) PROVE Kinds'
  <2>1. CallerKinds'
    <3>1. CASE Done(c)
      BY <3>1, DoneKinds
    <3>2. CASE /\ Goto(c, "file") /\ file' = [file EXCEPT ![c] = NoFile]
               /\ ids' = [ids EXCEPT ![c] = {}] /\ UNCHANGED <<files, todo, cur, expired>>
      BY <3>2 DEF CallerKinds
    <3>3. QED
      BY <1>12, <3>1, <3>2 DEF DeleteByFile
  <2>2. QED
    BY <1>12, <2>1 DEF DeleteByFile
<1>13. ASSUME NEW c \in Callers, Expire(c) PROVE Kinds'
  BY <1>13 DEF Expire, CallerKinds
<1>14. CASE ReaperStep
  <2>1. CallerKinds'
    BY <1>14 DEF ReaperStep, Tick, ForceTick, ReapCheck, ReapConfirmed, TickEnds, CallerKinds
  <2>2. CASE Tick \/ ForceTick
    BY <2>1, <2>2 DEF Tick, ForceTick, ListAll, ListOlderThan
  <2>3. CASE ReapCheck
    BY <2>1, <2>3 DEF ReapCheck
  <2>4. CASE ReapConfirmed \/ TickEnds
    BY <2>1, <2>4 DEF ReapConfirmed, TickEnds
  <2>5. QED
    BY <1>14, <2>2, <2>3, <2>4 DEF ReaperStep
<1>15. CASE Crash
  BY <1>15 DEF Crash, CallerKinds
<1>16. CASE UNCHANGED vars
  BY <1>16 DEF vars, CallerKinds
<1>17. QED
  BY <1>1, <1>2, <1>3, <1>4, <1>5, <1>6, <1>7, <1>8, <1>9, <1>10, <1>11, <1>12, <1>13, <1>14,
     <1>15, <1>16 DEF Next, CallerStep

-----------------------------------------------------------------------------
(* What a step does to one document, one tombstone and one request.         *)

DocMoves(t) ==
    \/ doc'[t] = doc[t]
    \/ doc[t] = "new" /\ doc'[t] = "present"
    \/ doc[t] = "present" /\ doc'[t] = "deleting"
    \/ doc[t] = "deleting" /\ doc'[t] \in {"present", "absent"}

\* A document is inserted, deleted or kept, and what is gone stays gone.
LEMMA DocStep ==
  ASSUME HoldInv, [Next]_vars, NEW t \in Tracks
  PROVE  DocMoves(t)
<1> USE DEF HoldInv, Kinds, DocMoves
<1>1. CASE UNCHANGED doc
  BY <1>1
<1>2. ASSUME NEW u \in Tracks, CreateMemory(u) \/ DeletionEnds(u) PROVE DocMoves(t)
  BY <1>2 DEF CreateMemory, DeletionEnds
<1>3. ASSUME NEW w \in Ingesters, NEW f \in Files, NEW u \in Tracks, IngestCreate(w, f, u)
      PROVE  DocMoves(t)
  BY <1>3 DEF IngestCreate
<1>4. ASSUME NEW c \in Callers, DeleteDocs(c) PROVE DocMoves(t)
  <2>1. cur[c] \in Tracks
    BY <1>4 DEF DeleteDocs, CallersHold
  <2>2. QED
    BY <1>4, <2>1 DEF DeleteDocs
<1>5. CASE ReaperStep \/ Crash \/ UNCHANGED vars
  BY <1>1, <1>5 DEF ReaperStep, Tick, ForceTick, ReapCheck, ReapConfirmed, TickEnds, Crash, vars
<1>6. ASSUME NEW c \in Callers,
             \/ \E u \in Tracks : DeleteMemory(c, u)
             \/ \E F \in SUBSET Files : DeleteMemoriesBySources(c, F)
             \/ CallerStep(c)
             \/ Expire(c)
      PROVE  DocMoves(t)
  BY <1>1, <1>4, <1>6 DEF CallerStep, DeleteMemory, DeleteMemoriesBySources, NextFile, TrackIDs,
     TrackStatus, Mark, Unmark, DeleteByFile, Expire
<1>7. ASSUME NEW w \in Ingesters, IngestAdd(w) PROVE DocMoves(t)
  BY <1>1, <1>7 DEF IngestAdd
<1>8. QED
  BY <1>2, <1>3, <1>5, <1>6, <1>7 DEF Next

TombMoves(t) ==
    \/ Marked(t)' = Marked(t)
    \/ \E c \in Callers : pc[c] = "mark" /\ cur[c] = t /\ pc'[c] = "delete" /\ cur'[c] = t /\ Marked(t)'
    \/ \E c \in Callers : pc[c] = "unmark" /\ cur[c] = t /\ ~expired[c] /\ ~Marked(t)'
    \/ rcur = t /\ ~Marked(t)'

\* A tombstone is written by Mark, and taken by Unmark or by the reaper.
LEMMA TombStep ==
  ASSUME HoldInv, [Next]_vars
  PROVE  TombRows' /\ \A t \in Tracks : TombMoves(t)
<1> DEFINE Goal == TombRows' /\ \A t \in Tracks : TombMoves(t)
<1> USE DEF HoldInv, TombRows, TombMoves, Marked
<1>1. CASE UNCHANGED tomb
  BY <1>1
<1>2. ASSUME NEW c \in Callers, Mark(c) PROVE Goal
  <2>1. CASE UNCHANGED tomb
    BY <2>1
  <2>2. CASE /\ tomb' = [tomb EXCEPT ![cur[c]] = [@ EXCEPT !.marked = TRUE, !.age = 0]]
             /\ Goto(c, "delete") /\ UNCHANGED cur /\ pc[c] = "mark"
    <3>1. cur[c] \in Tracks /\ pc'[c] = "delete" /\ cur'[c] = cur[c]
      BY <2>2 DEF CallersHold, Kinds, CallerKinds
    <3>2. DOMAIN tomb' = Tracks /\ \A t \in Tracks : t # cur[c] => tomb'[t] = tomb[t]
      BY <2>2, <3>1
    <3>3. tomb'[cur[c]] = [tomb[cur[c]] EXCEPT !.marked = TRUE, !.age = 0]
      BY <2>2, <3>1
    <3>4. tomb'[cur[c]].marked = TRUE /\ DOMAIN tomb'[cur[c]] = {"marked", "age", "attempts", "wait"}
      BY <3>1, <3>3
    <3>5. TombRows'
      BY <3>1, <3>2, <3>4
    <3>6. ASSUME NEW t \in Tracks PROVE TombMoves(t)
      BY <2>2, <3>1, <3>2, <3>4
    <3>7. QED
      BY <3>5, <3>6
  <2>3. QED
    BY <1>2, <2>1, <2>2 DEF Mark
<1>3. ASSUME NEW c \in Callers, Unmark(c) PROVE Goal
  <2>1. cur[c] \in Tracks
    BY <1>3 DEF Unmark, CallersHold
  <2>2. TombRows'
    BY <1>3, <2>1 DEF Unmark, NoTomb
  <2>3. CASE expired[c]
    BY <1>1, <1>3, <2>3 DEF Unmark
  <2>4. CASE ~expired[c]
    <3>1. tomb'[cur[c]] = NoTomb /\ \A t \in Tracks : t # cur[c] => tomb'[t] = tomb[t]
      BY <1>3, <2>1, <2>4 DEF Unmark
    <3>2. QED
      BY <1>3, <2>1, <2>2, <2>4, <3>1 DEF Unmark, NoTomb
  <2>5. QED
    BY <2>3, <2>4
<1>4. CASE Tick
  <2>1. DOMAIN tomb' = Tracks
    BY <1>4 DEF Tick
  <2>2. ASSUME NEW t \in Tracks
        PROVE  /\ DOMAIN tomb'[t] = {"marked", "age", "attempts", "wait"}
               /\ tomb'[t].marked = tomb[t].marked
    <3>1. CASE ~tomb[t].marked
      BY <1>4, <3>1 DEF Tick
    <3>2. CASE tomb[t].marked
      <4>1. tomb'[t] = [tomb[t] EXCEPT !.age  = AtMost(@ + 1, ForceAge),
                                       !.wait = IF @ = 0 THEN 0 ELSE @ - 1]
        BY <1>4, <3>2 DEF Tick
      <4>2. QED
        BY <4>1
    <3>3. QED
      BY <3>1, <3>2
  <2>3. QED
    BY <2>1, <2>2
<1>5. ASSUME NEW t \in Tracks, tomb' = RecordForceCheckStillPresent(t) PROVE Goal
  <2>1. /\ DOMAIN tomb' = Tracks
        /\ \A u \in Tracks : u # t => tomb'[u] = tomb[u]
    BY <1>5 DEF RecordForceCheckStillPresent
  <2>2. /\ DOMAIN tomb'[t] = {"marked", "age", "attempts", "wait"}
        /\ tomb'[t].marked = tomb[t].marked
    <3>1. CASE ~tomb[t].marked
      BY <1>5, <3>1 DEF RecordForceCheckStillPresent
    <3>2. CASE tomb[t].marked
      BY <1>5, <3>2 DEF RecordForceCheckStillPresent
    <3>3. QED
      BY <3>1, <3>2
  <2>3. QED
    BY <2>1, <2>2
<1>6. CASE ReapCheck
  BY <1>1, <1>5, <1>6 DEF ReapCheck, Kinds
<1>7. CASE ReapConfirmed
  <2>1. CASE tomb' = [tomb EXCEPT ![rcur] = NoTomb] /\ rcur \in Tracks
    <3>1. TombRows'
      BY <2>1 DEF NoTomb
    <3>2. tomb'[rcur] = NoTomb /\ \A t \in Tracks : t # rcur => tomb'[t] = tomb[t]
      BY <2>1
    <3>3. QED
      BY <2>1, <3>1, <3>2 DEF NoTomb
  <2>2. QED
    BY <1>1, <1>7, <2>1 DEF ReapConfirmed, Kinds
<1> HIDE DEF HoldInv, TombRows, TombMoves, Marked
<1>8. QED
  BY <1>1, <1>2, <1>3, <1>4, <1>6, <1>7 DEF Next, CallerStep, CreateMemory, DeletionEnds, IngestCreate,
     IngestAdd, DeleteMemory, DeleteMemoriesBySources,
     NextFile, TrackIDs, TrackStatus, DeleteDocs, DeleteByFile, Expire, ReaperStep, ForceTick,
     TickEnds, Crash, vars

Same(c) == pc'[c] = pc[c] /\ file'[c] = file[c] /\ ids'[c] = ids[c] /\ todo'[c] = todo[c] /\ cur'[c] = cur[c]

Reset(c) == pc'[c] = "idle" /\ file'[c] = NoFile /\ ids'[c] = {} /\ todo'[c] = {} /\ cur'[c] = NoTrack

Turn(c, rest) ==
    \/ rest = {} /\ pc'[c] = "cleanup" /\ cur'[c] = NoTrack /\ todo'[c] = {}
    \/ \E t \in rest : pc'[c] = "status" /\ cur'[c] = t /\ todo'[c] = rest \ {t}

\* The steps of a request, one disjunct for each way it goes on.
Moves(c) ==
    \/ Same(c)
    \/ /\ Reset(c)
       /\ pc[c] = "delete" => cur[c] \in acked' \/ crashes' # 0
       /\ pc[c] = "unmark" => expired[c] \/ ~tomb'[cur[c]].marked \/ crashes' # 0
    \/ /\ pc[c] = "idle" /\ pc'[c] = "status" /\ file'[c] = file[c] /\ cur'[c] \in Tracks
       /\ ids'[c] = ids[c] /\ todo'[c] = todo[c]
    \/ /\ ids'[c] = ids[c] /\ todo'[c] = todo[c] /\ cur'[c] = cur[c]
       /\ \/ pc[c] = "idle" /\ pc'[c] = "file" /\ file'[c] = file[c]
          \/ pc[c] = "file" /\ pc'[c] = "list" /\ file'[c] \in Files
    \/ pc[c] = "list" /\ file'[c] = file[c] /\ ids'[c] = TracksOf(file[c]) /\ Turn(c, TracksOf(file[c]))
    \/ /\ file[c] # NoFile /\ file'[c] = file[c] /\ ids'[c] = ids[c] /\ Turn(c, todo[c])
       /\ \/ pc[c] = "status" /\ ~Live(cur[c])
          \/ pc[c] = "delete" /\ cur[c] \in acked'
    \/ /\ file'[c] = file[c] /\ ids'[c] = ids[c] /\ todo'[c] = todo[c] /\ cur'[c] = cur[c]
       /\ \/ pc[c] = "status" /\ pc'[c] = "mark" /\ Live(cur[c])
          \/ pc[c] = "mark" /\ pc'[c] = "delete"
          \/ pc[c] = "delete" /\ pc'[c] = "unmark"
    \/ /\ pc[c] = "cleanup" /\ pc'[c] = "file" /\ file'[c] = NoFile
       /\ ids'[c] = {} /\ todo'[c] = todo[c] /\ cur'[c] = cur[c]

\* A handler that returns resets its request and leaves the others alone.
LEMMA DoneStep ==
  ASSUME CallerKinds, NEW c \in Callers, NEW d \in Callers, Done(d)
  PROVE  IF c = d THEN Reset(c) ELSE Same(c)
  BY DEF CallerKinds, Done, Reset, Same

\* The next turn of a purge's loop does to its request what Turn says.
LEMMA TurnStep ==
  ASSUME CallerKinds, NEW c \in Callers, NEW d \in Callers, NEW rest, NextTrack(d, rest),
         UNCHANGED file, ids' = [ids EXCEPT ![d] = ids'[d]]
  PROVE  IF c = d THEN Turn(c, rest) ELSE Same(c)
<1>1. CASE rest = {} /\ Goto(d, "cleanup") /\ cur' = [cur EXCEPT ![d] = NoTrack] /\ todo' = [todo EXCEPT ![d] = {}]
  BY <1>1 DEF CallerKinds, Turn, Same
<1>2. ASSUME NEW t \in rest, Goto(d, "status"), cur' = [cur EXCEPT ![d] = t],
             todo' = [todo EXCEPT ![d] = rest \ {t}]
      PROVE  IF c = d THEN Turn(c, rest) ELSE Same(c)
  BY <1>2 DEF CallerKinds, Turn, Same
<1>3. QED
  BY <1>1, <1>2 DEF NextTrack

\* So does a delete that was accepted or not needed.
LEMMA HandledStep ==
  ASSUME CallerKinds, NEW c \in Callers, NEW d \in Callers, Handled(d)
  PROVE  IF c = d THEN \/ Reset(c)
                       \/ file[c] # NoFile /\ file'[c] = file[c] /\ ids'[c] = ids[c] /\ Turn(c, todo[c])
                  ELSE Same(c)
<1>1. CASE Done(d)
  BY <1>1, DoneStep
<1>2. CASE file[d] # NoFile /\ NextTrack(d, todo[d]) /\ UNCHANGED <<files, file, ids, expired>>
  <2>1. ids' = [ids EXCEPT ![d] = ids'[d]]
    BY <1>2 DEF CallerKinds
  <2>2. IF c = d THEN Turn(c, todo[d]) ELSE Same(c)
    BY <1>2, <2>1, TurnStep
  <2>3. QED
    BY <1>2, <2>2
<1>3. QED
  BY <1>1, <1>2 DEF Handled

\* Every step of the system is one of those moves for every request.
LEMMA MovesStep ==
  ASSUME HoldInv, [Next]_vars, NEW c \in Callers
  PROVE  Moves(c)
<1>0. CallerKinds
  BY DEF HoldInv, Kinds
<1>1. CASE UNCHANGED caller
  BY <1>1 DEF Moves, Same
<1>2. ASSUME NEW d \in Callers, NEW t \in Tracks, DeleteMemory(d, t) PROVE Moves(c)
  BY <1>0, <1>2 DEF DeleteMemory, CallerKinds, Moves, Same
<1>3. ASSUME NEW d \in Callers, NEW F \in SUBSET Files, DeleteMemoriesBySources(d, F) PROVE Moves(c)
  BY <1>0, <1>3 DEF DeleteMemoriesBySources, CallerKinds, Moves, Same
<1>4. ASSUME NEW d \in Callers, NextFile(d) PROVE Moves(c)
  BY <1>0, <1>4 DEF NextFile, CallerKinds, Moves, Same
<1>5. ASSUME NEW d \in Callers, TrackIDs(d) PROVE Moves(c)
  <2>1. CASE Done(d)
    BY <1>0, <1>5, <2>1, DoneStep DEF Moves, TrackIDs
  <2>2. CASE /\ ids' = [ids EXCEPT ![d] = TracksOf(file[d])]
             /\ NextTrack(d, TracksOf(file[d])) /\ UNCHANGED <<files, file, expired>>
    <3>1. ids'[d] = TracksOf(file[d])
      BY <1>0, <2>2 DEF CallerKinds
    <3>2. IF c = d THEN Turn(c, TracksOf(file[d])) ELSE Same(c)
      BY <1>0, <2>2, <3>1, TurnStep
    <3>3. QED
      BY <1>5, <2>2, <3>1, <3>2 DEF Moves, TrackIDs
  <2>3. QED
    BY <1>5, <2>1, <2>2 DEF TrackIDs
<1>6. ASSUME NEW d \in Callers, TrackStatus(d) PROVE Moves(c)
  <2>1. CASE Done(d)
    BY <1>0, <1>6, <2>1, DoneStep DEF Moves, TrackStatus
  <2>2. CASE ~Live(cur[d]) /\ Handled(d)
    BY <1>0, <1>6, <2>2, HandledStep DEF Moves, TrackStatus
  <2>3. CASE Live(cur[d]) /\ Goto(d, "mark") /\ UNCHANGED <<files, file, ids, todo, cur, expired>>
    BY <1>0, <1>6, <2>3 DEF Moves, Same, CallerKinds, TrackStatus
  <2>4. QED
    BY <1>6, <2>1, <2>2, <2>3 DEF TrackStatus
<1>7. ASSUME NEW d \in Callers, Mark(d) PROVE Moves(c)
  <2>1. CASE Done(d)
    BY <1>0, <1>7, <2>1, DoneStep DEF Moves, Mark
  <2>2. CASE Goto(d, "delete") /\ UNCHANGED <<files, file, ids, todo, cur, expired>>
    BY <1>0, <1>7, <2>2 DEF Moves, Same, CallerKinds, Mark
  <2>3. QED
    BY <1>7, <2>1, <2>2 DEF Mark
<1>8. ASSUME NEW d \in Callers, DeleteDocs(d) PROVE Moves(c)
  <2>1. CASE acked' = acked \cup {cur[d]} /\ Handled(d)
    <3>1. cur[d] \in acked'
      BY <2>1
    <3>2. QED
      BY <1>0, <1>8, <2>1, <3>1, HandledStep DEF Moves, DeleteDocs
  <2>2. CASE Goto(d, "unmark") /\ UNCHANGED <<acked, files, file, ids, todo, cur, expired>>
    BY <1>0, <1>8, <2>2 DEF Moves, Same, CallerKinds, DeleteDocs
  <2>3. QED
    BY <1>8, <2>1, <2>2 DEF DeleteDocs
<1>9. ASSUME NEW d \in Callers, Unmark(d) PROVE Moves(c)
  <2>1. IF c = d THEN Reset(c) ELSE Same(c)
    BY <1>0, <1>9, DoneStep DEF Unmark
  <2>2. cur[d] \in Tracks
    BY <1>9 DEF Unmark, HoldInv, CallersHold
  <2>3. ~expired[d] => ~tomb'[cur[d]].marked
    BY <1>9, <2>2 DEF Unmark, NoTomb, HoldInv, TombRows
  <2>4. QED
    BY <1>9, <2>1, <2>3 DEF Moves, Unmark
<1>10. ASSUME NEW d \in Callers, DeleteByFile(d) PROVE Moves(c)
  <2>1. CASE Done(d)
    BY <1>0, <1>10, <2>1, DoneStep DEF Moves, DeleteByFile
  <2>2. CASE /\ Goto(d, "file") /\ file' = [file EXCEPT ![d] = NoFile]
             /\ ids' = [ids EXCEPT ![d] = {}] /\ UNCHANGED <<files, todo, cur, expired>>
    BY <1>0, <1>10, <2>2 DEF Moves, Same, CallerKinds, DeleteByFile
  <2>3. QED
    BY <1>10, <2>1, <2>2 DEF DeleteByFile
<1>11. ASSUME NEW d \in Callers, Expire(d) PROVE Moves(c)
  BY <1>0, <1>11 DEF Expire, Moves, Same
<1>12. CASE Crash
  <2>1. Reset(c)
    BY <1>12 DEF Crash, Reset
  <2>2. crashes' # 0
    BY <1>12 DEF Crash, HoldInv, Kinds
  <2>3. QED
    BY <2>1, <2>2 DEF Moves
<1>13. CASE ReaperStep \/ UNCHANGED vars
  BY <1>1, <1>13 DEF ReaperStep, Tick, ForceTick, ReapCheck, ReapConfirmed, TickEnds, vars
<1>14. ASSUME NEW t \in Tracks, CreateMemory(t) \/ DeletionEnds(t) PROVE Moves(c)
  BY <1>1, <1>14 DEF CreateMemory, DeletionEnds
<1>15. ASSUME NEW w \in Ingesters, IngestAdd(w) \/ \E f \in Files, t \in Tracks : IngestCreate(w, f, t)
       PROVE  Moves(c)
  BY <1>1, <1>15 DEF IngestAdd, IngestCreate
<1>16. QED
  BY <1>2, <1>3, <1>4, <1>5, <1>6, <1>7, <1>8, <1>9, <1>10, <1>11, <1>12, <1>13, <1>14, <1>15
     DEF Next, CallerStep

\* What a request holds at each label is kept by every step.
LEMMA HoldInvStep == ASSUME HoldInv, [Next]_vars PROVE HoldInv'
<1>1. Kinds'
  BY KindsStep
<1>2. TombRows'
  BY TombStep
<1>3. CallersHold'
  <2>1. SUFFICES ASSUME NEW c \in Callers
                 PROVE  /\ pc'[c] \in {"status", "mark", "delete", "unmark"} => cur'[c] \in Tracks
                        /\ pc'[c] \in {"list", "cleanup"} => file'[c] \in Files
                        /\ pc'[c] \in {"idle", "file"} => file'[c] = NoFile
                        /\ pc'[c] = "cleanup" => todo'[c] = {}
                        /\ pc'[c] \in {"idle", "file", "list", "cleanup"} => cur'[c] = NoTrack
    BY DEF CallersHold
  <2>2. Moves(c)
    BY MovesStep
  <2>3. /\ file[c] \in Files \cup {NoFile} /\ ids[c] \subseteq Tracks /\ todo[c] \subseteq Tracks
        /\ TracksOf(file[c]) \subseteq Tracks
    BY DEF HoldInv, Kinds, CallerKinds, TracksOf
  <2>4. QED
    BY <2>2, <2>3 DEF Moves, Same, Reset, Turn, HoldInv, CallersHold
<1>4. QED
  BY <1>1, <1>2, <1>3 DEF HoldInv

\* The kinds of values, the shape of the tombstones and what the requests hold
\* are invariant.
THEOREM HoldInvHolds == Spec => []HoldInv
<1>1. HoldInv /\ [Next]_vars => HoldInv'
  BY HoldInvStep
<1>2. QED
  BY <1>1, InitHoldInv, PTL DEF Spec

-----------------------------------------------------------------------------
(* What is known was inserted.                                              *)

\* No track that anything knows of is still to be inserted, and the track
\* whose tombstone the reaper is about to delete is gone.
Seen ==
    /\ \A r \in index : doc[r[2]] # "new"
    /\ \A w \in Ingesters : holding[w] # Nothing => doc[holding[w][2]] # "new"
    /\ \A t \in Tracks : Marked(t) => doc[t] # "new"
    /\ \A c \in Callers : pc[c] \in {"mark", "delete", "unmark"} => doc[cur[c]] # "new"
    /\ \A c \in Callers : \A t \in ids[c] \cup todo[c] : doc[t] # "new"
    /\ \A c \in Callers : file[c] # NoFile /\ cur[c] # NoTrack => doc[cur[c]] # "new"
    /\ \A t \in rlist : doc[t] # "new"
    /\ rcur # NoTrack => doc[rcur] = "absent"

\* An index row is one that an ingest worker holds.
LEMMA IndexStep ==
  ASSUME HoldInv, [Next]_vars
  PROVE  \A r \in index' : r \in index \/ \E w \in Ingesters : holding[w] # Nothing /\ r = holding[w]
<1> DEFINE Goal == \A r \in index' : r \in index \/ \E w \in Ingesters : holding[w] # Nothing /\ r = holding[w]
<1>1. CASE index' \subseteq index
  BY <1>1
<1>2. ASSUME NEW w \in Ingesters, IngestAdd(w) PROVE Goal
  BY <1>2 DEF IngestAdd
<1>3. ASSUME NEW c \in Callers,
             \/ \E u \in Tracks : DeleteMemory(c, u)
             \/ \E F \in SUBSET Files : DeleteMemoriesBySources(c, F)
             \/ CallerStep(c)
             \/ Expire(c)
      PROVE  index' \subseteq index
  BY <1>3 DEF CallerStep, DeleteMemory, DeleteMemoriesBySources, NextFile, TrackIDs,
     TrackStatus, Mark, DeleteDocs, Unmark, DeleteByFile, Expire
<1>4. CASE ReaperStep \/ Crash \/ UNCHANGED vars
  BY <1>1, <1>4 DEF ReaperStep, Tick, ForceTick, ReapCheck, ReapConfirmed, TickEnds, Crash, vars
<1>5. ASSUME NEW t \in Tracks, CreateMemory(t) \/ DeletionEnds(t) PROVE Goal
  BY <1>1, <1>5 DEF CreateMemory, DeletionEnds
<1>6. ASSUME NEW w \in Ingesters, NEW f \in Files, NEW t \in Tracks, IngestCreate(w, f, t) PROVE Goal
  BY <1>1, <1>6 DEF IngestCreate
<1>7. QED
  BY <1>1, <1>2, <1>3, <1>4, <1>5, <1>6 DEF Next

\* An ingest worker holds a track only once it was inserted.
LEMMA HoldingStep ==
  ASSUME HoldInv, [Next]_vars, NEW w \in Ingesters
  PROVE  \/ holding'[w] = holding[w]
         \/ holding'[w] = Nothing
         \/ \E f \in Files, t \in Tracks : holding'[w] = <<f, t>> /\ doc'[t] # "new"
<1> DEFINE Goal == \/ holding'[w] = holding[w]
                   \/ holding'[w] = Nothing
                   \/ \E f \in Files, t \in Tracks : holding'[w] = <<f, t>> /\ doc'[t] # "new"
<1>1. CASE UNCHANGED holding
  BY <1>1
<1>2. ASSUME NEW v \in Ingesters, IngestAdd(v) PROVE Goal
  BY <1>2 DEF IngestAdd, HoldInv, Kinds
<1>3. ASSUME NEW v \in Ingesters, NEW f \in Files, NEW t \in Tracks, IngestCreate(v, f, t) PROVE Goal
  <2>1. doc'[t] # "new"
    BY <1>3 DEF IngestCreate, HoldInv, Kinds
  <2>2. CASE v = w
    <3>1. holding'[w] = <<f, t>>
      BY <1>3, <2>2 DEF IngestCreate, HoldInv, Kinds
    <3>2. QED
      BY <2>1, <3>1
  <2>3. CASE v # w
    BY <1>3, <2>3 DEF IngestCreate, HoldInv, Kinds
  <2>4. QED
    BY <2>2, <2>3
<1>4. ASSUME NEW c \in Callers,
             \/ \E u \in Tracks : DeleteMemory(c, u)
             \/ \E F \in SUBSET Files : DeleteMemoriesBySources(c, F)
             \/ CallerStep(c)
             \/ Expire(c)
      PROVE  UNCHANGED holding
  BY <1>4 DEF CallerStep, DeleteMemory, DeleteMemoriesBySources, NextFile, TrackIDs,
     TrackStatus, Mark, DeleteDocs, Unmark, DeleteByFile, Expire
<1>5. CASE ReaperStep \/ Crash \/ UNCHANGED vars
  BY <1>1, <1>5 DEF ReaperStep, Tick, ForceTick, ReapCheck, ReapConfirmed, TickEnds, Crash, vars
<1>6. ASSUME NEW t \in Tracks, CreateMemory(t) \/ DeletionEnds(t) PROVE Goal
  BY <1>1, <1>6 DEF CreateMemory, DeletionEnds
<1>7. QED
  BY <1>1, <1>2, <1>3, <1>4, <1>5, <1>6 DEF Next

\* The reaper takes up tombstones, and goes on to delete only one it listed and
\* whose document is gone.
LEMMA ReaperMoves ==
  ASSUME HoldInv, [Next]_vars
  PROVE  /\ \A t \in rlist' : t \in rlist \/ (t \in Tracks /\ Marked(t))
         /\ rcur' # rcur /\ rcur' # NoTrack => rcur' \in rlist /\ ~Live(rcur')
<1> DEFINE Goal == /\ \A t \in rlist' : t \in rlist \/ (t \in Tracks /\ Marked(t))
                   /\ rcur' # rcur /\ rcur' # NoTrack => rcur' \in rlist /\ ~Live(rcur')
<1>1. CASE UNCHANGED reaper
  <2>1. rlist' = rlist /\ rcur' = rcur
    BY <1>1
  <2>2. QED
    BY <2>1
<1>2. CASE ReaperStep
  <2>1. CASE Tick \/ ForceTick
    BY <2>1 DEF Tick, ForceTick, ListAll, ListOlderThan
  <2>2. CASE ReapCheck
    <3>1. PICK t \in rlist : rlist' = rlist \ {t} /\ ((ConfirmedGone(t) /\ rcur' = t) \/ UNCHANGED rcur)
      BY <2>2 DEF ReapCheck
    <3>2. QED
      BY <3>1 DEF ConfirmedGone, Live, Marked
  <2>3. CASE ReapConfirmed \/ TickEnds
    BY <2>3 DEF ReapConfirmed, TickEnds, Live, Marked
  <2>4. QED
    BY <1>2, <2>1, <2>2, <2>3 DEF ReaperStep
<1>3. CASE Crash
  BY <1>3 DEF Crash
<1>4. ASSUME NEW c \in Callers,
             \/ \E u \in Tracks : DeleteMemory(c, u)
             \/ \E F \in SUBSET Files : DeleteMemoriesBySources(c, F)
             \/ CallerStep(c)
             \/ Expire(c)
      PROVE  UNCHANGED reaper
  BY <1>4 DEF CallerStep, DeleteMemory, DeleteMemoriesBySources, NextFile, TrackIDs,
     TrackStatus, Mark, DeleteDocs, Unmark, DeleteByFile, Expire
<1>5. ASSUME NEW t \in Tracks, CreateMemory(t) \/ DeletionEnds(t) PROVE Goal
  BY <1>1, <1>5 DEF CreateMemory, DeletionEnds
<1>6. ASSUME NEW w \in Ingesters, IngestAdd(w) \/ \E f \in Files, t \in Tracks : IngestCreate(w, f, t)
      PROVE  Goal
  BY <1>1, <1>6 DEF IngestAdd, IngestCreate
<1>7. CASE UNCHANGED vars
  BY <1>1, <1>7 DEF vars
<1>8. QED
  BY <1>1, <1>2, <1>3, <1>4, <1>5, <1>6, <1>7 DEF Next

\* Once inserted, a track is never new again; once gone, it stays gone.
LEMMA SeenStep == ASSUME HoldInv, Seen, [Next]_vars PROVE Seen'
<1>1. \A t \in Tracks : /\ doc[t] \in {"new", "present", "deleting", "absent"}
                        /\ doc[t] # "new" => doc'[t] # "new"
                        /\ doc[t] = "absent" => doc'[t] = "absent"
  BY DocStep DEF DocMoves, HoldInv, Kinds
<1>2. ASSUME NEW r \in index' PROVE doc'[r[2]] # "new"
  <2>1. r[2] \in Tracks /\ doc[r[2]] # "new"
    BY IndexStep DEF HoldInv, Kinds, Seen
  <2>2. QED
    BY <1>1, <2>1
<1>3. ASSUME NEW w \in Ingesters, holding'[w] # Nothing PROVE doc'[holding'[w][2]] # "new"
  <2>1. CASE holding'[w] = holding[w]
    <3>1. holding[w][2] \in Tracks /\ doc[holding[w][2]] # "new"
      BY <1>3, <2>1 DEF HoldInv, Kinds, Seen
    <3>2. QED
      BY <1>1, <2>1, <3>1
  <2>2. QED
    BY <1>3, <2>1, HoldingStep
<1>4. ASSUME NEW t \in Tracks, Marked(t)' PROVE doc'[t] # "new"
  BY <1>1, <1>4, TombStep DEF TombMoves, Seen
<1>5. ASSUME NEW c \in Callers
      PROVE  /\ pc'[c] \in {"mark", "delete", "unmark"} => doc'[cur'[c]] # "new"
             /\ \A t \in ids'[c] \cup todo'[c] : doc'[t] # "new"
             /\ file'[c] # NoFile /\ cur'[c] # NoTrack => doc'[cur'[c]] # "new"
  <2>1. Moves(c)
    BY MovesStep
  <2>2. /\ file[c] \in Files \cup {NoFile} /\ ids[c] \subseteq Tracks /\ todo[c] \subseteq Tracks
        /\ cur[c] \in Tracks \cup {NoTrack}
        /\ \A t \in TracksOf(file[c]) : t \in Tracks /\ doc[t] # "new"
    BY DEF HoldInv, Kinds, CallerKinds, TracksOf, Seen
  <2>3. /\ pc[c] \in {"mark", "delete", "unmark"} => doc[cur[c]] # "new"
        /\ \A t \in ids[c] \cup todo[c] : doc[t] # "new"
        /\ file[c] # NoFile /\ cur[c] # NoTrack => doc[cur[c]] # "new"
        /\ pc[c] \in {"status", "mark", "delete", "unmark"} => cur[c] \in Tracks
        /\ pc[c] \in {"idle", "file"} => file[c] = NoFile
        /\ pc[c] \in {"idle", "file", "list", "cleanup"} => cur[c] = NoTrack
    BY DEF Seen, HoldInv, CallersHold
  <2>4. QED
    BY <1>1, <2>1, <2>2, <2>3 DEF Moves, Same, Reset, Turn, Live
<1>6. ASSUME NEW t \in rlist' PROVE doc'[t] # "new"
  BY <1>1, <1>6, ReaperMoves DEF Seen, HoldInv, Kinds
<1>7. rcur' # NoTrack => doc'[rcur'] = "absent"
  BY <1>1, ReaperMoves DEF Seen, HoldInv, Kinds, Live
<1>8. QED
  BY <1>2, <1>3, <1>4, <1>5, <1>6, <1>7 DEF Seen

\* Nothing is known of a track before it is inserted.
LEMMA InitSeen == Init => Seen
  BY DEF Init, Seen, Marked, NoTomb

\* What anything knows of was inserted, and what the reaper is about to uncover
\* is gone.
THEOREM SeenHolds == Spec => []Seen
<1>1. HoldInv /\ Seen /\ [Next]_vars => Seen'
  BY SeenStep
<1>2. QED
  BY <1>1, InitSeen, HoldInvHolds, PTL DEF Spec

-----------------------------------------------------------------------------
(* The reaper, the purge and the rollback.                                  *)

\* The reaper's TrackStatus and its Delete are two calls, with callers and
\* LightRAG running between them: it still never takes the tombstone of a
\* memory that has a document.
THEOREM ReaperUncoversNothingHolds == Spec => ReaperUncoversNothing
<1> DEFINE Uncovers == \A t \in Tracks :
                         Marked(t) /\ ~Marked(t)' /\ Live(t)' =>
                            \E c \in Callers : pc[c] = "unmark" /\ cur[c] = t
<1>1. HoldInv /\ Seen /\ [Next]_vars => Uncovers
  <2>1. SUFFICES ASSUME HoldInv, Seen, [Next]_vars, NEW t \in Tracks, Marked(t), ~Marked(t)', Live(t)',
                        rcur = t
                 PROVE  FALSE
    BY TombStep DEF TombMoves
  <2>2. doc[t] = "absent"
    BY <2>1 DEF Seen
  <2>3. DocMoves(t)
    BY <2>1, DocStep
  <2>4. QED
    BY <2>1, <2>2, <2>3 DEF DocMoves, Live
<1>2. QED
  BY <1>1, HoldInvHolds, SeenHolds, PTL DEF Spec, ReaperUncoversNothing

\* While a purge of a file goes on, every track it read that it has done with
\* was accepted for deletion or is gone.
Purged ==
    \A c \in Callers :
        /\ pc[c] \in {"status", "mark", "delete", "unmark", "cleanup"} /\ file[c] # NoFile =>
             \A t \in ids[c] : t \in todo[c] \/ t = cur[c] \/ t \in acked \/ doc[t] = "absent"

\* Deletions that were acknowledged stay acknowledged.
LEMMA AckedGrows == ASSUME HoldInv, [Next]_vars PROVE acked \subseteq acked'
<1>1. CASE UNCHANGED acked
  BY <1>1
<1>2. ASSUME NEW c \in Callers, DeleteDocs(c) PROVE acked \subseteq acked'
  BY <1>2 DEF DeleteDocs
<1>3. ASSUME NEW c \in Callers,
             \/ \E u \in Tracks : DeleteMemory(c, u)
             \/ \E F \in SUBSET Files : DeleteMemoriesBySources(c, F)
             \/ CallerStep(c)
             \/ Expire(c)
      PROVE  acked \subseteq acked'
  BY <1>1, <1>2, <1>3 DEF CallerStep, DeleteMemory, DeleteMemoriesBySources, NextFile, TrackIDs,
     TrackStatus, Mark, Unmark, DeleteByFile, Expire
<1>4. CASE ReaperStep \/ Crash \/ UNCHANGED vars
  BY <1>1, <1>4 DEF ReaperStep, Tick, ForceTick, ReapCheck, ReapConfirmed, TickEnds, Crash, vars
<1>5. ASSUME NEW t \in Tracks, CreateMemory(t) \/ DeletionEnds(t) PROVE acked \subseteq acked'
  BY <1>1, <1>5 DEF CreateMemory, DeletionEnds
<1>6. ASSUME NEW w \in Ingesters, IngestAdd(w) \/ \E f \in Files, t \in Tracks : IngestCreate(w, f, t)
      PROVE  acked \subseteq acked'
  BY <1>1, <1>6 DEF IngestAdd, IngestCreate
<1>7. QED
  BY <1>3, <1>4, <1>5, <1>6 DEF Next

\* Every step keeps the account of a purge.
LEMMA PurgedStep == ASSUME HoldInv, Seen, Purged, [Next]_vars PROVE Purged'
<1>1. SUFFICES ASSUME NEW c \in Callers, pc'[c] \in {"status", "mark", "delete", "unmark", "cleanup"},
                      file'[c] # NoFile, NEW t \in ids'[c]
               PROVE  t \in todo'[c] \/ t = cur'[c] \/ t \in acked' \/ doc'[t] = "absent"
  BY DEF Purged
<1>2. Moves(c)
  BY MovesStep
<1>3. /\ ids[c] \subseteq Tracks /\ todo[c] \subseteq Tracks /\ TracksOf(file[c]) \subseteq Tracks
      /\ pc[c] \in {"status", "mark", "delete", "unmark"} => cur[c] \in Tracks
      /\ pc[c] \in {"idle", "file"} => file[c] = NoFile
      /\ file[c] # NoFile /\ cur[c] # NoTrack => doc[cur[c]] # "new"
      /\ doc \in [Tracks -> {"new", "present", "deleting", "absent"}]
  BY DEF HoldInv, Kinds, CallerKinds, CallersHold, TracksOf, Seen
<1>4. \A u \in Tracks : doc[u] = "absent" => doc'[u] = "absent"
  BY DocStep DEF DocMoves
<1>5. pc[c] \in {"status", "mark", "delete", "unmark", "cleanup"} /\ file[c] # NoFile =>
         \A u \in ids[c] : u \in todo[c] \/ u = cur[c] \/ u \in acked \/ doc[u] = "absent"
  BY DEF Purged
<1>6. QED
  BY <1>1, <1>2, <1>3, <1>4, <1>5, AckedGrows DEF Moves, Same, Reset, Turn, Live

\* Whatever other requests, ingest workers, LightRAG, the reaper and restarts
\* do meanwhile, a purge clears the index rows of a file only after every
\* memory it read there was accepted for deletion or was gone.
THEOREM CleanupOnlyAfterPurgeHolds == Spec => []CleanupOnlyAfterPurge
<1>1. Init => Purged
  BY DEF Init, Purged
<1>2. HoldInv /\ Seen /\ Purged /\ [Next]_vars => Purged'
  BY PurgedStep
<1>3. HoldInv /\ Purged => CleanupOnlyAfterPurge
  BY DEF HoldInv, Kinds, CallerKinds, CallersHold, Purged, CleanupOnlyAfterPurge, Live
<1>4. QED
  BY <1>1, <1>2, <1>3, HoldInvHolds, SeenHolds, PTL DEF Spec

\* Restarts and failing calls are counted, and a context ends only by one.
LEMMA CountStep ==
  ASSUME HoldInv, [Next]_vars
  PROVE  /\ crashes' = 0 => crashes = 0
         /\ faults' = 0 => faults = 0
         /\ \A c \in Callers : expired'[c] => expired[c] \/ faults' # 0
<1> DEFINE Goal == /\ crashes' = 0 => crashes = 0
                   /\ faults' = 0 => faults = 0
                   /\ \A c \in Callers : expired'[c] => expired[c] \/ faults' # 0
<1>0. crashes \in Nat /\ faults \in Nat /\ expired \in [Callers -> BOOLEAN] /\ CallerKinds
  BY DEF HoldInv, Kinds, CallerKinds
<1>1. CASE crashes' = crashes /\ (faults' = faults \/ faults' = faults + 1) /\ UNCHANGED expired
  BY <1>0, <1>1
<1>2. ASSUME NEW d \in Callers, UNCHANGED bounds, Done(d) PROVE Goal
  BY <1>0, <1>2 DEF Done
<1>3. ASSUME NEW d \in Callers, UNCHANGED bounds, Handled(d) PROVE Goal
  BY <1>1, <1>2, <1>3 DEF Handled
<1>4. ASSUME NEW d \in Callers,
             \/ \E u \in Tracks : DeleteMemory(d, u)
             \/ \E F \in SUBSET Files : DeleteMemoriesBySources(d, F)
             \/ NextFile(d)
      PROVE  Goal
  BY <1>1, <1>4 DEF DeleteMemory, DeleteMemoriesBySources, NextFile
<1>5. ASSUME NEW d \in Callers, CallerStep(d) PROVE Goal
  <2>1. CASE UNCHANGED bounds /\ UNCHANGED expired
    BY <1>1, <2>1
  <2>2. CASE TrackIDs(d) \/ TrackStatus(d) \/ Mark(d)
    BY <1>2, <1>3, <2>1, <2>2 DEF TrackIDs, TrackStatus, Mark
  <2>3. CASE DeleteDocs(d) \/ Unmark(d) \/ DeleteByFile(d)
    BY <1>2, <1>3, <2>1, <2>3 DEF DeleteDocs, Unmark, DeleteByFile
  <2>4. QED
    BY <1>4, <1>5, <2>2, <2>3 DEF CallerStep
<1>6. ASSUME NEW d \in Callers, Expire(d) PROVE Goal
  BY <1>0, <1>6 DEF Expire
<1>7. CASE Crash
  BY <1>0, <1>7 DEF Crash
<1>8. CASE ReaperStep \/ UNCHANGED vars
  <2>1. crashes' = crashes /\ (faults' = faults \/ faults' = faults + 1) /\ UNCHANGED expired
    BY <1>8 DEF ReaperStep, Tick, ForceTick, ReapCheck, ReapConfirmed, TickEnds, vars
  <2>2. QED
    BY <1>1, <2>1
<1>9. ASSUME NEW t \in Tracks, CreateMemory(t) \/ DeletionEnds(t) PROVE Goal
  BY <1>1, <1>9 DEF CreateMemory, DeletionEnds
<1>10. ASSUME NEW w \in Ingesters, IngestAdd(w) \/ \E f \in Files, t \in Tracks : IngestCreate(w, f, t)
       PROVE  Goal
  BY <1>1, <1>10 DEF IngestAdd, IngestCreate
<1>11. QED
  BY <1>4, <1>5, <1>6, <1>7, <1>8, <1>9, <1>10 DEF Next

\* Without failing calls no context ends before its request.
InTime == faults = 0 => \A c \in Callers : ~expired[c]

\* Whatever the interleaving of requests, ingest workers, LightRAG and the
\* reaper: without expired contexts and restarts a memory is hidden only while
\* a delete of it is under way or after LightRAG accepted one.
THEOREM HiddenOnlyIfDeletedHolds == Spec => []HiddenOnlyIfDeleted
<1>1. Init => InTime /\ HiddenOnlyIfDeleted
  BY DEF Init, InTime, HiddenOnlyIfDeleted, Marked, NoTomb
<1>2. HoldInv /\ InTime /\ [Next]_vars => InTime'
  BY CountStep DEF InTime
<1>3. HoldInv /\ InTime /\ HiddenOnlyIfDeleted /\ [Next]_vars => HiddenOnlyIfDeleted'
  <2>1. SUFFICES ASSUME HoldInv, InTime, HiddenOnlyIfDeleted, [Next]_vars, crashes' = 0, faults' = 0,
                        NEW t \in Tracks, Marked(t)', t \notin acked'
                 PROVE  \E c \in Callers : cur'[c] = t /\ pc'[c] \in {"delete", "unmark"}
    BY DEF HiddenOnlyIfDeleted
  <2>2. crashes = 0 /\ faults = 0 /\ \A c \in Callers : ~expired[c]
    BY <2>1, CountStep DEF InTime
  <2>3. t \notin acked
    BY <2>1, AckedGrows
  <2>4. CASE \E c \in Callers : pc'[c] = "delete" /\ cur'[c] = t
    BY <2>4
  <2>5. CASE Marked(t)' = Marked(t)
    <3>1. PICK c \in Callers : cur[c] = t /\ pc[c] \in {"delete", "unmark"}
      BY <2>1, <2>2, <2>3, <2>5 DEF HiddenOnlyIfDeleted
    <3>2. Moves(c)
      BY <2>1, MovesStep
    <3>3. tomb'[cur[c]].marked
      BY <2>1, <3>1 DEF Marked
    <3>4. QED
      BY <2>1, <2>2, <3>1, <3>2, <3>3 DEF Moves, Same, Reset
  <2>6. QED
    BY <2>1, <2>4, <2>5, TombStep DEF TombMoves
<1>4. QED
  BY <1>1, <1>2, <1>3, HoldInvHolds, PTL DEF Spec

-----------------------------------------------------------------------------
(* The clocks of the tombstones: every variable holds a value of its kind.  *)

Ages     == 0..ForceAge
Attempts == 0..MaxAttempts
Waits    == 0..BackoffCap

Row == [marked : BOOLEAN, age : Ages, attempts : Attempts, wait : Waits]

\* The powers of two are natural numbers: 2^n counts the subsets of 1..n.
LEMMA PowerOfTwo == ASSUME NEW n \in Nat PROVE 2^n \in Nat
<1>1. IsFiniteSet(1..n) /\ Cardinality(1..n) = n
  BY FS_Interval
<1>2. IsFiniteSet(SUBSET (1..n)) /\ Cardinality(SUBSET (1..n)) = 2^n
  BY <1>1, FS_SUBSET
<1>3. QED
  BY <1>2, FS_CardinalityType

\* forceReapBackoff stays within its cap for every number of attempts.
LEMMA BackoffBounded == ASSUME NEW k \in Nat \ {0} PROVE forceReapBackoff(k) \in 0..BackoffCap
<1> DEFINE p == 2^(k - 1)
<1>1. p \in Nat
  BY PowerOfTwo
<1> HIDE DEF p
<1>2. BackoffBase * p \in Nat
  BY <1>1
<1>3. AtMost(BackoffBase * p, BackoffCap) \in 0..BackoffCap
  BY <1>2 DEF AtMost
<1>4. QED
  BY <1>3 DEF forceReapBackoff, p

\* A tombstone keeps its shape, its age and its delay within their bounds.
LEMMA TombTyped == ASSUME HoldInv, tomb \in [Tracks -> Row], [Next]_vars PROVE tomb' \in [Tracks -> Row]
<1>1. CASE UNCHANGED tomb
  BY <1>1
<1>2. NoTomb \in Row
  <2>1. 0 \in Ages /\ 0 \in Attempts /\ 0 \in Waits
    BY DEF Ages, Attempts, Waits
  <2>2. QED
    BY <2>1 DEF NoTomb, Row
<1>3. ASSUME NEW c \in Callers, Mark(c) PROVE tomb' \in [Tracks -> Row]
  <2>1. cur[c] \in Tracks /\ 0 \in Ages
    BY <1>3 DEF HoldInv, CallersHold, Mark, Ages
  <2>2. [tomb[cur[c]] EXCEPT !.marked = TRUE, !.age = 0] \in Row
    <3>1. tomb[cur[c]] \in Row
      BY <2>1
    <3>2. QED
      BY <2>1, <3>1 DEF Row
  <2>3. QED
    BY <1>1, <1>3, <2>1, <2>2 DEF Mark
<1>4. ASSUME NEW c \in Callers, Unmark(c) PROVE tomb' \in [Tracks -> Row]
  BY <1>1, <1>2, <1>4 DEF Unmark
<1>5. CASE Tick
  <2>1. ASSUME NEW r \in Row
        PROVE  [r EXCEPT !.age  = AtMost(@ + 1, ForceAge),
                         !.wait = IF @ = 0 THEN 0 ELSE @ - 1] \in Row
    <3>1. r.age \in Ages /\ r.wait \in Waits
      BY DEF Row
    <3>2. AtMost(r.age + 1, ForceAge) \in Ages /\ (IF r.wait = 0 THEN 0 ELSE r.wait - 1) \in Waits
      BY <3>1 DEF AtMost, Ages, Waits
    <3>3. QED
      BY <3>2 DEF Row
  <2>2. tomb' = [t \in Tracks |->
                   IF Marked(t)
                   THEN [tomb[t] EXCEPT !.age  = AtMost(@ + 1, ForceAge),
                                        !.wait = IF @ = 0 THEN 0 ELSE @ - 1]
                   ELSE tomb[t]]
    BY <1>5 DEF Tick
  <2>3. QED
    BY <2>1, <2>2
<1>6. ASSUME NEW t \in Tracks PROVE RecordForceCheckStillPresent(t) \in [Tracks -> Row]
  <2> DEFINE n == AtMost(tomb[t].attempts + 1, MaxAttempts)
  <2>0. tomb[t] \in Row /\ tomb[t].attempts \in Attempts
    BY DEF Row
  <2>1. n \in Nat \ {0} /\ n \in Attempts
    BY <2>0 DEF AtMost, Attempts
  <2>2. forceReapBackoff(n) \in Waits
    BY <2>1, BackoffBounded DEF Waits
  <2> HIDE DEF n
  <2>3. [tomb[t] EXCEPT !.attempts = n, !.wait = forceReapBackoff(n)] \in Row
    BY <2>0, <2>1, <2>2 DEF Row
  <2>4. RecordForceCheckStillPresent(t)
          = [tomb EXCEPT ![t] = IF tomb[t].marked
                                THEN [tomb[t] EXCEPT !.attempts = n, !.wait = forceReapBackoff(n)]
                                ELSE tomb[t]]
    BY DEF RecordForceCheckStillPresent, n
  <2>5. QED
    BY <2>0, <2>3, <2>4
<1>7. CASE ReapCheck
  BY <1>1, <1>6, <1>7 DEF ReapCheck, HoldInv, Kinds
<1>8. CASE ReapConfirmed
  BY <1>1, <1>2, <1>8 DEF ReapConfirmed
<1>9. CASE ForceTick \/ TickEnds \/ Crash \/ UNCHANGED vars
  BY <1>1, <1>9 DEF ForceTick, TickEnds, Crash, vars
<1>10. ASSUME NEW c \in Callers,
             \/ \E u \in Tracks : DeleteMemory(c, u)
             \/ \E F \in SUBSET Files : DeleteMemoriesBySources(c, F)
             \/ CallerStep(c)
             \/ Expire(c)
      PROVE  tomb' \in [Tracks -> Row]
  BY <1>1, <1>3, <1>4, <1>10 DEF CallerStep, DeleteMemory, DeleteMemoriesBySources, NextFile, TrackIDs,
     TrackStatus, DeleteDocs, DeleteByFile, Expire
<1>11. ASSUME NEW t \in Tracks, CreateMemory(t) \/ DeletionEnds(t) PROVE tomb' \in [Tracks -> Row]
  BY <1>1, <1>11 DEF CreateMemory, DeletionEnds
<1>12. ASSUME NEW w \in Ingesters, IngestAdd(w) \/ \E f \in Files, t \in Tracks : IngestCreate(w, f, t)
       PROVE  tomb' \in [Tracks -> Row]
  BY <1>1, <1>12 DEF IngestAdd, IngestCreate
<1>13. QED
  BY <1>5, <1>7, <1>8, <1>9, <1>10, <1>11, <1>12 DEF Next, ReaperStep

\* Restarts and failing calls stay within the bounds of the model.
LEMMA BoundsTyped ==
  ASSUME HoldInv, [Next]_vars, crashes \in 0..MaxCrashes, faults \in 0..MaxFaults
  PROVE  crashes' \in 0..MaxCrashes /\ faults' \in 0..MaxFaults
<1> DEFINE Goal == crashes' \in 0..MaxCrashes /\ faults' \in 0..MaxFaults
<1>1. CASE UNCHANGED bounds \/ (Fault /\ UNCHANGED crashes) \/ (UNCHANGED faults /\ UNCHANGED crashes)
  BY <1>1
<1>2. CASE ReaperStep \/ Crash \/ UNCHANGED vars
  <2>1. CASE ReaperStep
    BY <1>1, <2>1 DEF ReaperStep, Tick, ForceTick, ReapCheck, ReapConfirmed, TickEnds
  <2>2. CASE Crash
    BY <2>2 DEF Crash
  <2>3. CASE UNCHANGED vars
    BY <1>1, <2>3 DEF vars
  <2>4. QED
    BY <1>2, <2>1, <2>2, <2>3
<1>3. ASSUME NEW c \in Callers,
             \/ \E u \in Tracks : DeleteMemory(c, u)
             \/ \E F \in SUBSET Files : DeleteMemoriesBySources(c, F)
             \/ CallerStep(c)
             \/ Expire(c)
      PROVE  Goal
  BY <1>1, <1>3 DEF CallerStep, DeleteMemory, DeleteMemoriesBySources, NextFile, TrackIDs,
     TrackStatus, Mark, DeleteDocs, Unmark, DeleteByFile, Expire
<1>4. ASSUME NEW t \in Tracks, CreateMemory(t) \/ DeletionEnds(t) PROVE Goal
  BY <1>1, <1>4 DEF CreateMemory, DeletionEnds
<1>5. ASSUME NEW w \in Ingesters, IngestAdd(w) \/ \E f \in Files, t \in Tracks : IngestCreate(w, f, t)
      PROVE  Goal
  BY <1>1, <1>5 DEF IngestAdd, IngestCreate
<1>6. QED
  BY <1>2, <1>3, <1>4, <1>5 DEF Next

\* Every variable holds a value of its kind: the delay of a stuck tombstone
\* stays within its cap however often it is checked.
THEOREM TypeOKHolds == Spec => []TypeOK
<1> DEFINE Rest == tomb \in [Tracks -> Row] /\ crashes \in 0..MaxCrashes /\ faults \in 0..MaxFaults
<1>1. Init => Rest
  <2>1. 0 \in Ages /\ 0 \in Attempts /\ 0 \in Waits /\ 0 \in 0..MaxCrashes /\ 0 \in 0..MaxFaults
    BY DEF Ages, Attempts, Waits
  <2>2. NoTomb \in Row
    BY <2>1 DEF NoTomb, Row
  <2>3. QED
    BY <2>1, <2>2 DEF Init
<1>2. HoldInv /\ Rest /\ [Next]_vars => Rest'
  BY TombTyped, BoundsTyped
<1>3. HoldInv /\ Rest => TypeOK
  BY DEF HoldInv, Kinds, CallerKinds, TypeOK, Row, Ages, Attempts, Waits
<1> HIDE DEF Rest
<1>4. QED
  BY <1>1, <1>2, <1>3, HoldInvHolds, PTL DEF Spec
=============================================================================
