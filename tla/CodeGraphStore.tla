--------------------------- MODULE CodeGraphStore ---------------------------
(***************************************************************************)
(* The rows of the code graph (internal/codegraph): a push names files,     *)
(* removes what its extractor stored for them and upserts its own entities, *)
(* edges, symbols, hyperedges and cached hashes, in one READ COMMITTED      *)
(* transaction.  CodeGraphAnalytics has the push's other effect, the dirty  *)
(* mark of the repository.                                                  *)
(*                                                                          *)
(* All tables are one set of rows.  A row keeps its key, the file and the   *)
(* extractor that own it and an edge's confidence; names, types, properties *)
(* and positions are left out.  Scores are counted in units of 10^-8: the   *)
(* code computes with float64, the column confidence_score is a real.       *)
(***************************************************************************)
EXTENDS Integers, FiniteSets, Sequences, SequencesExt

CONSTANTS
    Repos,
    Files,       \* file paths
    NoFile,      \* the empty path of an entity no single file owns
    Pushes,      \* the GraphPush bodies clients send
    Databases,   \* databases earlier pushes left
    Scores,      \* the scores clients send
    AsReal,      \* what the column keeps of each
    Pushers,     \* requests served at the same time
    MaxPushes    \* bound on pushes

\* A score of 1 and one of 0.3.
one == 100000000

ambiguousScoreThreshold == 30000000

\* Rounding to a real keeps the order, not the differences.
ASSUME StoreAssumption ==
    /\ NoFile \notin Files
    /\ {} \in Databases
    /\ MaxPushes \in Nat
    /\ {0, ambiguousScoreThreshold, one} \subseteq Scores /\ Scores \subseteq Int
    /\ AsReal \in [Scores -> Int]
    /\ \A s, t \in Scores : s <= t => AsReal[s] <= AsReal[t]
    /\ AsReal[ambiguousScoreThreshold] < AsReal[one]
    /\ \A p \in Pushes :
         /\ p.repo \in Repos
         /\ p.ext \in {"", "ast", "semantic"}
         /\ p.files \in Seq(Files)
         /\ p.entities \in Seq(ToSet(p.entities)) /\ p.edges \in Seq(ToSet(p.edges))
         /\ p.symbols \in Seq(ToSet(p.symbols)) /\ p.hyperedges \in Seq(ToSet(p.hyperedges))
         /\ IsFiniteSet(DOMAIN p.shas)
         /\ \A e \in ToSet(p.edges) : e.score \in Scores
         /\ \A h \in ToSet(p.hyperedges) : IsFiniteSet(h.members)
    /\ \A d \in Databases :
         /\ IsFiniteSet(d)
         /\ \A e \in d : e.table = "edges" => e.score \in Int
         /\ \A m \in d : m.table = "members" =>
              \E h \in d : h.table = "hyperedges" /\ h.repo = m.repo /\ h.id = m.id

VARIABLES
    db,       \* the committed rows of all tables
    tx,       \* per pusher: its push, the next statement and the rows deleted so far
    pushes,   \* pushes begun
    last,     \* history: per owner, the rows of the last push that named its file
    wrote     \* history: every key with the owners that ever wrote it

vars == <<db, tx, pushes, last, wrote>>

Idle == [at |-> 0, push |-> <<>>, gone |-> {}]

Quiet == \A w \in Pushers : tx[w] = Idle

Owners == Repos \X Files \X {"ast", "semantic"}

-----------------------------------------------------------------------------
(* Rows.                                                                    *)

\* Seeded fault: the tiers have a threshold of their own, lower than the query's.
TierFor_OwnThreshold(score) ==
    IF score >= one THEN "EXTRACTED"
    ELSE IF score <= 10000000 THEN "AMBIGUOUS" ELSE "INFERRED"

\* The tier follows from the score before the column rounds it.
TierFor(score) ==
    IF score >= one THEN "EXTRACTED"
    ELSE IF score <= ambiguousScoreThreshold THEN "AMBIGUOUS" ELSE "INFERRED"

Ext(p) == IF p.ext = "" THEN "ast" ELSE p.ext

EntityRow(p, e) ==
    [table |-> "entities", repo |-> p.repo, id |-> e.id, file |-> e.file, ext |-> Ext(p)]

\* An edge without score and tier is certain; a missing tier follows the score.
EdgeRow(p, e) ==
    LET unset == e.score = 0 /\ e.tier = "" IN
    [table |-> "edges", repo |-> p.repo, from |-> e.from, to |-> e.to, relation |-> e.relation,
     file |-> e.file, ext |-> Ext(p),
     score |-> IF unset THEN AsReal[one] ELSE AsReal[e.score],
     tier  |-> IF unset THEN "EXTRACTED" ELSE IF e.tier = "" THEN TierFor(e.score) ELSE e.tier]

\* The table has no extractor column: symbols are the AST extractor's.
SymbolRow(p, s) ==
    [table |-> "symbols", repo |-> p.repo, symbol |-> s.symbol, role |-> s.role,
     id |-> s.id, file |-> s.file, ext |-> "ast"]

HyperedgeRow(p, h) ==
    [table |-> "hyperedges", repo |-> p.repo, id |-> h.id, file |-> h.file, ext |-> Ext(p)]

MemberRow(p, h, m) == [table |-> "members", repo |-> p.repo, id |-> h.id, member |-> m]

CacheRow(p, f) == [table |-> "cache", repo |-> p.repo, file |-> f, sha |-> p.shas[f]]

\* The primary keys.
Key(r) ==
    CASE r.table = "entities"   -> <<"entities", r.repo, r.id>>
      [] r.table = "edges"      -> <<"edges", r.repo, r.from, r.to, r.relation, r.ext>>
      [] r.table = "symbols"    -> <<"symbols", r.repo, r.symbol, r.role, r.id>>
      [] r.table = "hyperedges" -> <<"hyperedges", r.repo, r.id>>
      [] r.table = "members"    -> <<"members", r.repo, r.id, r.member>>
      [] r.table = "cache"      -> <<"cache", r.repo, r.file>>

\* INSERT ... ON CONFLICT DO UPDATE: a row of the same key is taken over.
Upsert(rows, new) == {x \in rows : \A r \in new : Key(x) # Key(r)} \cup new

\* What a push inserts, row by row, in one batch per table.
Batches(p) ==
    {[i \in DOMAIN p.entities   |-> EntityRow(p, p.entities[i])],
     [i \in DOMAIN p.edges      |-> EdgeRow(p, p.edges[i])],
     [i \in DOMAIN p.symbols    |-> SymbolRow(p, p.symbols[i])],
     [i \in DOMAIN p.hyperedges |-> HyperedgeRow(p, p.hyperedges[i])]}

CacheRows(p) == {CacheRow(p, f) : f \in DOMAIN p.shas}

InsertedRows(p) == (UNION {ToSet(s) : s \in Batches(p)}) \cup CacheRows(p)

\* Of two rows of a batch with one key the later one stays.
Latest(s) == {s[i] : i \in {i \in DOMAIN s : \A k \in DOMAIN s : k > i => Key(s[k]) # Key(s[i])}}

StoredRows(p) == (UNION {Latest(s) : s \in Batches(p)}) \cup CacheRows(p)

\* Members are inserted ON CONFLICT DO NOTHING.
MemberRows(p) ==
    UNION {{MemberRow(p, p.hyperedges[i], m) : m \in p.hyperedges[i].members} : i \in DOMAIN p.hyperedges}

-----------------------------------------------------------------------------
(* Service.Push and PGStore.Reconcile.                                      *)

\* Seeded fault: the owning file of an edge is not checked.
InScope_EdgesUnchecked(p) ==
    /\ p.files # <<>>
    /\ \A e \in ToSet(p.entities) : e.file = NoFile \/ e.file \in ToSet(p.files)
    /\ \A s \in ToSet(p.symbols) : s.file \in ToSet(p.files) /\ s.role \in {"provides", "requires"}

\* Push refuses every other body with ErrInvalidScope.  The files of
\* hyperedges and of cached hashes are not checked.
InScope(p) ==
    /\ p.files # <<>>
    /\ \A e \in ToSet(p.entities) : e.file = NoFile \/ e.file \in ToSet(p.files)
    /\ \A e \in ToSet(p.edges) : e.file \in ToSet(p.files)
    /\ \A s \in ToSet(p.symbols) : s.file \in ToSet(p.files) /\ s.role \in {"provides", "requires"}

Begin(w, p) ==
    /\ tx[w] = Idle
    /\ pushes < MaxPushes
    /\ InScope(p)
    /\ pushes' = pushes + 1
    /\ tx' = [tx EXCEPT ![w] = [at |-> 1, push |-> p, gone |-> {}]]
    /\ UNCHANGED <<db, last, wrote>>

\* Seeded fault: the hyperedges go before the subselect on them.
Statements_HyperedgesFirst == <<"edges", "entities", "symbols", "hyperedges", "members">>

\* The five DELETEs of one file.
Statements == <<"edges", "entities", "symbols", "members", "hyperedges">>

\* Seeded fault: every extractor clears the symbols of its files.
Victims_SymbolsAlways(p, f, table, gone) ==
    LET mine(r) == r.repo = p.repo /\ r.file = f /\ (table = "symbols" \/ r.ext = Ext(p)) IN
    IF table = "members"
    THEN {m \in db : m.table = "members" /\ \E h \in db \ gone :
             h.table = "hyperedges" /\ mine(h) /\ m.repo = h.repo /\ m.id = h.id}
    ELSE {r \in db : r.table = table /\ mine(r)}

\* The rows a DELETE matches: committed rows, less what its own transaction
\* has deleted.  Symbols count as the AST extractor's.
Victims(p, f, table, gone) ==
    LET mine(r) == r.repo = p.repo /\ r.file = f /\ r.ext = Ext(p) IN
    IF table = "members"
    THEN {m \in db : m.table = "members" /\ \E h \in db \ gone :
             h.table = "hyperedges" /\ mine(h) /\ m.repo = h.repo /\ m.id = h.id}
    ELSE {r \in db : r.table = table /\ mine(r)}

Deletes(p) == Len(p.files) * Len(Statements)

Delete(w) ==
    LET p == tx[w].push
        n == tx[w].at - 1
        f == p.files[(n \div Len(Statements)) + 1]
        t == Statements[(n % Len(Statements)) + 1]
    IN /\ tx[w] # Idle
       /\ n < Deletes(p)
       /\ tx' = [tx EXCEPT ![w].at = @ + 1, ![w].gone = @ \cup Victims(p, f, t, @)]
       /\ UNCHANGED <<db, pushes, last, wrote>>

\* A row another open transaction has deleted is locked: an upsert of its key
\* waits.  If two pushes wait for each other Postgres fails one of them.
Blocked(w) ==
    \E v \in Pushers \ {w}, r \in InsertedRows(tx[w].push) :
        \E x \in tx[v].gone : Key(x) = Key(r)

OwnedBy(o, rows) ==
    {r \in rows : r.table \in {"entities", "edges", "symbols"} /\ <<r.repo, r.file, r.ext>> = o}

\* The upserts and the commit.
Commit(w) ==
    LET p == tx[w].push
        named == {<<p.repo, f, Ext(p)>> : f \in ToSet(p.files)}
    IN /\ tx[w] # Idle
       /\ tx[w].at - 1 = Deletes(p)
       /\ ~Blocked(w)
       /\ db' = Upsert(db \ tx[w].gone, StoredRows(p)) \cup MemberRows(p)
       /\ last' = [o \in Owners |->
                     IF o \in named THEN OwnedBy(o, StoredRows(p)) ELSE last[o]]
       /\ wrote' = wrote \cup {<<Key(r), <<r.file, Ext(p)>> >> : r \in InsertedRows(p)}
       /\ tx' = [tx EXCEPT ![w] = Idle]
       /\ UNCHANGED pushes

\* A statement or the commit fails, or the client is gone: rolled back.
Abort(w) ==
    /\ tx[w] # Idle
    /\ tx' = [tx EXCEPT ![w] = Idle]
    /\ UNCHANGED <<db, pushes, last, wrote>>

-----------------------------------------------------------------------------
\* An empty database takes MaxPushes pushes; a database that earlier pushes
\* left is there to be read.
Init ==
    /\ db \in Databases
    /\ tx = [w \in Pushers |-> Idle]
    /\ pushes = IF db = {} THEN 0 ELSE MaxPushes
    /\ last = [o \in Owners |-> OwnedBy(o, db)]
    /\ wrote = {}

PushStep(w) == Delete(w) \/ Commit(w) \/ Abort(w)

Next == \E w \in Pushers : PushStep(w) \/ \E p \in Pushes : Begin(w, p)

\* A push under way ends.
Spec == Init /\ [][Next]_vars /\ \A w \in Pushers : WF_vars(PushStep(w))

-----------------------------------------------------------------------------
(* Properties.                                                              *)

\* "Reconcile deletes the prior graph owned by p.Files": what an extractor
\* has stored for a file comes from its last push that named the file.
NothingStale ==
    \A o \in Owners : OwnedBy(o, db) \subseteq last[o]

\* A key two owners wrote belongs to whoever wrote it last; the other one's
\* row is lost, and so is the key when the second owner drops it.
Contested(k) == \E x, y \in wrote : x[1] = k /\ y[1] = k /\ x # y

\* A push takes nothing from another file or extractor: what the last push of
\* a file stored is still there, unless its key is contested.
NothingLost ==
    \A o \in Owners : \A r \in last[o] : r \in db \/ Contested(Key(r))

\* A member row belongs to a stored hyperedge, so that a hyperedge that is
\* removed and pushed again later does not come back with old members.
MembersHaveHyperedge ==
    \A m \in db : m.table = "members" =>
        \E h \in db : h.table = "hyperedges" /\ h.repo = m.repo /\ h.id = m.id
=============================================================================
