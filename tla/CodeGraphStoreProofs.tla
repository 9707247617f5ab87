------------------------ MODULE CodeGraphStoreProofs ------------------------
(***************************************************************************)
(* Proofs about the pushes of the code graph: with one push at a time what  *)
(* is stored is what was pushed last, nothing of another file or extractor  *)
(* is lost, and no member outlives its hyperedge.  With two pushes at once  *)
(* the first of these fails (run CodeGraphConcurrentPush).                  *)
(*                                                                          *)
(* The invariant follows a transaction statement by statement: what its     *)
(* DELETEs so far must have removed is removed (Cleared), and nothing else  *)
(* of the tables with an owner is (OnlyNamed).                              *)
(*                                                                          *)
(* Then the reads, for any number of pushes at a time: all they need of the *)
(* rows is RowsOK.  Each recursive query is unfolded (RecursionExists),     *)
(* shown to have the trails of n steps in round n, and compared with simple *)
(* routes by leaving out circles (TrailCut).                                *)
(***************************************************************************)
EXTENDS CodeGraphReads, TLAPS, FiniteSetTheorems, SequenceTheorems, WellFoundedInduction

\* "Symbols slice is empty on semantic pushes" (pgstore.go:93): Reconcile
\* relies on it and does not check it.
SymbolsFromAst == \A p \in Pushes : p.symbols = <<>> \/ Ext(p) = "ast"

Owned == {"entities", "edges", "symbols"}

Tables == Owned \cup {"members", "hyperedges", "cache"}

MemberOf(m, h) ==
    /\ m.table = "members" /\ h.table = "hyperedges"
    /\ h.repo = m.repo /\ h.id = m.id

Mine(p, f, r) == r.repo = p.repo /\ r.file = f /\ r.ext = Ext(p)

\* What is gone once the DELETE of table t for file f has run.
Cleared(p, f, t, gone) ==
    IF t = "members"
    THEN \A m, h \in db : MemberOf(m, h) /\ Mine(p, f, h) => m \in gone
    ELSE \A r \in db : r.table = t /\ Mine(p, f, r) => r \in gone

FileAt(p, n) == p.files[(n \div 5) + 1]

TableAt(n) == Statements[(n % 5) + 1]

Open(w) == tx[w].at # 0

TxOK(w) ==
    /\ DOMAIN tx = Pushers
    /\ tx[w] = Idle
         \/ /\ tx[w] \in [at : Nat \ {0}, push : Pushes, gone : SUBSET db]
            /\ tx[w].at - 1 <= Len(tx[w].push.files) * 5
            /\ InScope(tx[w].push)

\* The statements run so far have cleared what they name.
DeletesDone(w) ==
    Open(w) => \A n \in Nat : n < tx[w].at - 1 =>
        Cleared(tx[w].push, FileAt(tx[w].push, n), TableAt(n), tx[w].gone)

\* A deleted hyperedge has taken its members along.
MembersGoFirst(w) ==
    Open(w) => \A m, h \in db : MemberOf(m, h) /\ h \in tx[w].gone => m \in tx[w].gone

\* Of the tables with an owner only rows of the named files are deleted.
OnlyNamed(w) ==
    Open(w) => \A r \in tx[w].gone : r.table \in Owned =>
        \E f \in ToSet(tx[w].push.files) : Mine(tx[w].push, f, r)

TxInv(w) == TxOK(w) /\ DeletesDone(w) /\ MembersGoFirst(w) /\ OnlyNamed(w)

\* A database found at the start takes no push.
Found == pushes = MaxPushes /\ (\A w \in Pushers : tx[w] = Idle) /\ last = [o \in Owners |-> OwnedBy(o, db)]

LastOK == DOMAIN last = Owners /\ \A o \in Owners : last[o] = OwnedBy(o, last[o])

\* Who wrote a row is on record.
Recorded == \A o \in Owners : \A r \in last[o] : <<Key(r), <<r.file, r.ext>> >> \in wrote

Built == LastOK /\ Recorded /\ NothingStale /\ NothingLost

-----------------------------------------------------------------------------
(* Statements, keys and rows.                                               *)

\* Deletes takes five statements per file.
LEMMA FiveStatements ==
    /\ Len(Statements) = 5
    /\ Statements[1] = "edges" /\ Statements[2] = "entities" /\ Statements[3] = "symbols"
    /\ Statements[4] = "members" /\ Statements[5] = "hyperedges"
BY DEF Statements

\* Statement n is statement n % 5 of file n \div 5.
LEMMA Position ==
    ASSUME NEW n \in Nat
    PROVE  /\ n \div 5 \in Nat /\ n % 5 \in 0..4 /\ n = (n \div 5) * 5 + (n % 5)
           /\ n % 5 = 4 => n - 1 \in Nat /\ (n - 1) \div 5 = n \div 5 /\ (n - 1) % 5 = 3
OBVIOUS

\* Every statement has a file.
LEMMA FileInRange ==
    ASSUME NEW n \in Nat, NEW L \in Nat, n < L * 5
    PROVE  (n \div 5) + 1 \in 1..L
<1> DEFINE q == n \div 5
           r == n % 5
<1>1. q \in Nat /\ r \in 0..4 /\ n = q * 5 + r BY Position
<1> HIDE DEF q, r
<1>2. q < L BY <1>1
<1> QED BY <1>1, <1>2 DEF q

\* The number of a file's statement.
LEMMA StatementOf ==
    ASSUME NEW L \in Nat, NEW i \in 1..L, NEW j \in 1..5
    PROVE  LET n == (i - 1) * 5 + (j - 1) IN
           n \in Nat /\ n < L * 5 /\ (n \div 5) + 1 = i /\ (n % 5) + 1 = j
OBVIOUS

\* The first two components of a key are the table and the repository, and a
\* hyperedge's third is its id.
LEMMA KeyParts ==
    ASSUME NEW r, r.table \in Tables
    PROVE  /\ Key(r)[1] = r.table /\ Key(r)[2] = r.repo
           /\ r.table = "hyperedges" => Key(r)[3] = r.id
<1>1. CASE r.table = "entities"   BY <1>1 DEF Key
<1>2. CASE r.table = "edges"      BY <1>2 DEF Key
<1>3. CASE r.table = "symbols"    BY <1>3 DEF Key
<1>4. CASE r.table = "hyperedges" BY <1>4 DEF Key
<1>5. CASE r.table = "members"    BY <1>5 DEF Key
<1>6. CASE r.table = "cache"      BY <1>6 DEF Key
<1> QED BY <1>1, <1>2, <1>3, <1>4, <1>5, <1>6 DEF Tables, Owned

\* Every row a push inserts is of a table other than the members'.
LEMMA InsertedTable ==
    ASSUME NEW p, NEW r \in InsertedRows(p)
    PROVE  r.table \in Tables \ {"members"}
<1>1. CASE r \in CacheRows(p) BY <1>1 DEF CacheRows, CacheRow, Tables
<1>2. CASE \E s \in Batches(p) : r \in ToSet(s)
  <2> PICK s \in Batches(p) : r \in ToSet(s) BY <1>2
  <2>1. PICK i \in DOMAIN s : r = s[i] BY DEF ToSet
  <2>2. CASE s = [k \in DOMAIN p.entities |-> EntityRow(p, p.entities[k])]
    BY <2>1, <2>2 DEF EntityRow, Tables, Owned
  <2>3. CASE s = [k \in DOMAIN p.edges |-> EdgeRow(p, p.edges[k])]
    <3>1. r.table = "edges" BY <2>1, <2>3 DEF EdgeRow
    <3> QED BY <3>1 DEF Tables, Owned
  <2>4. CASE s = [k \in DOMAIN p.symbols |-> SymbolRow(p, p.symbols[k])]
    BY <2>1, <2>4 DEF SymbolRow, Tables, Owned
  <2>5. CASE s = [k \in DOMAIN p.hyperedges |-> HyperedgeRow(p, p.hyperedges[k])]
    BY <2>1, <2>5 DEF HyperedgeRow, Tables, Owned
  <2> QED BY <2>2, <2>3, <2>4, <2>5 DEF Batches
<1>3. (\E s \in Batches(p) : r \in ToSet(s)) \/ r \in CacheRows(p)
  BY Zenon DEF InsertedRows
<1> QED BY <1>1, <1>2, <1>3

\* A row with an owner has the repository and the extractor of its push, and
\* a file the push names.
LEMMA InsertedShape ==
    ASSUME NEW p \in Pushes, SymbolsFromAst, InScope(p), NEW r \in InsertedRows(p)
    PROVE  /\ r.repo = p.repo
           /\ r.table \in Owned => /\ r.ext = Ext(p)
                                   /\ r.file = NoFile \/ r.file \in ToSet(p.files)
<1>1. CASE \E i \in DOMAIN p.entities : r = EntityRow(p, p.entities[i])
  <2> PICK i \in DOMAIN p.entities : r = EntityRow(p, p.entities[i]) BY <1>1
  <2>1. p.entities[i] \in ToSet(p.entities) BY DEF ToSet
  <2> QED BY <2>1 DEF EntityRow, InScope, Tables, Owned
<1>2. CASE \E i \in DOMAIN p.edges : r = EdgeRow(p, p.edges[i])
  <2> PICK i \in DOMAIN p.edges : r = EdgeRow(p, p.edges[i]) BY <1>2
  <2>1. p.edges[i] \in ToSet(p.edges) BY DEF ToSet
  <2>2. r.table = "edges" /\ r.repo = p.repo /\ r.file = p.edges[i].file /\ r.ext = Ext(p)
    BY DEF EdgeRow
  <2> QED BY <2>1, <2>2 DEF InScope, Tables, Owned
<1>3. CASE \E i \in DOMAIN p.symbols : r = SymbolRow(p, p.symbols[i])
  <2> PICK i \in DOMAIN p.symbols : r = SymbolRow(p, p.symbols[i]) BY <1>3
  <2>1. p.symbols[i] \in ToSet(p.symbols) BY DEF ToSet
  <2>2. Ext(p) = "ast" BY DEF SymbolsFromAst
  <2> QED BY <2>1, <2>2 DEF SymbolRow, InScope, Tables, Owned
<1>4. CASE \E i \in DOMAIN p.hyperedges : r = HyperedgeRow(p, p.hyperedges[i])
  BY <1>4 DEF HyperedgeRow, Tables, Owned
<1>5. CASE r \in CacheRows(p) BY <1>5 DEF CacheRows, CacheRow, Tables, Owned
<1>6. CASE \E s \in Batches(p) : r \in ToSet(s)
  <2> PICK s \in Batches(p) : r \in ToSet(s) BY <1>6
  <2>1. PICK i \in DOMAIN s : r = s[i] BY DEF ToSet
  <2>2. CASE s = [k \in DOMAIN p.entities |-> EntityRow(p, p.entities[k])] BY <2>1, <2>2, <1>1
  <2>3. CASE s = [k \in DOMAIN p.edges |-> EdgeRow(p, p.edges[k])] BY <2>1, <2>3, <1>2
  <2>4. CASE s = [k \in DOMAIN p.symbols |-> SymbolRow(p, p.symbols[k])] BY <2>1, <2>4, <1>3
  <2>5. CASE s = [k \in DOMAIN p.hyperedges |-> HyperedgeRow(p, p.hyperedges[k])] BY <2>1, <2>5, <1>4
  <2> QED BY <2>2, <2>3, <2>4, <2>5 DEF Batches
<1>7. (\E s \in Batches(p) : r \in ToSet(s)) \/ r \in CacheRows(p)
  BY Zenon DEF InsertedRows
<1> QED BY <1>5, <1>6, <1>7

\* What is stored of a push was in it.
LEMMA StoredInserted ==
    ASSUME NEW p PROVE StoredRows(p) \subseteq InsertedRows(p)
<1>1. \A s : Latest(s) \subseteq ToSet(s) BY DEF Latest, ToSet
<1> QED BY <1>1 DEF StoredRows, InsertedRows

\* Members are rows of the members table.
LEMMA MemberShape ==
    ASSUME NEW p, NEW r \in MemberRows(p)
    PROVE  /\ r.table = "members" /\ r.repo = p.repo
           /\ \E i \in DOMAIN p.hyperedges : r.id = p.hyperedges[i].id
BY DEF MemberRows, MemberRow

\* A nonempty set of positions has a last one.
LEMMA LastPosition ==
    ASSUME NEW L \in Nat, NEW S \in SUBSET (1..L), S # {}
    PROVE  \E i \in S : \A k \in S : k <= i
<1> DEFINE T == {L - i : i \in S}
<1>1. T \subseteq Nat /\ T # {}
  <2>1. \A i \in S : i \in 1..L OBVIOUS
  <2>2. \A i \in S : L - i \in Nat BY <2>1
  <2> QED BY <2>2
<1>2. \E x \in T : \A y \in T : ~ (<<y, x>> \in OpToRel(<, Nat))
  <2> HIDE DEF T
  <2> QED BY <1>1, NatLessThanWellFounded, WFMin, Zenon
<1>3. PICK x \in T : \A y \in T : ~ (<<y, x>> \in OpToRel(<, Nat)) BY <1>2
<1>4. \A y \in T : ~ (y < x)
  <2> SUFFICES ASSUME NEW y \in T, y < x PROVE FALSE OBVIOUS
  <2>1. <<y, x>> \in OpToRel(<, Nat) BY <1>1 DEF OpToRel
  <2> QED BY <2>1, <1>3
<1>5. PICK i \in S : x = L - i OBVIOUS
<1>6. ASSUME NEW k \in S PROVE k <= i
  <2>1. i \in 1..L /\ k \in 1..L OBVIOUS
  <2>2. L - k \in T OBVIOUS
  <2>3. ~ (L - k < L - i) BY <2>2, <1>4, <1>5
  <2> QED BY <2>1, <2>3
<1> QED BY <1>6

\* A hyperedge of a push is stored, in the form of the last one of its id.
LEMMA HyperedgeStored ==
    ASSUME NEW p \in Pushes, NEW i \in DOMAIN p.hyperedges
    PROVE  \E h \in StoredRows(p) :
             h.table = "hyperedges" /\ h.repo = p.repo /\ h.id = p.hyperedges[i].id
<1> DEFINE s == [k \in DOMAIN p.hyperedges |-> HyperedgeRow(p, p.hyperedges[k])]
           S == {k \in DOMAIN s : Key(s[k]) = Key(s[i])}
           L == Len(p.hyperedges)
<1>1. L \in Nat /\ DOMAIN p.hyperedges = 1..L
  <2>1. p.hyperedges \in Seq(ToSet(p.hyperedges)) BY StoreAssumption
  <2> QED BY <2>1
<1>2. S \in SUBSET (1..L) /\ i \in S BY <1>1
<1>3. PICK j \in S : \A k \in S : k <= j
  <2> HIDE DEF S, L
  <2> QED BY <1>1, <1>2, LastPosition
<1>4. s[j] \in Latest(s)
  <2>1. \A k \in DOMAIN s : k > j => Key(s[k]) # Key(s[j])
    <3> SUFFICES ASSUME NEW k \in DOMAIN s, k > j, Key(s[k]) = Key(s[j]) PROVE FALSE OBVIOUS
    <3>1. k \in S BY <1>3
    <3>2. k <= j BY <3>1, <1>3
    <3>3. k \in 1..L /\ j \in 1..L BY <1>1, <1>2
    <3> HIDE DEF S, s, L
    <3> QED BY <3>2, <3>3, <1>1
  <2> QED BY <2>1 DEF Latest
<1>5. s \in Batches(p) BY DEF Batches
<1>6. s[j] \in StoredRows(p)
  <2> HIDE DEF s
  <2> QED BY <1>4, <1>5 DEF StoredRows
<1>7. /\ s[j].table = "hyperedges" /\ s[j].repo = p.repo
      /\ s[i].table = "hyperedges" /\ s[i].id = p.hyperedges[i].id
  BY DEF HyperedgeRow
<1>8. s[j].id = s[i].id
  <2> HIDE DEF s
  <2> QED BY <1>3, <1>7, KeyParts DEF Tables
<1> QED BY <1>6, <1>7, <1>8

-----------------------------------------------------------------------------
(* A transaction, with one pusher.                                          *)

\* The shape of an open transaction.
LEMMA OpenShape ==
    ASSUME NEW w, Pushers = {w}, TxOK(w), tx[w] # Idle
    PROVE  /\ Open(w) /\ tx[w] \in [at : Nat \ {0}, push : Pushes, gone : SUBSET db]
           /\ tx[w].push \in Pushes /\ tx[w].gone \subseteq db
           /\ tx[w].push.files \in Seq(Files) /\ Len(tx[w].push.files) \in Nat
           /\ tx[w].at \in Nat \ {0} /\ tx[w].at - 1 <= Len(tx[w].push.files) * 5
           /\ InScope(tx[w].push)
           /\ Deletes(tx[w].push) = Len(tx[w].push.files) * 5
<1>1. tx[w] \in [at : Nat \ {0}, push : Pushes, gone : SUBSET db]
  BY DEF TxOK
<1>2. tx[w].push \in Pushes /\ tx[w].gone \subseteq db /\ tx[w].at \in Nat \ {0}
  BY <1>1
<1>3. tx[w].push.files \in Seq(Files) BY <1>2, StoreAssumption
<1>4. Len(tx[w].push.files) \in Nat BY <1>3
<1>5. Deletes(tx[w].push) = Len(tx[w].push.files) * 5 BY FiveStatements DEF Deletes
<1> QED BY <1>1, <1>2, <1>3, <1>4, <1>5 DEF TxOK, Open

\* Begin opens a transaction with nothing deleted.
LEMMA BeginTx ==
    ASSUME NEW w, Pushers = {w}, TxInv(w), NEW p \in Pushes, Begin(w, p)
    PROVE  TxInv(w)'
<1>1. tx' = [tx EXCEPT ![w] = [at |-> 1, push |-> p, gone |-> {}]] /\ InScope(p) /\ db' = db
  BY DEF Begin
<1>2. DOMAIN tx = Pushers BY DEF TxInv, TxOK
<1>3. tx'[w] = [at |-> 1, push |-> p, gone |-> {}] /\ DOMAIN tx' = Pushers BY <1>1, <1>2
<1>4. TxOK(w)'
  <2>1. p.files \in Seq(Files) BY StoreAssumption
  <2>2. Len(p.files) \in Nat BY <2>1
  <2>3. tx'[w] \in [at : Nat \ {0}, push : Pushes, gone : SUBSET db'] BY <1>3
  <2>4. tx'[w].at = 1 /\ tx'[w].push = p BY <1>3
  <2>5. InScope(tx[w].push)' BY <2>4, <1>1 DEF InScope
  <2> QED BY <2>2, <2>3, <2>4, <2>5, <1>3 DEF TxOK
<1>5. DeletesDone(w)' BY <1>3 DEF DeletesDone
<1>6. MembersGoFirst(w)' /\ OnlyNamed(w)' BY <1>3 DEF MembersGoFirst, OnlyNamed
<1> QED BY <1>4, <1>5, <1>6 DEF TxInv

\* A transaction that ends leaves none open.
LEMMA EndTx ==
    ASSUME NEW w, Pushers = {w}, TxInv(w), tx' = [tx EXCEPT ![w] = Idle]
    PROVE  TxInv(w)' /\ tx'[w] = Idle
<1>1. tx'[w] = Idle /\ DOMAIN tx' = Pushers BY DEF TxInv, TxOK
<1>2. ~ Open(w)' BY <1>1 DEF Open, Idle
<1> QED BY <1>1, <1>2 DEF TxInv, TxOK, DeletesDone, MembersGoFirst, OnlyNamed

\* A DELETE clears what it names, its members before its hyperedges.
LEMMA DeleteTx ==
    ASSUME NEW w, Pushers = {w}, TxInv(w), Delete(w)
    PROVE  TxInv(w)'
<1> DEFINE p == tx[w].push
           n == tx[w].at - 1
           g == tx[w].gone
           f == FileAt(p, n)
           t == TableAt(n)
           v == Victims(p, f, t, g)
<1>1. tx[w] # Idle /\ TxOK(w) BY DEF Delete, TxInv
<1>2. /\ Open(w) /\ tx[w] \in [at : Nat \ {0}, push : Pushes, gone : SUBSET db]
      /\ p \in Pushes /\ g \subseteq db /\ Len(p.files) \in Nat /\ p.files \in Seq(Files)
      /\ n \in Nat /\ Deletes(p) = Len(p.files) * 5 /\ InScope(p)
  BY <1>1, OpenShape
<1>3. /\ n < Len(p.files) * 5 /\ db' = db
      /\ tx' = [tx EXCEPT ![w].at = @ + 1, ![w].gone = @ \cup Victims(p, f, t, @)]
  BY <1>2, FiveStatements DEF Delete, FileAt, TableAt
<1>4. DOMAIN tx = Pushers BY <1>1 DEF TxOK
<1>5. /\ tx'[w].at - 1 = n + 1 /\ tx'[w].push = p /\ tx'[w].gone = g \cup v /\ DOMAIN tx' = Pushers
      /\ tx'[w].at \in Nat \ {0}
  BY <1>2, <1>3, <1>4
<1>6. v \subseteq db BY DEF Victims
<1>7. tx'[w] \in [at : Nat \ {0}, push : Pushes, gone : SUBSET db']
  <2>1. tx'[w] = [at |-> tx[w].at + 1, push |-> p, gone |-> g \cup v] BY <1>2, <1>3, <1>4
  <2> HIDE DEF v, p, g
  <2> QED BY <2>1, <1>2, <1>3, <1>5, <1>6
<1>8. TxOK(w)'
  <2>1. n + 1 <= Len(p.files) * 5 BY <1>2, <1>3
  <2>2. InScope(tx[w].push)' BY <1>2, <1>5 DEF InScope
  <2> HIDE DEF p, n, g, v
  <2> QED BY <1>5, <1>7, <2>1, <2>2 DEF TxOK
<1>9. n \div 5 \in Nat /\ n % 5 \in 0..4 /\ n = (n \div 5) * 5 + (n % 5)
  <2> HIDE DEF n
  <2> QED BY <1>2, Position
<1>10. t \in {"edges", "entities", "symbols", "members", "hyperedges"}
  BY <1>9, FiveStatements DEF TableAt
<1>11. (n \div 5) + 1 \in 1..Len(p.files) 
  <2> HIDE DEF n, p
  <2> QED BY <1>2, <1>3, FileInRange
<1>12. f \in ToSet(p.files) BY <1>11, <1>2 DEF FileAt, ToSet
<1>13. \A k \in Nat : k < n => Cleared(p, FileAt(p, k), TableAt(k), g)
  BY <1>2 DEF TxInv, DeletesDone
<1>14. \A m, h \in db : MemberOf(m, h) /\ h \in g => m \in g BY <1>2 DEF TxInv, MembersGoFirst
<1>15. ASSUME t = "members", NEW m \in db, NEW h \in db, MemberOf(m, h), Mine(p, f, h)
       PROVE  m \in g \cup v
  <2>1. CASE h \in g BY <2>1, <1>14, <1>15
  <2>2. CASE h \notin g
    <3> HIDE DEF p, g, f, t
    <3> QED BY <2>2, <1>15 DEF Victims, MemberOf, Mine
  <2> QED BY <2>1, <2>2
<1>16. ASSUME t # "members", NEW r \in db PROVE r \in v <=> r.table = t /\ Mine(p, f, r)
  <2> HIDE DEF p, g, f, t
  <2> QED BY <1>16 DEF Victims, Mine
<1>17. Cleared(p, f, t, g \cup v)
  <2>1. CASE t = "members" BY <2>1, <1>15 DEF Cleared
  <2>2. CASE t # "members" BY <2>2, <1>16 DEF Cleared
  <2> QED BY <2>1, <2>2
<1> HIDE DEF p, n, g, f, t, v
<1>18. DeletesDone(w)'
  <2> SUFFICES ASSUME NEW k \in Nat, k < n + 1
               PROVE  Cleared(p, FileAt(p, k), TableAt(k), g \cup v)
    BY <1>3, <1>5 DEF DeletesDone, Cleared
  <2>1. CASE k < n
    <3>1. Cleared(p, FileAt(p, k), TableAt(k), g) BY <2>1, <1>13
    <3> QED BY <3>1 DEF Cleared
  <2>2. CASE k = n BY <2>2, <1>17 DEF f, t
  <2> QED BY <2>1, <2>2, <1>2
<1>19. MembersGoFirst(w)'
  <2> SUFFICES ASSUME NEW m \in db, NEW h \in db, MemberOf(m, h), h \in g \cup v
               PROVE  m \in g \cup v
    BY <1>3, <1>5 DEF MembersGoFirst
  <2>1. CASE h \in g BY <2>1, <1>14
  <2>2. CASE h \in v
    <3>1. h.table = "hyperedges" BY DEF MemberOf
    <3>2. t # "members"
      BY <2>2, <3>1 DEF v, Victims
    <3>3. t = "hyperedges" /\ Mine(p, f, h) BY <2>2, <3>1, <3>2, <1>16
    <3>4. n % 5 = 4 BY <3>3, <1>9, FiveStatements DEF t, TableAt
    <3>5. n - 1 \in Nat /\ (n - 1) \div 5 = n \div 5 /\ (n - 1) % 5 = 3 BY <3>4, <1>2, Position
    <3>6. FileAt(p, n - 1) = f /\ TableAt(n - 1) = "members"
      BY <3>5, FiveStatements DEF f, FileAt, TableAt
    <3>7. Cleared(p, f, "members", g)
      BY <1>13, <3>5, <3>6, <1>2
    <3> QED BY <3>3, <3>7 DEF Cleared
  <2> QED BY <2>1, <2>2
<1>20. OnlyNamed(w)'
  <2> SUFFICES ASSUME NEW r \in g \cup v, r.table \in Owned
               PROVE  \E x \in ToSet(p.files) : Mine(p, x, r)
    BY <1>3, <1>5 DEF OnlyNamed
  <2>1. CASE r \in g BY <2>1, <1>2 DEF TxInv, OnlyNamed, p, g
  <2>2. CASE r \in v
    <3>1. t # "members" BY <2>2 DEF v, Victims, Owned
    <3> QED BY <2>2, <3>1, <1>6, <1>12, <1>16
  <2> QED BY <2>1, <2>2
<1> QED BY <1>8, <1>18, <1>19, <1>20 DEF TxInv

-----------------------------------------------------------------------------
(* The commit, with one pusher.                                             *)

Named(p) == {<<p.repo, f, Ext(p)>> : f \in ToSet(p.files)}

\* What a commit does to the database and to the history.
LEMMA CommitStep ==
    ASSUME NEW w, Pushers = {w}, TxInv(w), Commit(w)
    PROVE  LET p == tx[w].push IN
           /\ tx[w] # Idle /\ tx[w].at - 1 = Deletes(p)
           /\ db' = Upsert(db \ tx[w].gone, StoredRows(p)) \cup MemberRows(p)
           /\ DOMAIN last' = Owners
           /\ \A o \in Owners : last'[o] = IF o \in Named(p) THEN OwnedBy(o, StoredRows(p)) ELSE last[o]
           /\ wrote' = wrote \cup {<<Key(r), <<r.file, Ext(p)>> >> : r \in InsertedRows(p)}
           /\ tx' = [tx EXCEPT ![w] = Idle] /\ pushes' = pushes
BY DEF Commit, Named

\* Before the commit everything the named files owned has been deleted.
LEMMA AllDeleted ==
    ASSUME NEW w, Pushers = {w}, TxInv(w), tx[w] # Idle, tx[w].at - 1 = Deletes(tx[w].push),
           NEW f \in ToSet(tx[w].push.files), NEW r \in db, Mine(tx[w].push, f, r), r.table \in Owned
    PROVE  r \in tx[w].gone
<1> DEFINE p == tx[w].push
           g == tx[w].gone
           L == Len(p.files)
<1>1. /\ Open(w) /\ L \in Nat /\ p.files \in Seq(Files) /\ tx[w].at - 1 = L * 5
  BY OpenShape DEF TxInv
<1>2. PICK i \in 1..L : f = p.files[i] BY <1>1 DEF ToSet
<1>3. PICK j \in {1, 2, 3} : r.table = Statements[j] BY FiveStatements DEF Owned
<1>4. j \in 1..5 BY <1>3
<1> DEFINE n == (i - 1) * 5 + (j - 1)
<1>5. n \in Nat /\ n < L * 5 /\ (n \div 5) + 1 = i /\ (n % 5) + 1 = j
  <2>1. L \in Nat BY <1>1
  <2> HIDE DEF L
  <2> QED BY <2>1, <1>2, <1>4, StatementOf
<1> HIDE DEF n
<1>6. Cleared(p, FileAt(p, n), TableAt(n), g)
  BY <1>1, <1>5 DEF TxInv, DeletesDone
<1>7. FileAt(p, n) = f /\ TableAt(n) = r.table BY <1>2, <1>3, <1>5 DEF FileAt, TableAt
<1> QED BY <1>6, <1>7 DEF Cleared, Owned

\* A row of an owner is a row of an owned table.
LEMMA OwnedShape ==
    ASSUME NEW o \in Owners, NEW rows, NEW r \in OwnedBy(o, rows)
    PROVE  /\ r \in rows /\ r.table \in Owned /\ o = <<r.repo, r.file, r.ext>>
           /\ r.file \in Files /\ r.file # NoFile
<1>1. r \in rows /\ r.table \in Owned /\ o = <<r.repo, r.file, r.ext>> BY DEF OwnedBy, Owned
<1>2. o[2] = r.file BY <1>1
<1>3. o[2] \in Files BY DEF Owners
<1>4. NoFile \notin Files BY StoreAssumption
<1> QED BY <1>1, <1>2, <1>3, <1>4

\* A push stores rows of the files it names only.
LEMMA StoredIsNamed ==
    ASSUME NEW p \in Pushes, SymbolsFromAst, InScope(p), NEW o \in Owners, NEW r \in InsertedRows(p),
           r.table \in Owned, r.file # NoFile, o = <<r.repo, r.file, r.ext>>
    PROVE  o \in Named(p)
BY InsertedShape DEF Named

\* What is stored for an owner after a commit is what its last push stored.
LEMMA CommitNothingStale ==
    ASSUME NEW w, Pushers = {w}, SymbolsFromAst, TxInv(w), NothingStale, Commit(w)
    PROVE  NothingStale'
<1> DEFINE p == tx[w].push
           g == tx[w].gone
<1> SUFFICES ASSUME NEW o \in Owners, NEW r \in OwnedBy(o, db') PROVE r \in last'[o]
  BY DEF NothingStale, OwnedBy
<1>1. /\ tx[w] # Idle /\ tx[w].at - 1 = Deletes(p)
      /\ db' = Upsert(db \ g, StoredRows(p)) \cup MemberRows(p)
      /\ last'[o] = IF o \in Named(p) THEN OwnedBy(o, StoredRows(p)) ELSE last[o]
  BY CommitStep
<1>2. p \in Pushes /\ InScope(p) BY <1>1, OpenShape DEF TxInv
<1>3. r \in db' /\ r.table \in Owned /\ o = <<r.repo, r.file, r.ext>> /\ r.file \in Files /\ r.file # NoFile
  BY OwnedShape
<1>4. r \notin MemberRows(p) BY <1>3, MemberShape DEF Owned
<1>5. CASE r \in StoredRows(p)
  <2>1. o \in Named(p) BY <1>2, <1>3, <1>5, StoredInserted, StoredIsNamed
  <2>2. r \in OwnedBy(o, StoredRows(p)) BY <1>3, <1>5 DEF OwnedBy, Owned
  <2> QED BY <1>1, <2>1, <2>2
<1>6. CASE r \in db \ g
  <2>1. o \notin Named(p)
    <3> SUFFICES ASSUME o \in Named(p) PROVE FALSE OBVIOUS
    <3>1. PICK f \in ToSet(p.files) : o = <<p.repo, f, Ext(p)>> BY DEF Named
    <3>2. Mine(p, f, r) BY <3>1, <1>3 DEF Mine
    <3>3. r \in g BY <3>2, <1>1, <1>3, <1>6, AllDeleted
    <3> QED BY <3>3, <1>6
  <2>2. r \in OwnedBy(o, db) BY <1>3, <1>6 DEF OwnedBy, Owned
  <2> QED BY <1>1, <2>1, <2>2 DEF NothingStale
<1> QED BY <1>1, <1>3, <1>4, <1>5, <1>6 DEF Upsert

\* The history stays a history of rows by their owner, all on record.
LEMMA CommitRecorded ==
    ASSUME NEW w, Pushers = {w}, SymbolsFromAst, TxInv(w), LastOK, Recorded, Commit(w)
    PROVE  LastOK' /\ Recorded'
<1> DEFINE p == tx[w].push
<1>1. /\ tx[w] # Idle /\ DOMAIN last' = Owners
      /\ \A o \in Owners : last'[o] = IF o \in Named(p) THEN OwnedBy(o, StoredRows(p)) ELSE last[o]
      /\ wrote' = wrote \cup {<<Key(r), <<r.file, Ext(p)>> >> : r \in InsertedRows(p)}
  BY CommitStep
<1>2. p \in Pushes /\ InScope(p) BY <1>1, OpenShape DEF TxInv
<1> HIDE DEF p
<1>3. LastOK'
  <2>1. \A o, rows : OwnedBy(o, OwnedBy(o, rows)) = OwnedBy(o, rows) BY DEF OwnedBy
  <2>2. \A o \in Owners : last'[o] = OwnedBy(o, last'[o]) BY <1>1, <2>1 DEF LastOK
  <2> QED BY <1>1, <2>2 DEF LastOK, OwnedBy, Owners
<1>4. Recorded'
  <2> SUFFICES ASSUME NEW o \in Owners, NEW r \in last'[o] PROVE <<Key(r), <<r.file, r.ext>> >> \in wrote'
    BY DEF Recorded, Key
  <2>1. CASE o \notin Named(p) BY <2>1, <1>1 DEF Recorded
  <2>2. CASE o \in Named(p)
    <3>1. r \in OwnedBy(o, StoredRows(p)) BY <2>2, <1>1
    <3>2. r \in InsertedRows(p) /\ r.table \in Owned BY <3>1, OwnedShape, StoredInserted
    <3>3. r.ext = Ext(p) BY <3>2, <1>2, InsertedShape
    <3> QED BY <3>2, <3>3, <1>1
  <2> QED BY <2>1, <2>2
<1> QED BY <1>3, <1>4

\* A commit takes no row of another owner whose key it does not write.
LEMMA CommitNothingLost ==
    ASSUME NEW w, Pushers = {w}, SymbolsFromAst, TxInv(w), LastOK, Recorded, NothingLost, Commit(w)
    PROVE  NothingLost'
<1> DEFINE p == tx[w].push
           g == tx[w].gone
<1> SUFFICES ASSUME NEW o \in Owners, NEW r \in last'[o], r \notin db' PROVE Contested(Key(r))'
  BY DEF NothingLost, Contested, Key
<1>1. /\ tx[w] # Idle
      /\ db' = Upsert(db \ g, StoredRows(p)) \cup MemberRows(p)
      /\ last'[o] = IF o \in Named(p) THEN OwnedBy(o, StoredRows(p)) ELSE last[o]
      /\ wrote' = wrote \cup {<<Key(x), <<x.file, Ext(p)>> >> : x \in InsertedRows(p)}
  BY CommitStep
<1>2. p \in Pushes /\ InScope(p) /\ Open(w) BY <1>1, OpenShape DEF TxInv
<1>3. o \notin Named(p)
  <2> SUFFICES ASSUME o \in Named(p) PROVE FALSE OBVIOUS
  <2>1. r \in StoredRows(p) BY <1>1, OwnedShape
  <2> QED BY <2>1, <1>1 DEF Upsert
<1>4. r \in last[o] /\ r \in OwnedBy(o, last[o]) BY <1>1, <1>3 DEF LastOK
<1>5. r.table \in Owned /\ o = <<r.repo, r.file, r.ext>> /\ r.file \in Files /\ r.file # NoFile
  BY <1>4, OwnedShape
<1>6. CASE Contested(Key(r))
  <2>1. PICK x \in wrote, y \in wrote : x[1] = Key(r) /\ y[1] = Key(r) /\ x # y BY <1>6 DEF Contested
  <2>2. x \in wrote' /\ y \in wrote' BY <1>1
  <2> QED BY <2>1, <2>2 DEF Contested, Key
<1>7. CASE r \in db
  <2>1. r \notin g
    <3> SUFFICES ASSUME r \in g PROVE FALSE OBVIOUS
    <3>1. PICK f \in ToSet(p.files) : Mine(p, f, r) BY <1>2, <1>5 DEF TxInv, OnlyNamed
    <3> QED BY <3>1, <1>3, <1>5 DEF Mine, Named
  <2>2. PICK x \in StoredRows(p) : Key(x) = Key(r) BY <2>1, <1>1, <1>7 DEF Upsert
  <2>3. x \in InsertedRows(p) BY StoredInserted
  <2>4. x.table \in Tables BY <2>3, InsertedTable
  <2>5. x.table = r.table /\ x.repo = r.repo BY <2>2, <2>4, <1>5, KeyParts DEF Tables
  <2>6. <<x.file, Ext(p)>> # <<r.file, r.ext>>
    <3> SUFFICES ASSUME x.file = r.file, Ext(p) = r.ext PROVE FALSE OBVIOUS
    <3>1. x.ext = Ext(p) BY <2>3, <2>5, <1>2, <1>5, InsertedShape
    <3>2. o \in Named(p) BY <3>1, <2>3, <2>5, <1>2, <1>5, StoredIsNamed
    <3> QED BY <3>2, <1>3
  <2> DEFINE a == <<Key(r), <<r.file, r.ext>> >>
             b == <<Key(x), <<x.file, Ext(p)>> >>
  <2>7. a \in wrote' BY <1>1, <1>4 DEF Recorded
  <2>8. b \in wrote' BY <1>1, <2>3
  <2>9. a # b /\ a[1] = Key(r) /\ b[1] = Key(r) BY <2>2, <2>6
  <2> HIDE DEF a, b
  <2> QED BY <2>7, <2>8, <2>9 DEF Contested, Key
<1> QED BY <1>4, <1>6, <1>7 DEF NothingLost

\* A commit leaves no member without its hyperedge.
LEMMA CommitMembers ==
    ASSUME NEW w, Pushers = {w}, TxInv(w), MembersHaveHyperedge, Commit(w)
    PROVE  MembersHaveHyperedge'
<1> DEFINE p == tx[w].push
           g == tx[w].gone
<1> SUFFICES ASSUME NEW m \in db', m.table = "members"
             PROVE  \E h \in db' : h.table = "hyperedges" /\ h.repo = m.repo /\ h.id = m.id
  BY DEF MembersHaveHyperedge
<1>1. /\ tx[w] # Idle
      /\ db' = Upsert(db \ g, StoredRows(p)) \cup MemberRows(p)
  BY CommitStep
<1>2. p \in Pushes /\ InScope(p) /\ Open(w) BY <1>1, OpenShape DEF TxInv
<1>3. StoredRows(p) \subseteq db' BY <1>1 DEF Upsert
<1>4. CASE m \in MemberRows(p)
  <2>1. PICK i \in DOMAIN p.hyperedges : m.id = p.hyperedges[i].id /\ m.repo = p.repo BY <1>4, MemberShape
  <2>2. PICK h \in StoredRows(p) : h.table = "hyperedges" /\ h.repo = p.repo /\ h.id = p.hyperedges[i].id
    BY <1>2, HyperedgeStored
  <2> QED BY <2>1, <2>2, <1>3
<1>5. m \notin StoredRows(p) BY StoredInserted, InsertedTable
<1>6. CASE m \in db \ g
  <2>1. PICK h \in db : MemberOf(m, h) BY <1>6 DEF MembersHaveHyperedge, MemberOf
  <2>2. h \notin g BY <2>1, <1>2, <1>6 DEF TxInv, MembersGoFirst
  <2>3. h.table = "hyperedges" /\ h.repo = m.repo /\ h.id = m.id BY <2>1 DEF MemberOf
  <2>4. CASE \A x \in StoredRows(p) : Key(h) # Key(x)
    <3>1. h \in db' BY <2>2, <2>4, <1>1 DEF Upsert
    <3> QED BY <3>1, <2>3
  <2>5. CASE \E x \in StoredRows(p) : Key(h) = Key(x)
    <3>1. PICK x \in StoredRows(p) : Key(h) = Key(x) BY <2>5
    <3>2. x.table \in Tables BY StoredInserted, InsertedTable
    <3>3. x.table = "hyperedges" /\ x.repo = h.repo BY <3>1, <3>2, <2>3, KeyParts DEF Tables
    <3>4. x.id = h.id BY <3>1, <3>2, <3>3, <2>3, KeyParts
    <3> QED BY <3>3, <3>4, <2>3, <1>3
  <2> QED BY <2>4, <2>5
<1> QED BY <1>1, <1>4, <1>5, <1>6 DEF Upsert

-----------------------------------------------------------------------------
(* The theorems.                                                            *)

\* A transaction is followed from Begin to its end, whatever it pushes.
LEMMA TxInvInit ==
    ASSUME NEW w, Pushers = {w}, Init PROVE TxInv(w)
<1>1. tx[w] = Idle /\ DOMAIN tx = Pushers BY DEF Init
<1>2. ~ Open(w) BY <1>1 DEF Open, Idle
<1> QED BY <1>1, <1>2 DEF TxInv, TxOK, DeletesDone, MembersGoFirst, OnlyNamed

\* Every statement of a push keeps track of what it has deleted.
LEMMA TxInvStep ==
    ASSUME NEW w, Pushers = {w}, TxInv(w), [Next]_vars PROVE TxInv(w)'
<1>1. CASE \E p \in Pushes : Begin(w, p) BY <1>1, BeginTx
<1>2. CASE Delete(w) BY <1>2, DeleteTx
<1>3. CASE Commit(w) BY <1>3, EndTx, CommitStep
<1>4. CASE Abort(w) BY <1>4, EndTx DEF Abort
<1>5. CASE UNCHANGED vars
  BY <1>5 DEF vars, TxInv, TxOK, DeletesDone, MembersGoFirst, OnlyNamed, Open, Idle, Cleared, InScope
<1> QED BY <1>1, <1>2, <1>3, <1>4, <1>5 DEF Next, PushStep

\* So it does throughout.
LEMMA TxInvHolds ==
    ASSUME NEW CONSTANT w, Pushers = {w} PROVE Spec => []TxInv(w)
<1>1. Init => TxInv(w) BY TxInvInit
<1>2. TxInv(w) /\ [Next]_vars => TxInv(w)' BY TxInvStep
<1> QED BY <1>1, <1>2, PTL DEF Spec

\* Either the database was found as it is and stays, or pushes built it.
PushInv == Found \/ Built

\* At first nothing is stored, or what is stored is not pushed to.
LEMMA PushInvInit ==
    ASSUME NEW w, Pushers = {w}, Init PROVE PushInv
<1>1. CASE db = {}
  <2>1. \A o \in Owners : last[o] = {} /\ OwnedBy(o, db) = {} /\ OwnedBy(o, {}) = {}
    BY <1>1 DEF Init, OwnedBy
  <2>2. DOMAIN last = Owners BY DEF Init
  <2> QED BY <2>1, <2>2 DEF PushInv, Built, LastOK, Recorded, NothingStale, NothingLost
<1>2. CASE db # {} BY <1>2 DEF Init, PushInv, Found
<1> QED BY <1>1, <1>2

\* Begin, a DELETE and a rollback leave the rows and the history alone.
LEMMA QuietStep ==
    ASSUME Built, UNCHANGED <<db, last, wrote>> PROVE Built'
BY DEF Built, LastOK, Recorded, NothingStale, NothingLost, Contested, OwnedBy, Key, Owners

\* Every step keeps the invariant.
LEMMA PushInvStep ==
    ASSUME NEW w, Pushers = {w}, SymbolsFromAst, TxInv(w), PushInv, [Next]_vars PROVE PushInv'
<1>1. CASE Found
  <2>1. MaxPushes \in Nat BY StoreAssumption
  <2>2. tx[w] = Idle /\ ~ (pushes < MaxPushes) BY <1>1, <2>1 DEF Found
  <2>3. ~ Next BY <2>2 DEF Next, PushStep, Delete, Commit, Abort, Begin
  <2>4. UNCHANGED vars BY <2>3
  <2> QED BY <1>1, <2>4 DEF PushInv, Found, vars, OwnedBy, Owners
<1>2. CASE Built
  <2>1. CASE Commit(w)
    <3>1. NothingStale' BY <2>1, <1>2, CommitNothingStale DEF Built
    <3>2. LastOK' /\ Recorded' BY <2>1, <1>2, CommitRecorded DEF Built
    <3>3. NothingLost' BY <2>1, <1>2, CommitNothingLost DEF Built
    <3> QED BY <3>1, <3>2, <3>3 DEF PushInv, Built
  <2>2. CASE UNCHANGED <<db, last, wrote>> BY <2>2, <1>2, QuietStep DEF PushInv
  <2> QED BY <2>1, <2>2 DEF Next, PushStep, Begin, Delete, Abort, vars
<1> QED BY <1>1, <1>2 DEF PushInv

\* The invariant holds throughout.
LEMMA PushInvHolds ==
    ASSUME NEW CONSTANT w, Pushers = {w}, SymbolsFromAst PROVE Spec => []PushInv
<1>1. Init => PushInv BY PushInvInit
<1>2. TxInv(w) /\ PushInv /\ [Next]_vars => PushInv' BY PushInvStep
<1> QED BY <1>1, <1>2, TxInvHolds, PTL DEF Spec

\* With one push at a time, what an extractor has stored for a file is what
\* its last push that named the file stored: Reconcile leaves nothing stale,
\* whatever the pushes, how many files they name, and wherever they fail.
THEOREM NothingStaleHolds ==
    ASSUME NEW CONSTANT w, Pushers = {w}, SymbolsFromAst PROVE Spec => []NothingStale
<1>1. PushInv => NothingStale BY DEF PushInv, Found, Built, NothingStale
<1> QED BY <1>1, PushInvHolds, PTL

\* With one push at a time, what the last push of a file stored is still
\* there unless another owner wrote a row of the same key.
THEOREM NothingLostHolds ==
    ASSUME NEW CONSTANT w, Pushers = {w}, SymbolsFromAst PROVE Spec => []NothingLost
<1>1. PushInv => NothingLost
  <2>1. Found => NothingLost BY DEF Found, NothingLost, OwnedBy
  <2> QED BY <2>1 DEF PushInv, Built
<1> QED BY <1>1, PushInvHolds, PTL

\* With one push at a time no member row outlives its hyperedge: the DELETE
\* of the members comes before the one of the hyperedges it selects them by,
\* also for a file named twice or a push that is rolled back.
THEOREM MembersHaveHyperedgeHolds ==
    ASSUME NEW CONSTANT w, Pushers = {w} PROVE Spec => []MembersHaveHyperedge
<1>1. Init => MembersHaveHyperedge
  BY StoreAssumption DEF Init, MembersHaveHyperedge
<1>2. TxInv(w) /\ MembersHaveHyperedge /\ [Next]_vars => MembersHaveHyperedge'
  <2> SUFFICES ASSUME TxInv(w), MembersHaveHyperedge, [Next]_vars PROVE MembersHaveHyperedge'
    OBVIOUS
  <2>1. CASE UNCHANGED db BY <2>1 DEF MembersHaveHyperedge
  <2>2. CASE Commit(w) BY <2>2, CommitMembers
  <2> QED BY <2>1, <2>2 DEF Next, PushStep, Begin, Delete, Abort, vars
<1> QED BY <1>1, <1>2, TxInvHolds, PTL DEF Spec
-----------------------------------------------------------------------------
(* What every read may rely on, with any number of pushes at a time: the    *)
(* tables are finite, the score of an edge is a number and its ends are     *)
(* ids.                                                                     *)

EdgeOK(e) == e.score \in Int /\ e.from \in Ids /\ e.to \in Ids

RowsOK == IsFiniteSet(db) /\ \A e \in db : e.table = "edges" => EdgeOK(e)

PushOK == DOMAIN tx = Pushers /\ \A w \in Pushers : tx[w] = Idle \/ tx[w].push \in Pushes

\* The values of a function with a finite domain are finitely many.
LEMMA ImageFinite ==
    ASSUME NEW D, IsFiniteSet(D), NEW f, f = [x \in D |-> f[x]]
    PROVE  IsFiniteSet({f[x] : x \in D})
<1> DEFINE T == {f[x] : x \in D}
<1>1. f \in Surjection(D, T) BY DEF Surjection
<1> HIDE DEF T
<1>2. IsFiniteSet(T) BY <1>1, FS_Surjection
<1> QED BY <1>2 DEF T

\* A batch is a function on the positions of a list of the push.
LEMMA BatchFinite ==
    ASSUME NEW p \in Pushes, NEW s \in Batches(p)
    PROVE  IsFiniteSet(DOMAIN s) /\ s = [i \in DOMAIN s |-> s[i]]
<1>1. ASSUME NEW l, l \in Seq(ToSet(l)) PROVE IsFiniteSet(DOMAIN l)
  <2>1. Len(l) \in Nat /\ DOMAIN l = 1..Len(l) BY <1>1
  <2> QED BY <2>1, FS_Interval
<1>2. /\ IsFiniteSet(DOMAIN p.entities) /\ IsFiniteSet(DOMAIN p.edges)
      /\ IsFiniteSet(DOMAIN p.symbols) /\ IsFiniteSet(DOMAIN p.hyperedges)
  BY <1>1, StoreAssumption
<1> QED BY <1>2 DEF Batches

\* A push stores finitely many rows.
LEMMA StoredFinite ==
    ASSUME NEW p \in Pushes
    PROVE  IsFiniteSet(StoredRows(p)) /\ IsFiniteSet(MemberRows(p))
<1>1. ASSUME NEW s \in Batches(p) PROVE IsFiniteSet(Latest(s))
  <2>1. IsFiniteSet(DOMAIN s) /\ s = [i \in DOMAIN s |-> s[i]] BY BatchFinite
  <2>2. IsFiniteSet({s[i] : i \in DOMAIN s}) BY <2>1, ImageFinite
  <2>3. Latest(s) \subseteq {s[i] : i \in DOMAIN s} BY DEF Latest
  <2> QED BY <2>2, <2>3, FS_Subset
<1>2. IsFiniteSet(UNION {Latest(s) : s \in Batches(p)})
  <2> DEFINE a == [i \in DOMAIN p.entities   |-> EntityRow(p, p.entities[i])]
             b == [i \in DOMAIN p.edges      |-> EdgeRow(p, p.edges[i])]
             c == [i \in DOMAIN p.symbols    |-> SymbolRow(p, p.symbols[i])]
             d == [i \in DOMAIN p.hyperedges |-> HyperedgeRow(p, p.hyperedges[i])]
  <2>1. Batches(p) = {a, b, c, d} BY DEF Batches
  <2> HIDE DEF a, b, c, d
  <2>2. UNION {Latest(s) : s \in Batches(p)} = Latest(a) \cup Latest(b) \cup Latest(c) \cup Latest(d)
    BY <2>1
  <2>3. IsFiniteSet(Latest(a)) /\ IsFiniteSet(Latest(b)) /\ IsFiniteSet(Latest(c)) /\ IsFiniteSet(Latest(d))
    BY <1>1, <2>1
  <2>4. IsFiniteSet(Latest(a) \cup Latest(b)) BY <2>3, FS_Union
  <2>5. IsFiniteSet(Latest(a) \cup Latest(b) \cup Latest(c)) BY <2>3, <2>4, FS_Union
  <2>6. IsFiniteSet(Latest(a) \cup Latest(b) \cup Latest(c) \cup Latest(d)) BY <2>3, <2>5, FS_Union
  <2> QED BY <2>2, <2>6
<1>3. IsFiniteSet(CacheRows(p))
  <2> DEFINE g == [f \in DOMAIN p.shas |-> CacheRow(p, f)]
  <2>1. IsFiniteSet(DOMAIN p.shas) BY StoreAssumption
  <2>2. CacheRows(p) = {g[f] : f \in DOMAIN p.shas} BY DEF CacheRows
  <2>3. g = [f \in DOMAIN p.shas |-> g[f]] OBVIOUS
  <2> HIDE DEF g
  <2> QED BY <2>1, <2>2, <2>3, ImageFinite
<1>4. IsFiniteSet(MemberRows(p))
  <2> DEFINE D == DOMAIN p.hyperedges
             M(i) == {MemberRow(p, p.hyperedges[i], m) : m \in p.hyperedges[i].members}
             g == [i \in D |-> M(i)]
  <2>1. IsFiniteSet(D)
    <3>1. p.hyperedges \in Seq(ToSet(p.hyperedges)) BY StoreAssumption
    <3>2. Len(p.hyperedges) \in Nat /\ D = 1..Len(p.hyperedges) BY <3>1
    <3> QED BY <3>2, FS_Interval
  <2>2. ASSUME NEW i \in D PROVE IsFiniteSet(M(i))
    <3> DEFINE S == p.hyperedges[i].members
               h == [m \in S |-> MemberRow(p, p.hyperedges[i], m)]
    <3>1. p.hyperedges[i] \in ToSet(p.hyperedges) BY DEF ToSet
    <3>2. IsFiniteSet(S) BY <3>1, StoreAssumption
    <3>3. M(i) = {h[m] : m \in S} OBVIOUS
    <3>4. h = [m \in S |-> h[m]] OBVIOUS
    <3> HIDE DEF h, S
    <3>5. IsFiniteSet({h[m] : m \in S}) BY <3>2, <3>4, ImageFinite
    <3> QED BY <3>3, <3>5
  <2>3. MemberRows(p) = UNION {g[i] : i \in D} BY DEF MemberRows
  <2>4. g = [i \in D |-> g[i]] /\ \A i \in D : IsFiniteSet(g[i]) BY <2>2
  <2> HIDE DEF g, D
  <2>5. IsFiniteSet({g[i] : i \in D}) BY <2>1, <2>4, ImageFinite
  <2> QED BY <2>3, <2>4, <2>5, FS_UNION
<1> QED BY <1>2, <1>3, <1>4, FS_Union DEF StoredRows

\* An edge row has a number for its score and ids for its ends.
LEMMA StoredEdges ==
    ASSUME NEW p \in Pushes, NEW e \in StoredRows(p) \cup MemberRows(p), e.table = "edges"
    PROVE  EdgeOK(e)
<1>1. e \notin CacheRows(p) BY DEF CacheRows, CacheRow
<1>2. e \notin MemberRows(p) BY DEF MemberRows, MemberRow
<1>3. PICK s \in Batches(p) : e \in Latest(s) BY <1>1, <1>2 DEF StoredRows
<1>4. PICK i \in DOMAIN s : e = s[i] BY <1>3 DEF Latest
<1>5. s = [k \in DOMAIN p.edges |-> EdgeRow(p, p.edges[k])]
  <2>1. s # [k \in DOMAIN p.entities |-> EntityRow(p, p.entities[k])] BY <1>4 DEF EntityRow
  <2>2. s # [k \in DOMAIN p.symbols |-> SymbolRow(p, p.symbols[k])] BY <1>4 DEF SymbolRow
  <2>3. s # [k \in DOMAIN p.hyperedges |-> HyperedgeRow(p, p.hyperedges[k])] BY <1>4 DEF HyperedgeRow
  <2> QED BY <2>1, <2>2, <2>3 DEF Batches
<1>6. p.edges[i] \in ToSet(p.edges) BY <1>4, <1>5 DEF ToSet
<1>7. AsReal[p.edges[i].score] \in Int /\ AsReal[one] \in Int BY <1>6, StoreAssumption
<1>8. p.edges[i].from \in Ids /\ p.edges[i].to \in Ids BY <1>6, ReadAssumption
<1>9. e.score = AsReal[one] \/ e.score = AsReal[p.edges[i].score] BY <1>4, <1>5 DEF EdgeRow
<1>10. e.from = p.edges[i].from /\ e.to = p.edges[i].to BY <1>4, <1>5 DEF EdgeRow
<1> QED BY <1>7, <1>8, <1>9, <1>10 DEF EdgeOK

\* Every step keeps the tables so.
LEMMA RowsStep ==
    ASSUME PushOK, RowsOK, [Next]_vars PROVE PushOK' /\ RowsOK'
<1>1. ASSUME NEW w \in Pushers, Commit(w) PROVE RowsOK'
  <2> DEFINE p == tx[w].push
             kept == {x \in db \ tx[w].gone : \A r \in StoredRows(p) : Key(x) # Key(r)}
  <2>1. p \in Pushes BY <1>1 DEF PushOK, Commit
  <2>2. db' = (kept \cup StoredRows(p)) \cup MemberRows(p) BY <1>1 DEF Commit, Upsert
  <2>3. kept \subseteq db OBVIOUS
  <2> HIDE DEF p, kept
  <2>4. IsFiniteSet(kept) BY <2>3, FS_Subset DEF RowsOK
  <2>5. IsFiniteSet(StoredRows(p)) /\ IsFiniteSet(MemberRows(p)) BY <2>1, StoredFinite
  <2>6. IsFiniteSet(kept \cup StoredRows(p)) BY <2>4, <2>5, FS_Union
  <2>7. IsFiniteSet(db') BY <2>2, <2>5, <2>6, FS_Union
  <2>8. ASSUME NEW e \in db', e.table = "edges" PROVE EdgeOK(e)
    BY <2>1, <2>2, <2>3, <2>8, StoredEdges DEF RowsOK
  <2> QED BY <2>7, <2>8 DEF RowsOK
<1>2. ASSUME UNCHANGED db PROVE RowsOK' BY <1>2 DEF RowsOK
<1>3. PushOK'
  <2>1. CASE UNCHANGED tx BY <2>1 DEF PushOK
  <2>2. ASSUME NEW w \in Pushers, Delete(w) PROVE PushOK' BY <2>2 DEF PushOK, Delete
  <2>3. ASSUME NEW w \in Pushers, Commit(w) \/ Abort(w) PROVE PushOK' BY <2>3 DEF PushOK, Commit, Abort
  <2>4. ASSUME NEW w \in Pushers, NEW p \in Pushes, Begin(w, p) PROVE PushOK' BY <2>4 DEF PushOK, Begin
  <2> QED BY <2>1, <2>2, <2>3, <2>4 DEF Next, PushStep, vars
<1> QED BY <1>1, <1>2, <1>3 DEF Next, PushStep, Begin, Delete, Abort, vars

\* The tables are so throughout.
LEMMA RowsHold == Spec => []RowsOK
<1>1. Init => PushOK /\ RowsOK BY StoreAssumption, ReadAssumption DEF Init, PushOK, RowsOK, EdgeOK
<1>2. PushOK /\ RowsOK /\ [Next]_vars => PushOK' /\ RowsOK' BY RowsStep
<1> QED BY <1>1, <1>2, PTL DEF Spec
-----------------------------------------------------------------------------
(* The walk of Neighbors.                                                   *)

\* A nonempty set of numbers has a least one.
LEMMA LeastNat ==
    ASSUME NEW T, T \subseteq Nat, T # {}
    PROVE  \E x \in T : \A y \in T : x <= y
<1> DEFINE R == OpToRel(<, Nat)
<1>1. IsWellFoundedOn(R, Nat) BY NatLessThanWellFounded
<1>2. \A y, x \in Nat : y < x => <<y, x>> \in R BY DEF OpToRel
<1> HIDE DEF R
<1>3. PICK x \in T : \A y \in T : ~ (<<y, x>> \in R) BY <1>1, WFMin
<1>4. ASSUME NEW y \in T PROVE x <= y
  <2>1. x \in Nat /\ y \in Nat OBVIOUS
  <2>2. ~ (y < x) BY <1>2, <1>3, <2>1
  <2> QED BY <2>1, <2>2
<1> QED BY <1>4

\* f starts with z, and each value follows from the one before by G.
Iterates(f, S, z, G, d) == f \in [0..d -> S] /\ f[0] = z /\ \A n \in 1..d : f[n] = G[f[n - 1]]

\* A function of the numbers up to d may be defined by its first value and by
\* each value from the one before.
LEMMA RecursionExists ==
    ASSUME NEW S, NEW z \in S, NEW G \in [S -> S], NEW d \in Nat
    PROVE  \E f : Iterates(f, S, z, G, d)
<1> DEFINE Is(k, f) == f \in [0..k -> S] /\ f[0] = z /\ \A n \in 1..k : f[n] = G[f[n - 1]]
           T == {k \in Nat : ~ \E f : Is(k, f)}
<1>1. T = {}
  <2> SUFFICES ASSUME T # {} PROVE FALSE OBVIOUS
  <2>1. PICK k \in T : \A j \in T : k <= j
    <3>1. T \subseteq Nat OBVIOUS
    <3> HIDE DEF T
    <3> QED BY <3>1, LeastNat
  <2>2. k \in Nat OBVIOUS
  <2>3. CASE k = 0
    <3>1. Is(k, [n \in 0..k |-> z]) BY <2>3
    <3> QED BY <3>1
  <2>4. CASE k # 0
    <3>1. k - 1 \in Nat /\ k - 1 \notin T
      <4>1. k - 1 \in Nat /\ ~ (k <= k - 1) BY <2>2, <2>4
      <4> HIDE DEF T
      <4> QED BY <4>1, <2>1
    <3>2. PICK f : Is(k - 1, f) BY <3>1
    <3> DEFINE g == [n \in 0..k |-> IF n = k THEN G[f[k - 1]] ELSE f[n]]
    <3>3. \A n \in 0..k : n # k => n \in 0..(k - 1) BY <2>2
    <3>4. f[k - 1] \in S BY <3>1, <3>2
    <3>5. g \in [0..k -> S] BY <3>2, <3>3, <3>4
    <3>6. \A n \in 0..(k - 1) : n \in 0..k /\ n # k /\ g[n] = f[n] BY <2>2
    <3>7. g[k] = G[f[k - 1]] BY <2>2
    <3> HIDE DEF g
    <3>8. g[0] = z BY <3>1, <3>2, <3>6
    <3>9. ASSUME NEW n \in 1..k PROVE g[n] = G[g[n - 1]]
      <4>1. n - 1 \in 0..(k - 1) /\ g[n - 1] = f[n - 1] BY <2>2, <3>6
      <4>2. CASE n = k BY <4>1, <4>2, <3>7
      <4>3. CASE n # k
        <5>1. n \in 1..(k - 1) /\ n \in 0..(k - 1) BY <4>3, <2>2
        <5> QED BY <5>1, <4>1, <3>2, <3>6
      <4> QED BY <4>2, <4>3
    <3>10. Is(k, g) BY <3>5, <3>8, <3>9
    <3> QED BY <3>10
  <2> QED BY <2>3, <2>4
<1>2. PICK f : Is(d, f) BY <1>1
<1> QED BY <1>2 DEF Iterates

Ends(E) == \A e \in E : e.from \in Ids /\ e.to \in Ids

\* The recursive query computes what it says, for every depth: each round
\* has the other ends of the edges at the round before.
LEMMA WalkUnfold ==
    ASSUME NEW E, Ends(E), NEW dir, NEW id \in Ids, NEW d \in Nat
    PROVE  /\ Walk(E, dir, id, d)[0] = {id}
           /\ \A n \in 1..d : Walk(E, dir, id, d)[n] = Step(E, dir, Walk(E, dir, id, d)[n - 1])
<1> DEFINE Is(f) == f = [n \in 0..d |-> IF n = 0 THEN {id} ELSE Step(E, dir, f[n - 1])]
           G == [X \in SUBSET Ids |-> Step(E, dir, X)]
           w == Walk(E, dir, id, d)
           S == SUBSET Ids
<1>1. G \in [S -> S] BY DEF Step, Ends
<1>2. \E f : Is(f)
  <2>1. {id} \in S OBVIOUS
  <2>2. PICK f \in [0..d -> S] : f[0] = {id} /\ \A n \in 1..d : f[n] = G[f[n - 1]]
    <3> DEFINE z == {id}
    <3>1. z \in S BY <2>1
    <3> HIDE DEF G, S, z
    <3>2. \E f : Iterates(f, S, z, G, d) BY <1>1, <3>1, RecursionExists
    <3> QED BY <3>2 DEF z, Iterates
  <2>3. ASSUME NEW n \in 0..d PROVE f[n] = IF n = 0 THEN {id} ELSE Step(E, dir, f[n - 1])
    <3>1. CASE n = 0 BY <3>1, <2>2
    <3>2. CASE n # 0
      <4>1. n \in 1..d /\ n - 1 \in 0..d BY <3>2
      <4>2. f[n - 1] \in SUBSET Ids BY <4>1
      <4> QED BY <3>2, <4>1, <4>2, <2>2
    <3> QED BY <3>1, <3>2
  <2>4. Is(f) BY <2>3
  <2> QED BY <2>4
<1>3. w = CHOOSE f : Is(f) BY DEF Walk
<1> HIDE DEF w
<1>4. Is(w)
  <2> HIDE DEF Is
  <2> QED BY <1>2, <1>3, Zenon
<1>5. ASSUME NEW n \in 0..d PROVE w[n] = IF n = 0 THEN {id} ELSE Step(E, dir, w[n - 1])
  BY <1>4
<1> HIDE DEF Is
<1>6. w[0] = {id} BY <1>5
<1>7. ASSUME NEW n \in 1..d PROVE w[n] = Step(E, dir, w[n - 1])
  <2>1. n \in 0..d /\ n # 0 OBVIOUS
  <2> QED BY <2>1, <1>5
<1> QED BY <1>6, <1>7 DEF w

-----------------------------------------------------------------------------
(* Queries that describe the same rows.                                     *)

\* A depth of one is kept.
LEMMA ClampOne == clampDepth(1) = 1
<1>1. defaultDepth \in Nat \ {0} /\ maxDepth \in Nat /\ defaultDepth <= maxDepth BY ReadAssumption
<1>2. ~ (1 > maxDepth) BY <1>1
<1> QED BY <1>2 DEF clampDepth, Clamped

\* A limit is clamped to a number above 0.
LEMMA ClampedLimit ==
    ASSUME NEW limit \in Limits
    PROVE  /\ clampNeighborLimit(limit) \in Nat \ {0} /\ clampImportantLimit(limit) \in Nat \ {0}
           /\ clampAmbiguousLimit(limit) \in Nat \ {0} /\ clampListLimit(limit) \in Nat \ {0}
<1>1. limit \in Nat BY ReadAssumption
<1> QED BY <1>1, ReadAssumption
        DEF clampNeighborLimit, clampImportantLimit, clampAmbiguousLimit, clampListLimit, Clamped

\* A LIMIT leaves a part of the rows, and all of them unless it is reached.
LEMMA CutPart ==
    ASSUME NEW rows, NEW limit \in Nat, NEW answer \in Cut(rows, limit)
    PROVE  answer \subseteq rows /\ (answer = rows \/ Cardinality(answer) = limit)
BY DEF Cut

\* So it is, by the first components too.
LEMMA CutPartOf ==
    ASSUME NEW rows, NEW limit \in Nat, NEW answer \in Cut(rows, limit)
    PROVE  /\ PartOf(answer, rows, answer, limit)
           /\ PartOf({x[1] : x \in answer}, {x[1] : x \in rows}, answer, limit)
BY CutPart DEF PartOf

\* Of two limited lists, one of everything and one of a part of it, each has
\* what the other has unless its own limit is reached.
LEMMA CutLists ==
    ASSUME NEW every, NEW mine, mine \subseteq every, NEW limit \in Nat,
           NEW all \in Cut(every, limit), NEW answer \in Cut(mine, limit)
    PROVE  /\ Cardinality(answer) < limit => all \cap mine \subseteq answer
           /\ Cardinality(all) < limit => answer \subseteq all \cap mine
<1>1. answer \subseteq mine /\ (answer = mine \/ Cardinality(answer) = limit) BY CutPart
<1>2. all \subseteq every /\ (all = every \/ Cardinality(all) = limit) BY CutPart
<1> QED BY <1>1, <1>2

\* The neighbours at depth one are the stored ends of the edges at the id.
LEMMA OneStep ==
    ASSUME RowsOK, NEW repo, NEW id \in Ids
    PROVE  /\ {x[1] : x \in NeighborRows(repo, id, {}, "out", 1, 0, "")} = ExplainOut(repo, id)
           /\ {x[1] : x \in NeighborRows(repo, id, {}, "in", 1, 0, "")} = ExplainIn(repo, id)
<1> DEFINE E == Rows("edges", repo)
<1>0. Ends(E) BY DEF RowsOK, EdgeOK, Ends, Rows
<1>1. Followed(repo, {}, 0, "") = E BY DEF Followed
<1>2. ASSUME NEW dir
      PROVE  {x[1] : x \in NeighborRows(repo, id, {}, dir, 1, 0, "")} = Step(E, dir, {id}) \cap Stored(repo)
  <2> DEFINE w == Walk(E, dir, id, 1)
             R == (w[1] \cap Stored(repo)) \X {1}
  <2>1. w[1] = Step(E, dir, {id})
    <3> HIDE DEF E
    <3>1. w[0] = {id} /\ \A n \in 1..1 : w[n] = Step(E, dir, w[n - 1]) 
      <4>1. 1 \in Nat OBVIOUS
      <4> QED BY <1>0, <4>1, WalkUnfold DEF Ends
    <3> QED BY <3>1
  <2>2. NeighborRows(repo, id, {}, dir, 1, 0, "") =
          DistinctOn(UNION {(w[n] \cap Stored(repo)) \X {n} : n \in 1..1})
    BY <1>1, ClampOne DEF NeighborRows
  <2> HIDE DEF w
  <2>3. UNION {(w[n] \cap Stored(repo)) \X {n} : n \in 1..1} = R
    <3>1. 1..1 = {1} OBVIOUS
    <3> QED BY <3>1
  <2>4. DistinctOn(R) = R BY DEF DistinctOn
  <2>5. {x[1] : x \in R} = w[1] \cap Stored(repo)
    <3>1. ASSUME NEW x \in R PROVE x[1] \in w[1] \cap Stored(repo) OBVIOUS
    <3>2. ASSUME NEW y \in w[1] \cap Stored(repo) PROVE <<y, 1>> \in R /\ <<y, 1>>[1] = y OBVIOUS
    <3> HIDE DEF R
    <3> QED BY <3>1, <3>2
  <2> QED BY <2>1, <2>2, <2>3, <2>4, <2>5
<1>3. Step(E, "out", {id}) \cap Stored(repo) = ExplainOut(repo, id) BY DEF Step, ExplainOut, OutEdges
<1>4. Step(E, "in", {id}) \cap Stored(repo) = ExplainIn(repo, id) BY DEF Step, ExplainIn, InEdges
<1> QED BY <1>2, <1>3, <1>4

\* Whose degree is zero has no neighbour but itself.
LEMMA DegreeZero ==
    ASSUME RowsOK, NEW repo, NEW id, Degree(repo, id) = 0
    PROVE  ExplainOut(repo, id) \cup ExplainIn(repo, id) \subseteq {id}
<1> DEFINE O == {e \in OutEdges(repo, id) : e.to # id}
           I == {e \in InEdges(repo, id) : e.from # id}
<1>1. O \subseteq db /\ I \subseteq db BY DEF OutEdges, InEdges, Rows
<1>2. Degree(repo, id) = Cardinality(O) + Cardinality(I) BY DEF Degree
<1>3. \A e \in OutEdges(repo, id) : e \in O \/ e.to = id OBVIOUS
<1>4. \A e \in InEdges(repo, id) : e \in I \/ e.from = id OBVIOUS
<1> HIDE DEF O, I
<1>5. IsFiniteSet(O) /\ IsFiniteSet(I) BY <1>1, FS_Subset DEF RowsOK
<1>6. Cardinality(O) \in Nat /\ Cardinality(I) \in Nat BY <1>5, FS_CardinalityType
<1>7. Cardinality(O) = 0 /\ Cardinality(I) = 0 BY <1>2, <1>6
<1>8. O = {} /\ I = {} BY <1>5, <1>7, FS_EmptySet
<1> QED BY <1>3, <1>4, <1>8 DEF ExplainOut, ExplainIn

\* A link from one side is a link from the other: role r of the entity's
\* symbols is matched by role q.
LEMMA LinksMutual ==
    ASSUME NEW repo, NEW id, NEW r, NEW q, NEW link \in Links(repo, SymbolsOf(repo, id, r), q)
    PROVE  <<repo, id, link[3]>> \in Links(link[1], SymbolsOf(link[1], link[2], q), r)
<1>1. PICK x \in db : /\ x.table = "symbols" /\ x.repo # repo /\ x.role = q
                      /\ x.symbol \in SymbolsOf(repo, id, r)
                      /\ link = <<x.repo, x.id, x.symbol>>
  BY DEF Links
<1>2. link[1] = x.repo /\ link[2] = x.id /\ link[3] = x.symbol BY <1>1
<1>3. PICK y \in db : y.table = "symbols" /\ y.repo = repo /\ y.id = id /\ y.role = r /\ y.symbol = x.symbol
  BY <1>1 DEF SymbolsOf, Rows
<1>4. x.symbol \in SymbolsOf(link[1], link[2], q) BY <1>1, <1>2 DEF SymbolsOf, Rows
<1>5. y \in {z \in db : z.table = "symbols" /\ z.repo # link[1] /\ z.role = r
                          /\ z.symbol \in SymbolsOf(link[1], link[2], q)}
  BY <1>1, <1>2, <1>3, <1>4
<1>6. <<repo, id, link[3]>> = <<y.repo, y.id, y.symbol>> BY <1>2, <1>3
<1> QED BY <1>5, <1>6 DEF Links

\* A limited answer of Neighbors at depth one, by its first components.
LEMMA OneStepPart ==
    ASSUME RowsOK, NEW repo, NEW id \in Ids, NEW limit \in Limits, NEW dir, NEW all,
           all = {x[1] : x \in NeighborRows(repo, id, {}, dir, 1, 0, "")},
           NEW answer \in Neighbors(repo, id, {}, dir, 1, limit, 0, "")
    PROVE  PartOf({x[1] : x \in answer}, all, answer, clampNeighborLimit(limit))
<1> DEFINE rows == NeighborRows(repo, id, {}, dir, 1, 0, "")
           l == clampNeighborLimit(limit)
<1>1. l \in Nat BY ClampedLimit
<1>2. answer \in Cut(rows, l) BY DEF Neighbors
<1> HIDE DEF rows, l
<1>3. PartOf({x[1] : x \in answer}, {x[1] : x \in rows}, answer, l) BY <1>1, <1>2, CutPartOf, Zenon
<1> QED BY <1>3 DEF rows, l

\* The two lists of hyperedges, as far as their limits allow.
LEMMA HyperedgesAgree ==
    ASSUME NEW repo, NEW id, id # "", NEW limit \in Limits,
           NEW answer \in Hyperedges(repo, id, limit), NEW all \in Hyperedges(repo, "", limit)
    PROVE  LET listed == {h \in all : id \in hyperedgeMembers(repo, h)} IN
           /\ Cardinality(answer) < clampImportantLimit(limit) => listed \subseteq answer
           /\ Cardinality(all) < clampImportantLimit(limit) => answer \subseteq listed
<1> DEFINE mine == HyperedgeIds(repo, id)
           every == HyperedgeIds(repo, "")
           l == clampImportantLimit(limit)
<1>1. l \in Nat BY ClampedLimit
<1>2. answer \in Cut(mine, l) /\ all \in Cut(every, l) BY DEF Hyperedges
<1>3. mine = {h \in every : id \in hyperedgeMembers(repo, h)} BY Zenon DEF HyperedgeIds
<1> HIDE DEF mine, every, l
<1>4. /\ Cardinality(answer) < l => all \cap mine \subseteq answer
      /\ Cardinality(all) < l => answer \subseteq all \cap mine
  <2>1. mine \subseteq every BY <1>3, Zenon
  <2> QED BY <1>1, <1>2, <2>1, CutLists, Zenon
<1>5. all \subseteq every BY <1>1, <1>2, CutPart, Zenon
<1>6. {h \in all : id \in hyperedgeMembers(repo, h)} = all \cap mine BY <1>3, <1>5, Zenon
<1>7. /\ Cardinality(answer) < l => {h \in all : id \in hyperedgeMembers(repo, h)} \subseteq answer
      /\ Cardinality(all) < l => answer \subseteq {h \in all : id \in hyperedgeMembers(repo, h)}
  BY <1>4, <1>6, Zenon
<1> QED BY <1>7, Zenon DEF l

\* A link is found from the other side, unless the limit there is reached.
LEMMA LinkBack ==
    ASSUME NEW repo, NEW id, NEW r, NEW q, NEW l \in Nat,
           NEW answer \in Cut(Links(repo, SymbolsOf(repo, id, r), q), l), NEW link \in answer,
           NEW back \in Cut(Links(link[1], SymbolsOf(link[1], link[2], q), r), l)
    PROVE  <<repo, id, link[3]>> \in back \/ Cardinality(back) = l
<1> DEFINE L == Links(repo, SymbolsOf(repo, id, r), q)
           B == Links(link[1], SymbolsOf(link[1], link[2], q), r)
<1>0. answer \in Cut(L, l) /\ back \in Cut(B, l) OBVIOUS
<1>1. \A x \in L : <<repo, id, x[3]>> \in Links(x[1], SymbolsOf(x[1], x[2], q), r) BY LinksMutual
<1>2. link \in L => <<repo, id, link[3]>> \in B BY <1>1
<1> HIDE DEF L, B
<1>3. answer \subseteq L BY <1>0, CutPart
<1>4. back = B \/ Cardinality(back) = l BY <1>0, CutPart
<1> QED BY <1>2, <1>3, <1>4

\* With any number of pushes at a time, whatever they store and whatever limits
\* are asked for: queries that describe the same rows in different SQL do not
\* contradict each other.
THEOREM ViewsAgreeHolds == Spec => []ViewsAgree
<1>1. ASSUME RowsOK, NEW repo \in Repos, NEW id \in Ids \ {""}, NEW limit \in Limits
      PROVE  /\ \A answer \in Neighbors(repo, id, {}, "out", 1, limit, 0, "") :
                  PartOf({x[1] : x \in answer}, ExplainOut(repo, id), answer, clampNeighborLimit(limit))
             /\ \A answer \in Neighbors(repo, id, {}, "in", 1, limit, 0, "") :
                  PartOf({x[1] : x \in answer}, ExplainIn(repo, id), answer, clampNeighborLimit(limit))
  <2>1. id \in Ids OBVIOUS
  <2>2. /\ ExplainOut(repo, id) = {x[1] : x \in NeighborRows(repo, id, {}, "out", 1, 0, "")}
        /\ ExplainIn(repo, id) = {x[1] : x \in NeighborRows(repo, id, {}, "in", 1, 0, "")}
    BY <1>1, <2>1, OneStep
  <2> QED BY <1>1, <2>1, <2>2, OneStepPart
<1>2. ASSUME NEW repo, NEW id, NEW limit \in Limits, NEW answer \in Related(repo, id, {}, 0, limit)
      PROVE  {e.to : e \in answer} \subseteq ExplainOut(repo, id)
  <2> DEFINE all == {e \in OutEdges(repo, id) : e.to \in Stored(repo)}
             rows == {x \in OutEdges(repo, id) :
                        /\ x.ext = "semantic" /\ x.relation \in semanticRelations
                        /\ x.score >= AsReal[0] /\ x.to \in Stored(repo)}
             l == clampImportantLimit(limit)
  <2>1. answer \in Cut(rows, l) BY DEF Related
  <2>2. l \in Nat BY ClampedLimit
  <2>3. rows \subseteq all OBVIOUS
  <2>4. \A e \in all : e.to \in ExplainOut(repo, id) BY DEF ExplainOut
  <2> HIDE DEF rows, all, l
  <2>5. answer \subseteq rows BY <2>1, <2>2, CutPart
  <2> QED BY <2>3, <2>4, <2>5
<1>3. ASSUME NEW repo, NEW id, id \in Isolated(repo) PROVE ExplainOut(repo, id) \cup ExplainIn(repo, id) = {}
  BY <1>3 DEF Isolated, ExplainOut, ExplainIn, OutEdges, InEdges
<1>4. ASSUME NEW repo, NEW id, NEW limit \in Limits
      PROVE  /\ \A answer \in Consumers(repo, id, limit) : \A link \in answer :
                  \A back \in Providers(link[1], link[2], limit) :
                     <<repo, id, link[3]>> \in back \/ Cardinality(back) = clampListLimit(limit)
             /\ \A answer \in Providers(repo, id, limit) : \A link \in answer :
                  \A back \in Consumers(link[1], link[2], limit) :
                     <<repo, id, link[3]>> \in back \/ Cardinality(back) = clampListLimit(limit)
  <2>1. clampListLimit(limit) \in Nat BY ClampedLimit
  <2> QED BY <2>1, LinkBack DEF Consumers, Providers
<1>5. ASSUME NEW repo, NEW id \in Ids \ {""}, NEW limit \in Limits
      PROVE  \A answer \in Hyperedges(repo, id, limit), all \in Hyperedges(repo, "", limit) :
                LET listed == {h \in all : id \in hyperedgeMembers(repo, h)} IN
                /\ Cardinality(answer) < clampImportantLimit(limit) => listed \subseteq answer
                /\ Cardinality(all) < clampImportantLimit(limit) => answer \subseteq listed
  <2>1. id # "" OBVIOUS
  <2> QED BY <2>1, HyperedgesAgree
<1>6. ASSUME RowsOK, NEW repo \in Repos, NEW id \in Ids \ {""}, NEW limit \in Limits
      PROVE  LimitedViewsAgree(repo, id, limit)
  BY <1>1, <1>2, <1>4, <1>5, <1>6, Zenon DEF LimitedViewsAgree
<1>7. RowsOK => ViewsAgree BY <1>3, <1>6, DegreeZero, Zenon DEF ViewsAgree
<1> QED BY <1>7, RowsHold, PTL

\* With any number of pushes at a time: an AMBIGUOUS edge is listed unless the
\* list is full of edges that are at least as doubtful, and an edge that is
\* listed though its tier says otherwise differs from the threshold by less
\* than the column keeps.
THEOREM AmbiguousListedHolds == Spec => []AmbiguousListed
<1>1. ASSUME NEW repo, NEW limit \in Limits, NEW answer \in AmbiguousEdges(repo, limit),
             NEW e \in Rows("edges", repo), TierFollows(e)
      PROVE  IF e \in answer
             THEN e.tier = "AMBIGUOUS" \/ (e.tier = "INFERRED" /\ e.score = AsReal[ambiguousScoreThreshold])
             ELSE e.tier = "AMBIGUOUS" => /\ Cardinality(answer) = clampAmbiguousLimit(limit)
                                          /\ \A f \in answer : f.score <= e.score
  <2> DEFINE t == ambiguousScoreThreshold
             rows == {x \in Rows("edges", repo) : x.tier = "AMBIGUOUS" \/ x.score <= AsReal[t]}
             l == clampAmbiguousLimit(limit)
  <2>1. answer \in Cut(rows, l) /\ \A x \in answer, y \in rows \ answer : x.score <= y.score
    BY DEF AmbiguousEdges
  <2>2. l \in Nat BY ClampedLimit
  <2>3. e \in rows <=> e.tier = "AMBIGUOUS" \/ e.score <= AsReal[t] OBVIOUS
  <2> HIDE DEF rows, l
  <2>4. answer \subseteq rows /\ (answer = rows \/ Cardinality(answer) = l) BY <2>1, <2>2, CutPart
  <2>5. CASE e \notin answer BY <2>1, <2>3, <2>4, <2>5 DEF l
  <2>6. CASE e \in answer /\ e.tier # "AMBIGUOUS"
    <3>1. e.score <= AsReal[t] BY <2>3, <2>4, <2>6
    <3>2. PICK s \in Scores : AsReal[s] = e.score /\ TierFor(s) = e.tier BY <1>1 DEF TierFollows
    <3>3. s \in Int /\ t \in Scores /\ one \in Scores /\ AsReal[t] < AsReal[one] BY StoreAssumption
    <3>4. AsReal[s] \in Int /\ AsReal[t] \in Int /\ AsReal[one] \in Int BY <3>3, StoreAssumption
    <3>5. t \in Int /\ one \in Int BY DEF one, ambiguousScoreThreshold
    <3>6. ~ (s >= one)
      <4>1. one <= s => AsReal[one] <= AsReal[s] BY <3>2, <3>3, StoreAssumption
      <4> QED BY <4>1, <3>1, <3>2, <3>3, <3>4, <3>5
    <3>7. ~ (s <= t) /\ e.tier = "INFERRED" BY <2>6, <3>2, <3>6 DEF TierFor
    <3>8. t <= s BY <3>3, <3>5, <3>7
    <3>9. AsReal[t] <= AsReal[s] BY <3>2, <3>3, <3>8, StoreAssumption
    <3> QED BY <2>6, <3>1, <3>2, <3>4, <3>7, <3>9
  <2> QED BY <2>5, <2>6
<1>2. AmbiguousListed BY <1>1, Zenon DEF AmbiguousListed
<1> QED BY <1>2, PTL
-----------------------------------------------------------------------------
(* Trails: the ways along edges, which may run in circles.                  *)

Hops(E) == {<<e.from, e.to>> : e \in E}

\* s goes from a to b in n steps of H.
Trail(H, s, n, a, b) ==
    /\ s \in [1..n + 1 -> Ids] /\ s[1] = a /\ s[n + 1] = b
    /\ \A i \in 1..n : <<s[i], s[i + 1]>> \in H

HasTrail(H, n, a, b) == \E s : Trail(H, s, n, a, b)

\* No id twice, but the last may be the first.
Simple(s, n) == \A i, j \in 1..n + 1 : s[i] = s[j] /\ i < j => i = 1 /\ j = n + 1

\* A trail without a step ends where it starts.
LEMMA NoTrail == ASSUME NEW H, NEW a \in Ids, NEW b PROVE HasTrail(H, 0, a, b) <=> b = a
<1>1. ASSUME HasTrail(H, 0, a, b) PROVE b = a BY <1>1 DEF HasTrail, Trail
<1>2. Trail(H, [i \in 1..1 |-> a], 0, a, a) BY DEF Trail
<1> QED BY <1>1, <1>2 DEF HasTrail

\* A trail and one more step.
LEMMA TrailLonger ==
    ASSUME NEW H, NEW s, NEW n \in Nat, NEW a, NEW b, NEW c \in Ids, Trail(H, s, n, a, b), <<b, c>> \in H
    PROVE  \E t : Trail(H, t, n + 1, a, c) /\ \A k \in 1..n + 1 : t[k] = s[k]
<1> DEFINE t == [k \in 1..n + 2 |-> IF k = n + 2 THEN c ELSE s[k]]
<1>2. s \in [1..n + 1 -> Ids] /\ s[1] = a /\ s[n + 1] = b /\ \A i \in 1..n : <<s[i], s[i + 1]>> \in H
  BY DEF Trail
<1>3. \A k \in 1..n + 2 : k # n + 2 => k \in 1..n + 1 OBVIOUS
<1>4. t \in [1..n + 2 -> Ids] BY <1>2, <1>3
<1>5. \A k \in 1..n + 1 : t[k] = s[k] OBVIOUS
<1>6. t[n + 2] = c OBVIOUS
<1> HIDE DEF t
<1>7. ASSUME NEW i \in 1..n + 1 PROVE <<t[i], t[i + 1]>> \in H
  <2>1. CASE i = n + 1
    <3>1. i + 1 = n + 2 /\ t[i] = b BY <2>1, <1>2, <1>5
    <3> QED BY <3>1, <1>6
  <2>2. CASE i # n + 1
    <3>1. i \in 1..n /\ i + 1 \in 1..n + 1 BY <2>2
    <3> QED BY <3>1, <1>2, <1>5
  <2> QED BY <2>1, <2>2
<1>8. t[1] = a /\ n + 1 + 1 = n + 2 BY <1>2, <1>5
<1>9. Trail(H, t, n + 1, a, c) BY <1>4, <1>6, <1>7, <1>8 DEF Trail
<1> QED BY <1>5, <1>9

\* The beginning of a trail is one.
LEMMA TrailPrefix ==
    ASSUME NEW H, NEW s, NEW n \in Nat, NEW a, NEW b, Trail(H, s, n, a, b), NEW j \in 1..n + 1
    PROVE  Trail(H, [k \in 1..j |-> s[k]], j - 1, a, s[j])
<1> DEFINE t == [k \in 1..j |-> s[k]]
<1>1. s \in [1..n + 1 -> Ids] /\ s[1] = a /\ \A i \in 1..n : <<s[i], s[i + 1]>> \in H BY DEF Trail
<1>2. \A k \in 1..j : k \in 1..n + 1 OBVIOUS
<1>3. t \in [1..j -> Ids] BY <1>1, <1>2
<1>4. \A k \in 1..j : t[k] = s[k] OBVIOUS
<1> HIDE DEF t
<1>5. j - 1 + 1 = j /\ 1 \in 1..j /\ j \in 1..j OBVIOUS
<1>6. ASSUME NEW i \in 1..j - 1 PROVE <<t[i], t[i + 1]>> \in H
  <2>1. i \in 1..j /\ i + 1 \in 1..j /\ i \in 1..n OBVIOUS
  <2> QED BY <2>1, <1>1, <1>4
<1>7. Trail(H, t, j - 1, a, s[j]) BY <1>1, <1>3, <1>4, <1>5, <1>6 DEF Trail
<1> QED BY <1>7 DEF t

\* A trail is a trail and a last step.
LEMMA TrailEnd ==
    ASSUME NEW H, NEW n \in Nat, NEW a, NEW c \in Ids
    PROVE  HasTrail(H, n + 1, a, c) <=> \E b \in Ids : HasTrail(H, n, a, b) /\ <<b, c>> \in H
<1>1. ASSUME HasTrail(H, n + 1, a, c) PROVE \E b \in Ids : HasTrail(H, n, a, b) /\ <<b, c>> \in H
  <2>1. PICK s : Trail(H, s, n + 1, a, c) BY <1>1 DEF HasTrail
  <2> DEFINE t == [k \in 1..n + 1 |-> s[k]]
  <2>2. s \in [1..n + 2 -> Ids] /\ s[1] = a /\ s[n + 2] = c /\ \A i \in 1..n + 1 : <<s[i], s[i + 1]>> \in H
    <3>1. n + 1 + 1 = n + 2 OBVIOUS
    <3> QED BY <2>1, <3>1 DEF Trail
  <2>3. Trail(H, t, n, a, s[n + 1])
    <3>1. \A k \in 1..n + 1 : k \in 1..n + 2 OBVIOUS
    <3>2. t \in [1..n + 1 -> Ids] BY <2>2, <3>1
    <3>3. 1 \in 1..n + 1 /\ n + 1 \in 1..n + 1 OBVIOUS
    <3>4. ASSUME NEW i \in 1..n PROVE i \in 1..n + 1 /\ i + 1 \in 1..n + 1 OBVIOUS
    <3> QED BY <2>2, <3>2, <3>3, <3>4 DEF Trail
  <2>4. s[n + 1] \in Ids /\ <<s[n + 1], c>> \in H
    <3>1. n + 1 \in 1..n + 2 /\ n + 1 \in 1..n + 1 /\ n + 1 + 1 = n + 2 OBVIOUS
    <3> QED BY <2>2, <3>1
  <2> QED BY <2>3, <2>4 DEF HasTrail
<1>2. ASSUME NEW b \in Ids, HasTrail(H, n, a, b), <<b, c>> \in H PROVE HasTrail(H, n + 1, a, c)
  BY <1>2, TrailLonger DEF HasTrail
<1> QED BY <1>1, <1>2

\* A trail is a first step and a trail.
LEMMA TrailStart ==
    ASSUME NEW H, NEW n \in Nat, NEW a \in Ids, NEW c
    PROVE  HasTrail(H, n + 1, a, c) <=> \E b \in Ids : <<a, b>> \in H /\ HasTrail(H, n, b, c)
<1>1. ASSUME HasTrail(H, n + 1, a, c) PROVE \E b \in Ids : <<a, b>> \in H /\ HasTrail(H, n, b, c)
  <2>1. PICK s : Trail(H, s, n + 1, a, c) BY <1>1 DEF HasTrail
  <2> DEFINE t == [k \in 1..n + 1 |-> s[k + 1]]
  <2>2. s \in [1..n + 2 -> Ids] /\ s[1] = a /\ s[n + 2] = c /\ \A i \in 1..n + 1 : <<s[i], s[i + 1]>> \in H
    <3>1. n + 1 + 1 = n + 2 OBVIOUS
    <3> QED BY <2>1, <3>1 DEF Trail
  <2>3. \A k \in 1..n + 1 : k + 1 \in 1..n + 2 OBVIOUS
  <2>4. t \in [1..n + 1 -> Ids] BY <2>2, <2>3
  <2>5. t[1] = s[2] /\ t[n + 1] = c
    <3>1. 1 \in 1..n + 1 /\ n + 1 \in 1..n + 1 /\ 1 + 1 = 2 /\ n + 1 + 1 = n + 2 OBVIOUS
    <3> QED BY <2>2, <3>1
  <2>6. ASSUME NEW i \in 1..n PROVE <<t[i], t[i + 1]>> \in H
    <3>1. i \in 1..n + 1 /\ i + 1 \in 1..n + 1 OBVIOUS
    <3>2. t[i] = s[i + 1] /\ t[i + 1] = s[i + 1 + 1] BY <3>1
    <3> QED BY <2>2, <3>1, <3>2
  <2> HIDE DEF t
  <2>7. Trail(H, t, n, s[2], c) BY <2>4, <2>5, <2>6 DEF Trail
  <2>8. s[2] \in Ids /\ <<a, s[2]>> \in H
    <3>1. 1 \in 1..n + 1 /\ 2 \in 1..n + 2 /\ 1 + 1 = 2 OBVIOUS
    <3> QED BY <2>2, <3>1
  <2> QED BY <2>7, <2>8 DEF HasTrail
<1>2. ASSUME NEW b \in Ids, <<a, b>> \in H, HasTrail(H, n, b, c) PROVE HasTrail(H, n + 1, a, c)
  <2>1. PICK s : Trail(H, s, n, b, c) BY <1>2 DEF HasTrail
  <2> DEFINE t == [k \in 1..n + 2 |-> IF k = 1 THEN a ELSE s[k - 1]]
  <2>2. s \in [1..n + 1 -> Ids] /\ s[1] = b /\ s[n + 1] = c /\ \A i \in 1..n : <<s[i], s[i + 1]>> \in H
    BY <2>1 DEF Trail
  <2>3. \A k \in 1..n + 2 : k # 1 => k - 1 \in 1..n + 1 OBVIOUS
  <2>4. t \in [1..n + 2 -> Ids] BY <2>2, <2>3
  <2>5. \A k \in 1..n + 1 : t[k + 1] = s[k] OBVIOUS
  <2>6. t[1] = a OBVIOUS
  <2> HIDE DEF t
  <2>7. ASSUME NEW i \in 1..n + 1 PROVE <<t[i], t[i + 1]>> \in H
    <3>1. CASE i = 1
      <4>1. t[i + 1] = b BY <3>1, <2>2, <2>5
      <4> QED BY <3>1, <4>1, <2>6, <1>2
    <3>2. CASE i # 1
      <4>1. i - 1 \in 1..n /\ i - 1 + 1 = i /\ i - 1 \in 1..n + 1 BY <3>2
      <4>2. t[i] = s[i - 1] /\ t[i + 1] = s[i - 1 + 1] BY <4>1, <2>5
      <4> QED BY <4>1, <4>2, <2>2
    <3> QED BY <3>1, <3>2
  <2>8. t[n + 1 + 1] = c /\ n + 1 + 1 = n + 2 BY <2>2, <2>5
  <2>9. Trail(H, t, n + 1, a, c) BY <2>4, <2>6, <2>7, <2>8 DEF Trail
  <2> QED BY <2>9 DEF HasTrail
<1> QED BY <1>1, <1>2

\* A circle in a trail can be left out.
LEMMA TrailCut ==
    ASSUME NEW H, NEW s, NEW n \in Nat, NEW a, NEW b, Trail(H, s, n, a, b),
           NEW i \in 1..n + 1, NEW j \in 1..n + 1, i < j, s[i] = s[j]
    PROVE  LET m == n - (j - i)
               t == [k \in 1..m + 1 |-> IF k <= i THEN s[k] ELSE s[k + (j - i)]]
           IN m \in Nat /\ m < n /\ i <= m + 1 /\ Trail(H, t, m, a, b)
<1> DEFINE m == n - (j - i)
           t == [k \in 1..m + 1 |-> IF k <= i THEN s[k] ELSE s[k + (j - i)]]
<1>1. m \in Nat /\ m < n /\ i <= m + 1 /\ m + (j - i) = n OBVIOUS
<1>2. s \in [1..n + 1 -> Ids] /\ s[1] = a /\ s[n + 1] = b /\ \A k \in 1..n : <<s[k], s[k + 1]>> \in H
  BY DEF Trail
<1>3. \A k \in 1..m + 1 : k \in 1..n + 1 /\ k + (j - i) \in 1..n + 1 OBVIOUS
<1>4. t \in [1..m + 1 -> Ids] BY <1>2, <1>3
<1>5. \A k \in 1..m + 1 : k <= i => t[k] = s[k] OBVIOUS
<1>6. \A k \in 1..m + 1 : ~ (k <= i) => t[k] = s[k + (j - i)] OBVIOUS
<1>7. t[1] = a
  <2>1. 1 \in 1..m + 1 /\ 1 <= i BY <1>1
  <2> QED BY <2>1, <1>2, <1>5
<1>8. t[m + 1] = b
  <2>1. m + 1 \in 1..m + 1 /\ m + 1 + (j - i) = n + 1 BY <1>1
  <2>2. CASE m + 1 <= i
    <3>1. m + 1 = i /\ j = n + 1 BY <2>2, <1>1
    <3>2. t[m + 1] = s[i] BY <2>1, <2>2, <3>1, <1>5
    <3> QED BY <3>1, <3>2, <1>2
  <2>3. CASE ~ (m + 1 <= i) BY <2>1, <2>3, <1>2, <1>6
  <2> QED BY <2>2, <2>3
<1>9. ASSUME NEW k \in 1..m PROVE <<t[k], t[k + 1]>> \in H
  <2>1. k \in 1..m + 1 /\ k + 1 \in 1..m + 1 /\ k \in 1..n /\ k + (j - i) \in 1..n BY <1>1
  <2>2. CASE k < i
    <3>1. k <= i /\ k + 1 <= i BY <2>2
    <3>2. t[k] = s[k] /\ t[k + 1] = s[k + 1] BY <2>1, <3>1, <1>5
    <3> QED BY <2>1, <3>2, <1>2
  <2>3. CASE k = i
    <3>1. k <= i /\ ~ (k + 1 <= i) /\ k + 1 + (j - i) = j + 1 /\ j \in 1..n BY <2>1, <2>3
    <3>2. t[k] = s[j] /\ t[k + 1] = s[j + 1] BY <2>1, <2>3, <3>1, <1>5, <1>6
    <3> QED BY <3>1, <3>2, <1>2
  <2>4. CASE k > i
    <3>1. ~ (k <= i) /\ ~ (k + 1 <= i) /\ k + 1 + (j - i) = k + (j - i) + 1 BY <2>4
    <3>2. t[k] = s[k + (j - i)] /\ t[k + 1] = s[k + (j - i) + 1] BY <2>1, <3>1, <1>6
    <3> QED BY <2>1, <3>2, <1>2
  <2> QED BY <2>2, <2>3, <2>4
<1> HIDE DEF m, t
<1>10. Trail(H, t, m, a, b) BY <1>4, <1>7, <1>8, <1>9 DEF Trail
<1> QED BY <1>1, <1>10 DEF m, t
\* A shortest trail has no circle but itself.
LEMMA ShortestSimple ==
    ASSUME NEW H, NEW s, NEW n \in Nat, NEW a, NEW b, Trail(H, s, n, a, b),
           \A m \in 1..n - 1 : ~ HasTrail(H, m, a, b)
    PROVE  Simple(s, n)
<1> SUFFICES ASSUME NEW i \in 1..n + 1, NEW j \in 1..n + 1, s[i] = s[j], i < j, ~ (i = 1 /\ j = n + 1)
             PROVE  FALSE
  BY DEF Simple
<1> DEFINE m == n - (j - i)
<1>1. m \in Nat /\ m < n /\ HasTrail(H, m, a, b) BY TrailCut, Zenon DEF HasTrail
<1>2. m \in 1..n - 1 BY <1>1
<1> QED BY <1>1, <1>2

\* The length of a sequence given as a function.
LEMMA FunctionLength == ASSUME NEW S, NEW n \in Nat, NEW s \in [1..n -> S] PROVE s \in Seq(S) /\ Len(s) = n
<1>1. s \in Seq(S) BY SeqDef
<1>2. Len(s) \in Nat /\ 1..Len(s) = 1..n BY <1>1, LenProperties
<1> QED BY <1>1, <1>2

\* A trail without circles is as long as there are ids at most, and a route.
LEMMA SimpleIsRoute ==
    ASSUME NEW s, NEW n \in Nat \ {0}, s \in [1..n + 1 -> Ids], Simple(s, n)
    PROVE  s \in Routes /\ Len(s) = n + 1
<1>1. Len(s) = n + 1 BY FunctionLength
<1>2. n <= Cardinality(Ids)
  <2> DEFINE t == [k \in 1..n |-> s[k]]
  <2>1. \A k \in 1..n : k \in 1..n + 1 /\ k # n + 1 OBVIOUS
  <2>2. t \in [1..n -> Ids] BY <2>1
  <2>3. ASSUME NEW i \in 1..n, NEW j \in 1..n, t[i] = t[j] PROVE i = j
    <3>1. s[i] = s[j] /\ i \in 1..n + 1 /\ j \in 1..n + 1 /\ i # n + 1 /\ j # n + 1 BY <2>1, <2>3
    <3>2. ~ (i < j) /\ ~ (j < i) BY <3>1 DEF Simple
    <3> QED BY <3>2
  <2> HIDE DEF t
  <2>4. t \in Injection(1..n, Ids) BY <2>2, <2>3 DEF Injection, IsInjective
  <2>5. Cardinality(1..n) <= Cardinality(Ids) BY <2>4, FS_Injection, ReadAssumption
  <2>6. Cardinality(1..n) = n BY FS_Interval
  <2> QED BY <2>5, <2>6
<1>3. Cardinality(Ids) \in Nat BY FS_CardinalityType, ReadAssumption
<1>4. n + 1 \in 2..Cardinality(Ids) + 1 BY <1>2, <1>3
<1>5. \A i, j \in DOMAIN s : s[i] = s[j] /\ i < j => i = 1 /\ j = Len(s) BY <1>1 DEF Simple
<1> QED BY <1>1, <1>4, <1>5 DEF Routes

\* A route along edges is a trail without circles.
LEMMA RouteIsTrail ==
    ASSUME NEW E, NEW s
    PROVE  s \in RoutesAlong(E) <=>
             /\ s \in Routes
             /\ Len(s) - 1 \in Nat \ {0}
             /\ Trail(Hops(E), s, Len(s) - 1, s[1], s[Len(s)])
             /\ Simple(s, Len(s) - 1)
<1>1. s \in RoutesAlong(E) <=> s \in Routes /\ \A i \in 1..Len(s) - 1 : <<s[i], s[i + 1]>> \in Hops(E)
  BY DEF RoutesAlong, Hops
<1>2. ASSUME s \in Routes
      PROVE  /\ s \in [1..Len(s) - 1 + 1 -> Ids] /\ Len(s) - 1 \in Nat \ {0} /\ Len(s) - 1 + 1 = Len(s)
             /\ Simple(s, Len(s) - 1)
  <2>1. Cardinality(Ids) \in Nat BY FS_CardinalityType, ReadAssumption
  <2>2. PICK n \in 2..Cardinality(Ids) + 1 : s \in [1..n -> Ids] BY <1>2 DEF Routes
  <2>3. n \in Nat /\ n >= 2 BY <2>1
  <2>4. Len(s) = n BY <2>2, <2>3, FunctionLength
  <2>5. Len(s) - 1 + 1 = n /\ Len(s) - 1 \in Nat \ {0} BY <2>3, <2>4
  <2>6. \A i, j \in 1..n : s[i] = s[j] /\ i < j => i = 1 /\ j = n BY <1>2, <2>2, <2>4 DEF Routes
  <2> QED BY <2>2, <2>4, <2>5, <2>6 DEF Simple
<1> QED BY <1>1, <1>2 DEF Trail

\* What NeighborsExact measures by routes is the length of the shortest trail.
LEMMA LeastTrail ==
    ASSUME NEW E, NEW a \in Ids, NEW b \in Ids, NEW K \in Nat \ {0}
    PROVE  LET least == Min({K} \cup {Len(s) - 1 : s \in {t \in RoutesAlong(E) : t[1] = a /\ Last(t) = b}})
           IN /\ least \in 1..K
              /\ least < K => HasTrail(Hops(E), least, a, b)
              /\ \A n \in Nat \ {0} : HasTrail(Hops(E), n, a, b) => least <= n
<1> DEFINE L == {Len(s) - 1 : s \in {t \in RoutesAlong(E) : t[1] = a /\ Last(t) = b}}
           H == Hops(E)
           T == {K} \cup L
           least == Min(T)
<1>1. ASSUME NEW l \in L PROVE l \in Nat \ {0} /\ HasTrail(H, l, a, b)
  <2>1. PICK s \in RoutesAlong(E) : s[1] = a /\ s[Len(s)] = b /\ l = Len(s) - 1 BY DEF Last
  <2>2. l \in Nat \ {0} /\ Trail(H, s, l, a, b) BY <2>1, RouteIsTrail
  <2> QED BY <2>2 DEF HasTrail
<1>2. ASSUME NEW n \in Nat \ {0}, HasTrail(H, n, a, b) PROVE \E l \in L : l <= n
  <2> DEFINE P == {m \in Nat \ {0} : HasTrail(H, m, a, b)}
  <2>1. P \subseteq Nat /\ n \in P BY <1>2
  <2>2. PICK m \in P : \A k \in P : m <= k
    <3> HIDE DEF P
    <3> QED BY <2>1, LeastNat
  <2>3. PICK s : Trail(H, s, m, a, b) BY <2>2 DEF HasTrail
  <2>4. \A k \in 1..m - 1 : ~ HasTrail(H, k, a, b)
    <3> SUFFICES ASSUME NEW k \in 1..m - 1, HasTrail(H, k, a, b) PROVE FALSE OBVIOUS
    <3>1. m \in Nat /\ k \in Nat \ {0} /\ ~ (m <= k) BY <2>2
    <3> QED BY <3>1, <2>2
  <2>5. Simple(s, m) BY <2>2, <2>3, <2>4, ShortestSimple
  <2>6. s \in Routes /\ Len(s) = m + 1
    <3>1. s \in [1..m + 1 -> Ids] BY <2>3 DEF Trail
    <3> QED BY <2>2, <2>5, <3>1, SimpleIsRoute
  <2>7. Len(s) - 1 = m /\ m \in Nat \ {0} BY <2>2, <2>6
  <2>8. s[1] = a /\ s[Len(s)] = b BY <2>3, <2>6 DEF Trail
  <2>9. s \in RoutesAlong(E) BY <2>3, <2>5, <2>6, <2>7, <2>8, RouteIsTrail
  <2>10. m \in L BY <2>7, <2>8, <2>9 DEF Last
  <2> QED BY <2>1, <2>2, <2>10
<1> HIDE DEF L, H
<1>3. T \subseteq Nat /\ T # {} /\ K \in T BY <1>1
<1>4. least \in T /\ \A t \in T : least <= t
  <2> HIDE DEF T
  <2>1. \E x \in T : \A y \in T : x <= y BY <1>3, LeastNat
  <2> QED BY <2>1 DEF Min
<1>5. least \in Nat \ {0} /\ least <= K BY <1>1, <1>3, <1>4
<1> HIDE DEF least
<1>6. least \in 1..K BY <1>5
<1>7. ASSUME least < K PROVE HasTrail(H, least, a, b)
  <2>1. least # K BY <1>7, <1>5
  <2> QED BY <2>1, <1>1, <1>4
<1>8. ASSUME NEW n \in Nat \ {0}, HasTrail(H, n, a, b) PROVE least <= n
  <2>1. PICK l \in L : l <= n BY <1>2, <1>8
  <2>2. least <= l /\ l \in Nat BY <1>1, <1>4, <2>1
  <2> QED BY <2>1, <2>2, <1>5
<1>9. /\ least \in 1..K
      /\ least < K => HasTrail(H, least, a, b)
      /\ \A n \in Nat \ {0} : HasTrail(H, n, a, b) => least <= n
  BY <1>6, <1>7, <1>8
<1> QED BY <1>9 DEF least, H, L

\* The walk of the query has, round by round, the ends of the trails from the
\* id, or in the other direction the starts of those to it.
LEMMA WalkIsTrails ==
    ASSUME NEW E, Ends(E), NEW dir, NEW id \in Ids, NEW d \in Nat, NEW n \in 0..d, NEW x \in Ids
    PROVE  /\ dir # "in" => (x \in Walk(E, dir, id, d)[n] <=> HasTrail(Hops(E), n, id, x))
           /\ dir = "in" => (x \in Walk(E, dir, id, d)[n] <=> HasTrail(Hops(E), n, x, id))
<1> DEFINE H == Hops(E)
           Way(k, y) == IF dir = "in" THEN HasTrail(H, k, y, id) ELSE HasTrail(H, k, id, y)
           Hop(b, y) == IF dir = "in" THEN <<y, b>> \in H ELSE <<b, y>> \in H
           w == Walk(E, dir, id, d)
           P(k) == \A y \in Ids : y \in w[k] <=> Way(k, y)
           T == {k \in 0..d : ~ P(k)}
<1>1. w[0] = {id} /\ \A k \in 1..d : w[k] = Step(E, dir, w[k - 1]) BY WalkUnfold
<1>2. \A X, y : y \in Step(E, dir, X) <=> \E b \in Ids : b \in X /\ Hop(b, y)
  <2>1. CASE dir = "in" BY <2>1 DEF Step, Hops, Ends
  <2>2. CASE dir # "in" BY <2>2 DEF Step, Hops, Ends
  <2> QED BY <2>1, <2>2
<1>3. \A y \in Ids : Way(0, y) <=> y = id
  <2> SUFFICES ASSUME NEW y \in Ids PROVE Way(0, y) <=> y = id OBVIOUS
  <2>1. HasTrail(H, 0, y, id) <=> id = y BY NoTrail
  <2>2. HasTrail(H, 0, id, y) <=> y = id BY NoTrail
  <2> QED BY <2>1, <2>2
<1>4. ASSUME NEW k \in 1..d, NEW y \in Ids PROVE Way(k, y) <=> \E b \in Ids : Way(k - 1, b) /\ Hop(b, y)
  <2>1. k - 1 \in Nat /\ k - 1 + 1 = k OBVIOUS
  <2>2. HasTrail(H, k, id, y) <=> \E b \in Ids : HasTrail(H, k - 1, id, b) /\ <<b, y>> \in H
    BY <2>1, TrailEnd
  <2>3. HasTrail(H, k, y, id) <=> \E b \in Ids : <<y, b>> \in H /\ HasTrail(H, k - 1, b, id)
    BY <2>1, TrailStart
  <2> HIDE DEF H
  <2> QED BY <2>2, <2>3
<1> HIDE DEF w, Way, Hop
<1>5. P(0) BY <1>1, <1>3
<1>6. ASSUME NEW k \in 1..d, P(k - 1) PROVE P(k)
  <2> SUFFICES ASSUME NEW y \in Ids PROVE y \in w[k] <=> Way(k, y) OBVIOUS
  <2>1. y \in w[k] <=> \E b \in Ids : b \in w[k - 1] /\ Hop(b, y) BY <1>1, <1>2
  <2>2. Way(k, y) <=> \E b \in Ids : Way(k - 1, b) /\ Hop(b, y) BY <1>4
  <2> QED BY <1>6, <2>1, <2>2, Zenon
<1> HIDE DEF P
<1>7. T = {}
  <2> SUFFICES ASSUME T # {} PROVE FALSE OBVIOUS
  <2>1. PICK k \in T : \A j \in T : k <= j
    <3>1. T \subseteq Nat OBVIOUS
    <3> HIDE DEF T
    <3> QED BY <3>1, LeastNat
  <2>2. k # 0 BY <1>5
  <2>3. k \in 1..d /\ k - 1 \in 0..d /\ ~ (k <= k - 1) BY <2>2
  <2>4. P(k - 1) BY <2>1, <2>3
  <2> QED BY <1>6, <2>3, <2>4
<1>8. P(n) BY <1>7
<1>9. x \in w[n] <=> Way(n, x) BY <1>8 DEF P
<1> QED BY <1>9 DEF Way, w, H
-----------------------------------------------------------------------------
(* Neighbors against its definition by routes.                              *)

\* The stored ids of a walk with their depths, and the row expected for an id.
Layers(w, S, c) == UNION {(w[n] \cap S) \X {n} : n \in 1..c}

RowAt(o, l, S, c) == IF o \in S /\ l <= c THEN {<<o, l>>} ELSE {}

\* DISTINCT ON keeps the row of an id with the least depth.
LEMMA DistinctAt ==
    ASSUME NEW w, NEW S, NEW c \in Nat, NEW o, NEW l \in Nat \ {0},
           l <= c => o \in w[l], \A n \in 1..c : o \in w[n] => l <= n
    PROVE  RowAt(o, l, S, c) = {x \in DistinctOn(Layers(w, S, c)) : x[1] = o}
<1> DEFINE R == Layers(w, S, c)
           A == {x \in DistinctOn(R) : x[1] = o}
<1>1. \A x : x \in R <=> \E n \in 1..c : \E y \in w[n] \cap S : x = <<y, n>> BY DEF Layers
<1>2. \A n : <<o, n>> \in R <=> n \in 1..c /\ o \in w[n] /\ o \in S BY <1>1
<1>3. \A x : x \in R /\ x[1] = o => \E n \in 1..c : x = <<o, n>> BY <1>1
<1> HIDE DEF R
<1>4. ASSUME NEW x \in A PROVE x = <<o, l>> /\ o \in S /\ l <= c
  <2>1. x \in R /\ x[1] = o /\ \A y \in R : x[1] = y[1] => x[2] <= y[2] BY DEF DistinctOn
  <2>2. PICK n \in 1..c : x = <<o, n>> BY <1>3, <2>1
  <2>3. o \in w[n] /\ o \in S BY <1>2, <2>1, <2>2
  <2>4. l <= n BY <2>3
  <2>5. l \in 1..c BY <2>4
  <2>6. <<o, l>> \in R BY <1>2, <2>3, <2>5
  <2>7. n <= l
    <3>1. <<o, l>>[1] = o /\ <<o, l>>[2] = l /\ x[2] = n BY <2>2
    <3> QED BY <3>1, <2>1, <2>6
  <2>8. n = l BY <2>4, <2>7
  <2> QED BY <2>2, <2>3, <2>5, <2>8
<1>5. ASSUME o \in S, l <= c PROVE <<o, l>> \in A
  <2>1. l \in 1..c BY <1>5
  <2>2. <<o, l>> \in R BY <1>2, <1>5, <2>1
  <2>3. ASSUME NEW y \in R, y[1] = o PROVE l <= y[2]
    <3>1. PICK n \in 1..c : y = <<o, n>> BY <1>3, <2>3
    <3>2. o \in w[n] /\ y[2] = n BY <1>2, <3>1
    <3> QED BY <3>2
  <2>4. <<o, l>>[1] = o /\ <<o, l>>[2] = l OBVIOUS
  <2> QED BY <2>2, <2>3, <2>4 DEF DistinctOn
<1> HIDE DEF A
<1>6. RowAt(o, l, S, c) = A
  <2>1. CASE o \in S /\ l <= c BY <2>1, <1>4, <1>5 DEF RowAt
  <2>2. CASE ~ (o \in S /\ l <= c) BY <2>2, <1>4 DEF RowAt
  <2> QED BY <2>1, <2>2
<1> QED BY <1>6 DEF A, R

\* Distance is the measure of NeighborsExact.
Distance(E, a, b) ==
    Min({maxDepth + 1} \cup {Len(s) - 1 : s \in {t \in RoutesAlong(E) : t[1] = a /\ Last(t) = b}})

\* It is the length of the shortest trail, if that is at most maxDepth.
LEMMA DistanceLeast ==
    ASSUME NEW E, NEW a \in Ids, NEW b \in Ids
    PROVE  /\ Distance(E, a, b) \in 1..maxDepth + 1
           /\ Distance(E, a, b) < maxDepth + 1 => HasTrail(Hops(E), Distance(E, a, b), a, b)
           /\ \A n \in Nat \ {0} : HasTrail(Hops(E), n, a, b) => Distance(E, a, b) <= n
<1> DEFINE K == maxDepth + 1
           least == Min({K} \cup {Len(s) - 1 : s \in {t \in RoutesAlong(E) : t[1] = a /\ Last(t) = b}})
<1>1. maxDepth \in Nat BY ReadAssumption
<1>2. K \in Nat \ {0} BY <1>1
<1>3. Distance(E, a, b) = least BY DEF Distance
<1> HIDE DEF K
<1>4. /\ least \in 1..K
      /\ least < K => HasTrail(Hops(E), least, a, b)
      /\ \A n \in Nat \ {0} : HasTrail(Hops(E), n, a, b) => least <= n
  BY <1>2, LeastTrail
<1> HIDE DEF least
<1> QED BY <1>3, <1>4 DEF K

\* The rows of the query from a start to a given id, in either direction.
LEMMA AnswerExact ==
    ASSUME NEW E, Ends(E), NEW S, NEW dir, NEW start \in Ids, NEW other \in Ids, NEW c \in 1..maxDepth, NEW l,
           dir # "in" => l = Distance(E, start, other),
           dir = "in" => l = Distance(E, other, start)
    PROVE  RowAt(other, l, S, c) = {x \in DistinctOn(Layers(Walk(E, dir, start, c), S, c)) : x[1] = other}
<1> DEFINE w == Walk(E, dir, start, c)
           Way(n) == IF dir = "in" THEN HasTrail(Hops(E), n, other, start) ELSE HasTrail(Hops(E), n, start, other)
<1>0. maxDepth \in Nat BY ReadAssumption
<1>1. c \in Nat /\ c < maxDepth + 1 BY <1>0
<1>2. \A n \in 0..c : other \in w[n] <=> Way(n) BY <1>1, WalkIsTrails
<1>3. l \in 1..maxDepth + 1 /\ (l < maxDepth + 1 => Way(l)) /\ (\A n \in Nat \ {0} : Way(n) => l <= n)
  <2>1. CASE dir = "in"
    <3>1. l = Distance(E, other, start) /\ \A n : Way(n) <=> HasTrail(Hops(E), n, other, start) BY <2>1
    <3> HIDE DEF Way
    <3> QED BY <3>1, DistanceLeast
  <2>2. CASE dir # "in"
    <3>1. l = Distance(E, start, other) /\ \A n : Way(n) <=> HasTrail(Hops(E), n, start, other) BY <2>2
    <3> HIDE DEF Way
    <3> QED BY <3>1, DistanceLeast
  <2> QED BY <2>1, <2>2
<1> HIDE DEF w, Way
<1>4. l \in Nat \ {0} BY <1>0, <1>3
<1>5. ASSUME l <= c PROVE other \in w[l]
  <2>1. l \in 0..c /\ l < maxDepth + 1 BY <1>0, <1>1, <1>4, <1>5
  <2> QED BY <2>1, <1>2, <1>3
<1>6. ASSUME NEW n \in 1..c, other \in w[n] PROVE l <= n
  <2>1. n \in 0..c /\ n \in Nat \ {0} BY <1>1
  <2> QED BY <2>1, <1>2, <1>3, <1>6
<1>7. RowAt(other, l, S, c) = {x \in DistinctOn(Layers(w, S, c)) : x[1] = other}
  <2>1. l <= c => other \in w[l] BY <1>5
  <2>2. \A n \in 1..c : other \in w[n] => l <= n BY <1>6
  <2> QED BY <1>1, <1>4, <2>1, <2>2, DistinctAt
<1> QED BY <1>7 DEF w
\* The same for each direction.
LEMMA AnswerOut ==
    ASSUME NEW E, \A e \in E : e.from \in Ids /\ e.to \in Ids, NEW S, NEW dir, dir # "in",
           NEW start \in Ids, NEW other \in Ids, NEW c \in 1..maxDepth
    PROVE  RowAt(other, Distance(E, start, other), S, c) =
             {x \in DistinctOn(Layers(Walk(E, dir, start, c), S, c)) : x[1] = other}
<1> DEFINE l == Distance(E, start, other)
<1>1. Ends(E) BY DEF Ends
<1>2. dir # "in" => l = Distance(E, start, other) OBVIOUS
<1>3. dir = "in" => l = Distance(E, other, start) OBVIOUS
<1> HIDE DEF l
<1>4. RowAt(other, l, S, c) = {x \in DistinctOn(Layers(Walk(E, dir, start, c), S, c)) : x[1] = other}
  BY <1>1, <1>2, <1>3, AnswerExact
<1> QED BY <1>4 DEF l

\* Against the edges the distance is that of the way back.
LEMMA AnswerIn ==
    ASSUME NEW E, \A e \in E : e.from \in Ids /\ e.to \in Ids, NEW S, NEW dir, dir = "in",
           NEW start \in Ids, NEW other \in Ids, NEW c \in 1..maxDepth
    PROVE  RowAt(other, Distance(E, other, start), S, c) =
             {x \in DistinctOn(Layers(Walk(E, dir, start, c), S, c)) : x[1] = other}
<1> DEFINE l == Distance(E, other, start)
<1>1. Ends(E) BY DEF Ends
<1>2. dir # "in" => l = Distance(E, start, other) OBVIOUS
<1>3. dir = "in" => l = Distance(E, other, start) OBVIOUS
<1> HIDE DEF l
<1>4. RowAt(other, l, S, c) = {x \in DistinctOn(Layers(Walk(E, dir, start, c), S, c)) : x[1] = other}
  BY <1>1, <1>2, <1>3, AnswerExact
<1> QED BY <1>4 DEF l

\* Every depth the query may be asked for is clamped to 1..maxDepth.
LEMMA ClampRange == ASSUME NEW depth \in 0..maxDepth + 1 PROVE clampDepth(depth) \in 1..maxDepth
<1>1. defaultDepth \in Nat \ {0} /\ maxDepth \in Nat /\ defaultDepth <= maxDepth BY ReadAssumption
<1> QED BY <1>1 DEF clampDepth, Clamped

\* Distances lists the distance of every two ids.
LEMMA DistancesAre ==
    ASSUME NEW E
    PROVE  /\ \A d \in Distances(E) : d[1] \in Ids /\ d[2] \in Ids /\ d[3] = Distance(E, d[1], d[2])
           /\ \A a, b \in Ids : \E d \in Distances(E) : d[1] = a /\ d[2] = b /\ d[3] = Distance(E, a, b)
<1>1. Distances(E) = {<<a, b, Distance(E, a, b)>> : a, b \in Ids} BY DEF Distances, Distance
<1>2. ASSUME NEW d \in Distances(E) PROVE d[1] \in Ids /\ d[2] \in Ids /\ d[3] = Distance(E, d[1], d[2])
  <2>1. PICK a \in Ids, b \in Ids : d = <<a, b, Distance(E, a, b)>> BY <1>1
  <2>2. d[1] = a /\ d[2] = b /\ d[3] = Distance(E, a, b) BY <2>1
  <2> QED BY <2>2
<1>3. ASSUME NEW a \in Ids, NEW b \in Ids
      PROVE  \E d \in Distances(E) : d[1] = a /\ d[2] = b /\ d[3] = Distance(E, a, b)
  <2> DEFINE n == Distance(E, a, b)
  <2>1. <<a, b, n>> \in Distances(E) BY <1>1
  <2> HIDE DEF n
  <2>2. <<a, b, n>>[1] = a /\ <<a, b, n>>[2] = b /\ <<a, b, n>>[3] = n OBVIOUS
  <2> QED BY <2>1, <2>2 DEF n
<1> QED BY <1>2, <1>3

\* What NeighborsExact expects are the rows RowAt expects of each id.
LEMMA AfterRows ==
    ASSUME NEW E, NEW S, NEW id \in Ids, NEW c, NEW y
    PROVE  /\ y \in After(Distances(E), S, id, c) <=> \E o \in Ids : y \in RowAt(o, Distance(E, id, o), S, c)
           /\ y \in Before(Distances(E), S, id, c) <=> \E o \in Ids : y \in RowAt(o, Distance(E, o, id), S, c)
<1> DEFINE T == Distances(E)
<1>1. \A d \in T : d[1] \in Ids /\ d[2] \in Ids /\ d[3] = Distance(E, d[1], d[2]) BY DistancesAre
<1>2. \A a, b \in Ids : \E d \in T : d[1] = a /\ d[2] = b /\ d[3] = Distance(E, a, b) BY DistancesAre
<1> HIDE DEF T
<1>3. y \in After(T, S, id, c) <=> \E d \in T : d[3] <= c /\ d[1] = id /\ d[2] \in S /\ y = <<d[2], d[3]>>
  BY DEF After
<1>4. y \in Before(T, S, id, c) <=> \E d \in T : d[3] <= c /\ d[2] = id /\ d[1] \in S /\ y = <<d[1], d[3]>>
  BY DEF Before
<1>5. \A o, l : y \in RowAt(o, l, S, c) <=> o \in S /\ l <= c /\ y = <<o, l>> BY DEF RowAt
<1>6. y \in After(T, S, id, c) <=> \E o \in Ids : y \in RowAt(o, Distance(E, id, o), S, c)
  BY <1>1, <1>2, <1>3, <1>5
<1>7. y \in Before(T, S, id, c) <=> \E o \in Ids : y \in RowAt(o, Distance(E, o, id), S, c)
  BY <1>1, <1>2, <1>4, <1>5
<1> QED BY <1>6, <1>7 DEF T

\* A walk stays among the ids.
LEMMA WalkIds ==
    ASSUME NEW E, Ends(E), NEW dir, NEW id \in Ids, NEW d \in Nat, NEW n \in 1..d
    PROVE  Walk(E, dir, id, d)[n] \subseteq Ids
<1> DEFINE w == Walk(E, dir, id, d)
<1>1. w[0] = {id} /\ \A k \in 1..d : w[k] = Step(E, dir, w[k - 1]) BY WalkUnfold
<1>2. ASSUME NEW X PROVE Step(E, dir, X) \subseteq Ids BY DEF Step, Ends
<1> HIDE DEF w
<1>3. w[n] \subseteq Ids BY <1>1, <1>2
<1> QED BY <1>3 DEF w

\* The rows of the query are about ids.
LEMMA RowsAtIds ==
    ASSUME NEW E, Ends(E), NEW S, NEW dir, NEW start \in Ids, NEW c \in Nat,
           NEW y \in DistinctOn(Layers(Walk(E, dir, start, c), S, c))
    PROVE  y[1] \in Ids
<1> DEFINE w == Walk(E, dir, start, c)
<1>1. \A n \in 1..c : w[n] \subseteq Ids BY WalkIds
<1>2. y \in Layers(w, S, c) BY DEF DistinctOn
<1> HIDE DEF w
<1>3. PICK n \in 1..c : y \in (w[n] \cap S) \X {n} BY <1>2 DEF Layers
<1> QED BY <1>1, <1>3

\* The query before its LIMIT has the expected rows.
LEMMA RowsExact ==
    ASSUME NEW E, Ends(E), NEW S, NEW dir, NEW id \in Ids, NEW c \in 1..maxDepth
    PROVE  DistinctOn(Layers(Walk(E, dir, id, c), S, c)) =
             IF dir = "in" THEN Before(Distances(E), S, id, c) ELSE After(Distances(E), S, id, c)
<1> DEFINE R == DistinctOn(Layers(Walk(E, dir, id, c), S, c))
           l(o) == IF dir = "in" THEN Distance(E, o, id) ELSE Distance(E, id, o)
           W == IF dir = "in" THEN Before(Distances(E), S, id, c) ELSE After(Distances(E), S, id, c)
<1>1. c \in Nat BY ReadAssumption
<1>2. \A e \in E : e.from \in Ids /\ e.to \in Ids BY DEF Ends
<1>3. ASSUME NEW o \in Ids PROVE RowAt(o, l(o), S, c) = {x \in R : x[1] = o}
  <2>1. CASE dir = "in" BY <1>2, <2>1, AnswerIn
  <2>2. CASE dir # "in" BY <1>2, <2>2, AnswerOut
  <2> QED BY <2>1, <2>2
<1>4. \A y \in R : y[1] \in Ids BY <1>1, RowsAtIds
<1>5. ASSUME NEW y PROVE y \in W <=> \E o \in Ids : y \in RowAt(o, l(o), S, c)
  <2>1. CASE dir = "in" BY <2>1, AfterRows
  <2>2. CASE dir # "in" BY <2>2, AfterRows
  <2> QED BY <2>1, <2>2
<1> HIDE DEF R, W, l
<1>6. ASSUME NEW y PROVE y \in R <=> y \in W BY <1>3, <1>4, <1>5
<1>7. R = W BY <1>6
<1> QED BY <1>7 DEF R, W

\* Neighbors is exact in every state, however many pushes are open.
LEMMA NeighborsFromRows == RowsOK => NeighborsExact
<1> SUFFICES ASSUME RowsOK, NEW repo \in Repos, NEW conf \in {0, ambiguousScoreThreshold}, NEW id \in Ids,
                    NEW depth \in 0..maxDepth + 1, NEW limit \in Limits
             PROVE  LET E == Followed(repo, {}, conf, "") IN
                    /\ \A answer \in Neighbors(repo, id, {}, "out", depth, limit, conf, "") :
                         PartOf(answer, After(Distances(E), Stored(repo), id, clampDepth(depth)), answer, clampNeighborLimit(limit))
                    /\ \A answer \in Neighbors(repo, id, {}, "in", depth, limit, conf, "") :
                         PartOf(answer, Before(Distances(E), Stored(repo), id, clampDepth(depth)), answer, clampNeighborLimit(limit))
  BY Zenon DEF NeighborsExact
<1> DEFINE E == Followed(repo, {}, conf, "")
           c == clampDepth(depth)
           S == Stored(repo)
           l == clampNeighborLimit(limit)
<1>1. Ends(E) BY DEF RowsOK, EdgeOK, Rows, Followed, Ends
<1>2. c \in 1..maxDepth BY ClampRange
<1>3. l \in Nat BY ClampedLimit
<1>4. \A dir : NeighborRows(repo, id, {}, dir, depth, conf, "") = DistinctOn(Layers(Walk(E, dir, id, c), S, c))
  BY DEF NeighborRows, Layers
<1>5. \A dir : Neighbors(repo, id, {}, dir, depth, limit, conf, "") =
                  Cut(NeighborRows(repo, id, {}, dir, depth, conf, ""), l)
  BY DEF Neighbors
<1> HIDE DEF E, c, S, l
<1>6. ASSUME NEW dir, NEW answer \in Neighbors(repo, id, {}, dir, depth, limit, conf, "")
      PROVE  PartOf(answer, IF dir = "in" THEN Before(Distances(E), S, id, c) ELSE After(Distances(E), S, id, c), answer, l)
  <2> DEFINE rows == DistinctOn(Layers(Walk(E, dir, id, c), S, c))
  <2>1. rows = IF dir = "in" THEN Before(Distances(E), S, id, c) ELSE After(Distances(E), S, id, c) BY <1>1, <1>2, RowsExact
  <2>2. answer \in Cut(rows, l) BY <1>4, <1>5, <1>6
  <2> HIDE DEF rows
  <2>3. PartOf(answer, rows, answer, l) BY <1>3, <2>2, CutPartOf, Zenon
  <2> QED BY <2>1, <2>3
<1>7. "out" # "in" OBVIOUS
<1> QED BY <1>6, <1>7 DEF E, S, c, l

\* Whatever was pushed, and however the pushes interleaved, Neighbors answers
\* with stored ids at their true distances, with all of them unless its limit
\* is reached.
THEOREM NeighborsExactHolds == Spec => []NeighborsExact
BY NeighborsFromRows, RowsHold, PTL
-----------------------------------------------------------------------------
(* ImportCycles against its definition by routes.                           *)

\* A trail that leaves its start with the first step.
Leaves(H, n, a, b) == \E s : Trail(H, s, n, a, b) /\ s[2] # a

\* One round of the recursive query of import cycles.
Onward(I, X) ==
    {<<y[1][1], y[2].to>> : y \in {z \in X \X I : z[1][1] # z[1][2] /\ z[2].from = z[1][2]}}

\* It prolongs the walks that are not back at their start by one import.
LEMMA OnwardIs ==
    ASSUME NEW I, NEW X \in SUBSET (Ids \X Ids), NEW a, NEW x
    PROVE  <<a, x>> \in Onward(I, X) <=> \E b \in Ids : <<a, b>> \in X /\ a # b /\ <<b, x>> \in Hops(I)
<1>1. ASSUME <<a, x>> \in Onward(I, X) PROVE \E b \in Ids : <<a, b>> \in X /\ a # b /\ <<b, x>> \in Hops(I)
  <2>1. PICK y \in X \X I : y[1][1] # y[1][2] /\ y[2].from = y[1][2] /\ <<a, x>> = <<y[1][1], y[2].to>>
    BY <1>1 DEF Onward
  <2>2. y[1] \in X /\ y[2] \in I BY <2>1
  <2>3. PICK p \in Ids, q \in Ids : y[1] = <<p, q>> BY <2>2
  <2>4. p = a /\ q # a /\ y[2].from = q /\ y[2].to = x BY <2>1, <2>3
  <2>5. <<q, x>> \in Hops(I) BY <2>2, <2>4 DEF Hops
  <2> QED BY <2>2, <2>3, <2>4, <2>5
<1>2. ASSUME NEW b \in Ids, <<a, b>> \in X, a # b, <<b, x>> \in Hops(I) PROVE <<a, x>> \in Onward(I, X)
  <2>1. PICK e \in I : e.from = b /\ e.to = x BY <1>2 DEF Hops
  <2> DEFINE z == <<<<a, b>>, e>>
  <2>2. z \in X \X I /\ z[1] = <<a, b>> /\ z[1][1] = a /\ z[1][2] = b /\ z[2] = e BY <1>2, <2>1
  <2> HIDE DEF z
  <2>3. <<a, x>> = <<z[1][1], z[2].to>> BY <2>1, <2>2
  <2>4. z \in {y \in X \X I : y[1][1] # y[1][2] /\ y[2].from = y[1][2]} BY <1>2, <2>1, <2>2
  <2> QED BY <2>3, <2>4 DEF Onward
<1> QED BY <1>1, <1>2
\* The recursive query computes what it says.
LEMMA ReachUnfold ==
    ASSUME NEW I, Ends(I), maxImportCycleDepth # 0
    PROVE  /\ Reach(I) \in [1..maxImportCycleDepth -> SUBSET (Ids \X Ids)]
           /\ Reach(I)[1] = CycleBase(I)
           /\ \A n \in 2..maxImportCycleDepth : Reach(I)[n] = Onward(I, Reach(I)[n - 1])
<1> DEFINE M == maxImportCycleDepth
           S == SUBSET (Ids \X Ids)
           Is(f) == f = [n \in 1..M |-> IF n = 1 THEN CycleBase(I) ELSE Onward(I, f[n - 1])]
           G == [X \in S |-> Onward(I, X)]
           z == CycleBase(I)
           r == Reach(I)
<1>1. M \in Nat /\ M # 0 BY ReadAssumption
<1>2. z \in S BY DEF CycleBase, Ends
<1>3. \A X \in S : Onward(I, X) \in S
  <2> SUFFICES ASSUME NEW X \in S, NEW p \in Onward(I, X) PROVE p \in Ids \X Ids OBVIOUS
  <2>1. PICK y \in X \X I : p = <<y[1][1], y[2].to>> BY DEF Onward
  <2>2. y[1] \in Ids \X Ids /\ y[2] \in I BY <2>1
  <2>3. y[1][1] \in Ids /\ y[2].to \in Ids BY <2>2 DEF Ends
  <2> QED BY <2>1, <2>3
<1>4. G \in [S -> S] BY <1>3
<1>5. \A X \in S : G[X] = Onward(I, X) OBVIOUS
<1>6. r = CHOOSE f : Is(f) BY DEF Reach, Onward
<1> HIDE DEF M, S, G, z, r
<1>7. PICK f \in [0..(M - 1) -> S] : f[0] = z /\ \A n \in 1..(M - 1) : f[n] = G[f[n - 1]]
  <2> DEFINE d == M - 1
  <2>1. d \in Nat BY <1>1
  <2> HIDE DEF d
  <2>2. \E f : Iterates(f, S, z, G, d) BY <1>2, <1>4, <2>1, RecursionExists
  <2> QED BY <2>2 DEF d, Iterates
<1> DEFINE g == [n \in 1..M |-> f[n - 1]]
<1>8. \A n \in 1..M : n - 1 \in 0..(M - 1) /\ g[n] = f[n - 1] BY <1>1
<1>9. g \in [1..M -> S] BY <1>7, <1>8
<1> HIDE DEF g
<1>10. ASSUME NEW n \in 1..M PROVE g[n] = IF n = 1 THEN CycleBase(I) ELSE Onward(I, g[n - 1])
  <2>1. CASE n = 1 BY <2>1, <1>7, <1>8 DEF z
  <2>2. CASE n # 1
    <3>1. n - 1 \in 1..M /\ n - 1 \in 1..(M - 1) BY <2>2, <1>1
    <3>2. g[n] = f[n - 1] /\ g[n - 1] = f[n - 1 - 1] BY <3>1, <1>8
    <3>3. g[n] = G[g[n - 1]] BY <3>1, <3>2, <1>7
    <3>4. g[n - 1] \in S BY <3>1, <1>9
    <3> QED BY <2>2, <3>3, <3>4, <1>5
  <2> QED BY <2>1, <2>2
<1>11. g = [n \in 1..M |-> g[n]] BY <1>9
<1>12. Is(g) BY <1>10, <1>11
<1>13. Is(r)
  <2> HIDE DEF Is
  <2> QED BY <1>6, <1>12, Zenon
<1>14. \A n \in 1..M : r[n] = IF n = 1 THEN CycleBase(I) ELSE Onward(I, r[n - 1]) BY <1>13
<1>15. DOMAIN r = 1..M /\ r = [n \in 1..M |-> r[n]] BY <1>13
<1> HIDE DEF Is
<1>16. r[1] = CycleBase(I)
  <2>1. 1 \in 1..M BY <1>1
  <2> QED BY <2>1, <1>14
<1>17. ASSUME NEW n \in 2..M PROVE r[n] = Onward(I, r[n - 1])
  <2>1. n \in 1..M /\ n # 1 BY <1>1
  <2> QED BY <2>1, <1>14
<1>18. \A n \in 1..M : r[n] \in S
  <2> DEFINE T == {n \in 1..M : r[n] \notin S}
  <2> SUFFICES ASSUME T # {} PROVE FALSE OBVIOUS
  <2>1. PICK n \in T : \A k \in T : n <= k
    <3>1. T \subseteq Nat OBVIOUS
    <3> HIDE DEF T
    <3> QED BY <3>1, LeastNat
  <2>2. n # 1 BY <2>1, <1>2, <1>16 DEF z
  <2>3. n \in 2..M /\ n - 1 \in 1..M /\ ~ (n <= n - 1) BY <2>2, <1>1
  <2>4. r[n - 1] \in S BY <2>1, <2>3
  <2>5. r[n] \in S BY <2>3, <2>4, <1>3, <1>17
  <2> QED BY <2>1, <2>5
<1>19. r \in [1..M -> S] BY <1>15, <1>18
<1> QED BY <1>16, <1>17, <1>19 DEF M, S, r

\* A walk of the query is a trail that leaves its start.
LEMMA ReachLeaves ==
    ASSUME NEW I, Ends(I), NEW n \in 1..maxImportCycleDepth, NEW a, NEW x, <<a, x>> \in Reach(I)[n]
    PROVE  Leaves(Hops(I), n, a, x)
<1> DEFINE M == maxImportCycleDepth
           H == Hops(I)
           r == Reach(I)
           P(k) == \A y : <<a, y>> \in r[k] => Leaves(H, k, a, y)
           T == {k \in 1..M : ~ P(k)}
<1>1. M \in Nat /\ M # 0
  <2>1. M \in Nat BY ReadAssumption
  <2> QED BY <2>1
<1>2. /\ r \in [1..M -> SUBSET (Ids \X Ids)]
      /\ r[1] = CycleBase(I)
      /\ \A k \in 2..M : r[k] = Onward(I, r[k - 1])
  BY <1>1, ReachUnfold
<1> HIDE DEF r, M
<1>3. P(1)
  <2> SUFFICES ASSUME NEW y, <<a, y>> \in CycleBase(I) PROVE Leaves(H, 1, a, y) BY <1>2
  <2>1. PICK e \in I : e.from = a /\ e.to = y /\ a # y BY DEF CycleBase
  <2>2. a \in Ids /\ y \in Ids /\ <<a, y>> \in H BY <2>1 DEF Ends, Hops
  <2> DEFINE s == [k \in 1..2 |-> IF k = 1 THEN a ELSE y]
  <2>3. s \in [1..2 -> Ids] /\ s[1] = a /\ s[2] = y BY <2>2
  <2> HIDE DEF s
  <2>4. Trail(H, s, 1, a, y)
    <3>1. 1 + 1 = 2 /\ 1..1 = {1} OBVIOUS
    <3> QED BY <3>1, <2>2, <2>3 DEF Trail
  <2> QED BY <2>1, <2>3, <2>4 DEF Leaves
<1>4. ASSUME NEW k \in 2..M, P(k - 1) PROVE P(k)
  <2> SUFFICES ASSUME NEW y, <<a, y>> \in r[k] PROVE Leaves(H, k, a, y) OBVIOUS
  <2>1. k - 1 \in 1..M /\ k - 1 \in Nat /\ k - 1 + 1 = k /\ 2 \in 1..k - 1 + 1 BY <1>1
  <2>2. r[k - 1] \in SUBSET (Ids \X Ids) /\ <<a, y>> \in Onward(I, r[k - 1]) /\ y \in Ids
    <3>1. r[k] \in SUBSET (Ids \X Ids) BY <1>1, <1>2
    <3> QED BY <2>1, <3>1, <1>2
  <2>3. PICK b \in Ids : <<a, b>> \in r[k - 1] /\ <<b, y>> \in H BY <2>2, OnwardIs
  <2>4. PICK s : Trail(H, s, k - 1, a, b) /\ s[2] # a BY <2>3, <1>4 DEF Leaves
  <2> DEFINE m == k - 1
  <2>5. PICK t : Trail(H, t, m + 1, a, y) /\ \A i \in 1..m + 1 : t[i] = s[i]
    <3>1. m \in Nat /\ y \in Ids /\ Trail(H, s, m, a, b) /\ <<b, y>> \in H BY <2>1, <2>2, <2>3, <2>4
    <3> HIDE DEF m, H
    <3> QED BY <3>1, TrailLonger
  <2>6. Trail(H, t, k, a, y) /\ t[2] = s[2] BY <2>1, <2>5
  <2> QED BY <2>4, <2>6 DEF Leaves
<1> HIDE DEF P
<1>5. T = {}
  <2> SUFFICES ASSUME T # {} PROVE FALSE OBVIOUS
  <2>1. PICK k \in T : \A j \in T : k <= j
    <3>1. T \subseteq Nat OBVIOUS
    <3> HIDE DEF T
    <3> QED BY <3>1, LeastNat
  <2>2. k # 1 BY <1>3
  <2>3. k \in 2..M /\ k - 1 \in 1..M /\ ~ (k <= k - 1) BY <2>2, <1>1
  <2>4. P(k - 1) BY <2>1, <2>3
  <2> QED BY <1>4, <2>3, <2>4
<1>6. P(n) BY <1>5 DEF M
<1> QED BY <1>6 DEF P, H, r
\* The shortest closed trail that leaves its start has no circle but itself.
LEMMA ShortestLeaves ==
    ASSUME NEW H, NEW s, NEW n \in Nat \ {0}, NEW a, Trail(H, s, n, a, a), s[2] # a,
           \A m \in 1..n - 1 : ~ Leaves(H, m, a, a)
    PROVE  Simple(s, n) /\ n >= 2
<1>1. s \in [1..n + 1 -> Ids] /\ s[1] = a /\ s[n + 1] = a BY DEF Trail
<1>2. n >= 2
  <2>1. n # 1 BY <1>1
  <2> QED BY <2>1
<1>3. ASSUME NEW i \in 1..n + 1, NEW j \in 1..n + 1, s[i] = s[j], i < j, ~ (i = 1 /\ j = n + 1) PROVE FALSE
  <2>1. CASE i = 1
    <3> DEFINE t == [k \in 1..j |-> s[k]]
    <3>1. Trail(H, t, j - 1, a, s[j]) BY TrailPrefix
    <3>2. s[j] = a BY <1>1, <1>3, <2>1
    <3>3. t[2] = s[2] BY <1>3
    <3> HIDE DEF t
    <3>4. Leaves(H, j - 1, a, a) BY <3>1, <3>2, <3>3 DEF Leaves
    <3>5. j - 1 \in 1..n - 1 BY <1>3, <2>1
    <3> QED BY <3>4, <3>5
  <2>2. CASE i # 1
    <3> DEFINE m == n - (j - i)
               t == [k \in 1..m + 1 |-> IF k <= i THEN s[k] ELSE s[k + (j - i)]]
    <3>1. m \in Nat /\ m < n /\ i <= m + 1 /\ Trail(H, t, m, a, a) BY <1>3, TrailCut
    <3>2. t[2] = s[2] /\ m \in 1..n - 1 BY <3>1, <2>2
    <3> HIDE DEF t, m
    <3>3. Leaves(H, m, a, a) BY <3>1, <3>2 DEF Leaves
    <3> QED BY <3>2, <3>3
  <2> QED BY <2>1, <2>2
<1> QED BY <1>2, <1>3 DEF Simple

\* Closed is a cycle of at least two files, within the depth of the query.
Closed(E, s) == s \in RoutesAlong(E) /\ s[1] = Last(s) /\ Len(s) > 2 /\ Len(s) - 1 <= maxImportCycleDepth

\* A walk back to its start shows a cycle.
LEMMA WalkShowsCycle ==
    ASSUME NEW I, Ends(I), NEW a \in Ids, NEW n \in 1..maxImportCycleDepth, <<a, a>> \in Reach(I)[n]
    PROVE  \E s : Closed(I, s) /\ s[1] = a
<1> DEFINE H == Hops(I)
           P == {m \in Nat \ {0} : Leaves(H, m, a, a)}
<1>1. maxImportCycleDepth \in Nat BY ReadAssumption
<1>2. Leaves(H, n, a, a) BY ReachLeaves
<1>3. n \in P /\ P \subseteq Nat BY <1>1, <1>2
<1>4. PICK m \in P : \A k \in P : m <= k
  <2> HIDE DEF P
  <2> QED BY <1>3, LeastNat
<1>5. m \in Nat \ {0} /\ m <= n /\ Leaves(H, m, a, a) BY <1>3, <1>4
<1>6. PICK s : Trail(H, s, m, a, a) /\ s[2] # a BY <1>5 DEF Leaves
<1>7. \A k \in 1..m - 1 : ~ Leaves(H, k, a, a)
  <2> SUFFICES ASSUME NEW k \in 1..m - 1, Leaves(H, k, a, a) PROVE FALSE OBVIOUS
  <2>1. k \in P /\ ~ (m <= k) BY <1>5
  <2> QED BY <2>1, <1>4
<1> HIDE DEF P, H
<1>8. Simple(s, m) /\ m >= 2 BY <1>5, <1>6, <1>7, ShortestLeaves
<1>9. s \in Routes /\ Len(s) = m + 1
  <2>1. s \in [1..m + 1 -> Ids] BY <1>6 DEF Trail
  <2> QED BY <2>1, <1>5, <1>8, SimpleIsRoute
<1>10. Len(s) - 1 = m BY <1>5, <1>9
<1>11. s[1] = a /\ s[Len(s)] = a BY <1>6, <1>9 DEF Trail
<1>12. s \in RoutesAlong(I) BY <1>5, <1>6, <1>8, <1>9, <1>10, <1>11, RouteIsTrail DEF H
<1>13. Len(s) > 2 /\ Len(s) - 1 <= maxImportCycleDepth BY <1>1, <1>5, <1>8, <1>9
<1> QED BY <1>11, <1>12, <1>13 DEF Closed, Last

\* A cycle is walked back to its start.
LEMMA CycleIsWalked ==
    ASSUME NEW I, Ends(I), NEW s, Closed(I, s)
    PROVE  s[1] \in Ids /\ \E n \in 1..maxImportCycleDepth : <<s[1], s[1]>> \in Reach(I)[n]
<1> DEFINE M == maxImportCycleDepth
           H == Hops(I)
           n == Len(s) - 1
           a == s[1]
           r == Reach(I)
           P(k) == <<a, s[k + 1]>> \in r[k]
           T == {k \in 1..n : ~ P(k)}
<1>1. M \in Nat BY ReadAssumption
<1>2. n \in Nat \ {0} /\ Trail(H, s, n, a, s[Len(s)]) /\ Simple(s, n) BY RouteIsTrail DEF Closed
<1>3. a = s[Len(s)] /\ Len(s) > 2 /\ n <= M BY DEF Closed, Last
<1>4. s \in Routes BY RouteIsTrail DEF Closed
<1>5. n >= 2 /\ n + 1 = Len(s) /\ n \in 1..M
  <2>1. Cardinality(Ids) \in Nat BY FS_CardinalityType, ReadAssumption
  <2>2. PICK k \in 2..Cardinality(Ids) + 1 : s \in [1..k -> Ids] BY <1>4 DEF Routes
  <2>3. k \in Nat BY <2>1
  <2>4. Len(s) = k BY <2>2, <2>3, FunctionLength
  <2> QED BY <2>3, <2>4, <1>1, <1>2, <1>3
<1>6. /\ r \in [1..M -> SUBSET (Ids \X Ids)]
      /\ r[1] = CycleBase(I)
      /\ \A k \in 2..M : r[k] = Onward(I, r[k - 1])
  <2>1. M # 0 BY <1>1, <1>5
  <2> QED BY <2>1, ReachUnfold
<1>7. s[n + 1] = a BY <1>3, <1>5
<1> HIDE DEF r, M, n
<1>8. s \in [1..n + 1 -> Ids] /\ \A k \in 1..n : <<s[k], s[k + 1]>> \in H BY <1>2 DEF Trail
<1>9. ASSUME NEW k \in 2..n PROVE s[k] # a
  <2>1. 1 \in 1..n + 1 /\ k \in 1..n + 1 /\ 1 < k /\ k # n + 1 BY <1>2
  <2> QED BY <2>1, <1>2 DEF Simple
<1>10. a \in Ids BY <1>2, <1>8
<1> HIDE DEF a, H
<1>11. P(1)
  <2>1. 2 \in 2..n /\ 1 \in 1..n /\ 1 + 1 = 2 BY <1>2, <1>5
  <2>2. s[2] # a /\ <<a, s[2]>> \in H BY <2>1, <1>8, <1>9 DEF a
  <2>3. <<a, s[2]>> \in CycleBase(I) BY <2>2 DEF CycleBase, H, Hops
  <2> QED BY <2>1, <2>3, <1>6
<1>12. ASSUME NEW k \in 2..n, P(k - 1) PROVE P(k)
  <2>1. k \in 1..n + 1 /\ k \in 1..n /\ k - 1 + 1 = k /\ k \in 2..M /\ k - 1 \in 1..M BY <1>1, <1>2, <1>5
  <2>2. s[k] \in Ids /\ <<a, s[k]>> \in r[k - 1] /\ a # s[k] /\ <<s[k], s[k + 1]>> \in H
    BY <2>1, <1>8, <1>9, <1>12
  <2>3. r[k - 1] \in SUBSET (Ids \X Ids) BY <2>1, <1>6
  <2>4. <<a, s[k + 1]>> \in Onward(I, r[k - 1]) BY <2>2, <2>3, OnwardIs DEF H
  <2> QED BY <2>1, <2>4, <1>6
<1> HIDE DEF P
<1>13. T = {}
  <2> SUFFICES ASSUME T # {} PROVE FALSE OBVIOUS
  <2>1. PICK k \in T : \A j \in T : k <= j
    <3>1. T \subseteq Nat OBVIOUS
    <3> HIDE DEF T
    <3> QED BY <3>1, LeastNat
  <2>2. k # 1 BY <1>11
  <2>3. k \in 2..n /\ k - 1 \in 1..n /\ ~ (k <= k - 1) BY <2>2, <1>2
  <2>4. P(k - 1) BY <2>1, <2>3
  <2> QED BY <1>12, <2>3, <2>4
<1>14. P(n) BY <1>13, <1>2
<1>15. <<a, a>> \in r[n] BY <1>14, <1>7 DEF P
<1> QED BY <1>5, <1>10, <1>15 DEF a, r, M

\* With any number of pushes at a time, whatever they store: Stats counts
\* exactly the files on an import cycle of at least two.
THEOREM ImportCyclesExactHolds == Spec => []ImportCyclesExact
<1>1. ASSUME RowsOK PROVE ImportCyclesExact
  <2> SUFFICES ASSUME NEW repo \in Repos
               PROVE  ImportCycles(repo) =
                        {s[1] : s \in {t \in RoutesAlong(Imports(repo)) :
                            t[1] = Last(t) /\ Len(t) > 2 /\ Len(t) - 1 <= maxImportCycleDepth}}
    BY DEF ImportCyclesExact
  <2> DEFINE I == Imports(repo)
             C == {s[1] : s \in {t \in RoutesAlong(I) :
                     t[1] = Last(t) /\ Len(t) > 2 /\ Len(t) - 1 <= maxImportCycleDepth}}
  <2>1. \A e \in I : e.from \in Ids /\ e.to \in Ids BY <1>1 DEF RowsOK, EdgeOK, Imports, Rows
  <2>2. ImportCycles(repo) = {id \in Ids : \E n \in 1..maxImportCycleDepth : <<id, id>> \in Reach(I)[n]}
    BY DEF ImportCycles
  <2>3. \A x : x \in C <=> \E s : Closed(I, s) /\ s[1] = x BY DEF Closed
  <2> HIDE DEF I, C
  <2>4. ASSUME NEW a \in Ids, NEW n \in 1..maxImportCycleDepth, <<a, a>> \in Reach(I)[n]
        PROVE  \E s : Closed(I, s) /\ s[1] = a
    BY <2>1, <2>4, WalkShowsCycle DEF Ends
  <2>5. ASSUME NEW s, Closed(I, s)
        PROVE  s[1] \in Ids /\ \E n \in 1..maxImportCycleDepth : <<s[1], s[1]>> \in Reach(I)[n]
    BY <2>1, <2>5, CycleIsWalked DEF Ends
  <2>6. ASSUME NEW x \in ImportCycles(repo) PROVE x \in C BY <2>2, <2>3, <2>4
  <2>7. ASSUME NEW x \in C PROVE x \in ImportCycles(repo) BY <2>2, <2>3, <2>5
  <2>8. ImportCycles(repo) = C BY <2>6, <2>7
  <2> QED BY <2>8 DEF C, I
<1> QED BY <1>1, RowsHold, PTL-----------------------------------------------------------------------------
(* ShortestPath against its definition by routes.                           *)

\* s is a way of n steps from an id, without a repetition, to where it first
\* meets the target if it does.
Path(H, s, n, from, to) ==
    /\ Trail(H, s, n, from, s[n + 1])
    /\ \A i, j \in 1..n + 1 : s[i] = s[j] => i = j
    /\ \A i \in 1..n : s[i] # to

\* The query prolongs paths.
LEMMA GrowIsPath ==
    ASSUME NEW E, Ends(E), NEW n \in Nat, NEW from, NEW to, NEW c, Path(Hops(E), c, n, from, to),
           Last(c) # to, NEW s \in Grow(E, c)
    PROVE  Path(Hops(E), s, n + 1, from, to)
<1> DEFINE H == Hops(E)
<1>1. /\ c \in [1..n + 1 -> Ids] /\ c[1] = from /\ \A i \in 1..n : <<c[i], c[i + 1]>> \in H
      /\ \A i, j \in 1..n + 1 : c[i] = c[j] => i = j
      /\ \A i \in 1..n : c[i] # to
  BY DEF Path, Trail
<1>2. n + 1 \in Nat OBVIOUS
<1>3. c \in Seq(Ids) /\ Len(c) = n + 1 BY <1>1, <1>2, FunctionLength
<1>4. PICK e \in E : e.from = Last(c) /\ e.to \notin ToSet(c) /\ s = Append(c, e.to) BY DEF Grow
<1> DEFINE y == e.to
<1>5. y \in Ids /\ <<c[n + 1], y>> \in H BY <1>3, <1>4 DEF Ends, Hops, Last
<1>6. \A i \in 1..n + 1 : c[i] # y BY <1>1, <1>4 DEF ToSet
<1>7. c[n + 1] # to BY <1>3 DEF Last
<1>8. s = Append(c, y) BY <1>4
<1> HIDE DEF y, H
<1>9. /\ s \in Seq(Ids) /\ Len(s) = n + 2
      /\ \A i \in 1..n + 1 : s[i] = c[i]
      /\ s[n + 2] = y
  <2>1. n + 1 + 1 = n + 2 OBVIOUS
  <2> QED BY <2>1, <1>3, <1>5, <1>8, AppendProperties
<1>10. s \in [1..n + 2 -> Ids] BY <1>9, LenProperties
<1>11. n + 1 + 1 = n + 2 /\ \A i \in 1..n + 2 : i \in 1..n + 1 \/ i = n + 2 OBVIOUS
<1>12. s[1] = from BY <1>1, <1>9
<1>13. ASSUME NEW i \in 1..n + 1 PROVE <<s[i], s[i + 1]>> \in H
  <2>1. CASE i = n + 1 BY <2>1, <1>5, <1>9
  <2>2. CASE i # n + 1
    <3>1. i \in 1..n /\ i + 1 \in 1..n + 1 BY <2>2
    <3> QED BY <3>1, <1>1, <1>9
  <2> QED BY <2>1, <2>2
<1>14. ASSUME NEW i \in 1..n + 2, NEW j \in 1..n + 2, s[i] = s[j] PROVE i = j
  BY <1>1, <1>6, <1>9, <1>11, <1>14
<1>15. ASSUME NEW i \in 1..n + 1 PROVE s[i] # to
  <2>1. i \in 1..n \/ i = n + 1 OBVIOUS
  <2> QED BY <2>1, <1>1, <1>7, <1>9
<1>16. Trail(H, s, n + 1, from, s[n + 1 + 1]) BY <1>10, <1>11, <1>12, <1>13 DEF Trail
<1> QED BY <1>11, <1>14, <1>15, <1>16 DEF Path, H

\* Every longer path is one it prolongs.
LEMMA PathIsGrown ==
    ASSUME NEW E, NEW n \in Nat, NEW from, NEW to, NEW s, Path(Hops(E), s, n + 1, from, to)
    PROVE  \E c : Path(Hops(E), c, n, from, to) /\ Last(c) # to /\ s \in Grow(E, c)
<1> DEFINE H == Hops(E)
           c == [k \in 1..n + 1 |-> s[k]]
<1>0. n + 1 + 1 = n + 2 /\ n + 2 - 1 = n + 1 /\ n + 1 \in Nat /\ n + 2 \in Nat OBVIOUS
<1>1. /\ s \in [1..n + 2 -> Ids] /\ s[1] = from /\ \A i \in 1..n + 1 : <<s[i], s[i + 1]>> \in H
      /\ \A i, j \in 1..n + 2 : s[i] = s[j] => i = j
      /\ \A i \in 1..n + 1 : s[i] # to
  BY <1>0 DEF Path, Trail
<1>2. s \in Seq(Ids) /\ Len(s) = n + 2 BY <1>0, <1>1, FunctionLength
<1>3. \A k \in 1..n + 1 : k \in 1..n + 2 /\ k # n + 2 OBVIOUS
<1>4. c \in [1..n + 1 -> Ids] BY <1>1, <1>3
<1>5. \A k \in 1..n + 1 : c[k] = s[k] OBVIOUS
<1> HIDE DEF c, H
<1>6. c \in Seq(Ids) /\ Len(c) = n + 1 BY <1>0, <1>4, FunctionLength
<1>7. Path(H, c, n, from, to)
  <2>1. 1 \in 1..n + 1 /\ n + 1 \in 1..n + 1 OBVIOUS
  <2>2. ASSUME NEW i \in 1..n PROVE i \in 1..n + 1 /\ i + 1 \in 1..n + 1 OBVIOUS
  <2>3. \A i \in 1..n : <<c[i], c[i + 1]>> \in H /\ c[i] # to BY <2>2, <1>1, <1>5
  <2>4. c[1] = from BY <2>1, <1>1, <1>5
  <2>5. \A i, j \in 1..n + 1 : c[i] = c[j] => i = j BY <1>1, <1>3, <1>5
  <2> QED BY <2>3, <2>4, <2>5, <1>4 DEF Path, Trail
<1>8. n + 1 \in 1..n + 1 /\ n + 2 \in 1..n + 2 OBVIOUS
<1>9. Last(c) = s[n + 1] /\ Last(c) # to BY <1>1, <1>5, <1>6, <1>8 DEF Last
<1> DEFINE y == s[n + 2]
<1>10. y \in Ids /\ <<Last(c), y>> \in H BY <1>0, <1>1, <1>8, <1>9
<1>11. \A k \in 1..n + 1 : c[k] # y BY <1>1, <1>3, <1>5, <1>8
<1>12. y \notin ToSet(c) BY <1>4, <1>11 DEF ToSet
<1>13. s = Append(c, y)
  <2> DEFINE t == Append(c, y)
  <2> HIDE DEF y
  <2>1. /\ t \in Seq(Ids) /\ Len(t) = n + 1 + 1
        /\ \A i \in 1..n + 1 : t[i] = c[i]
        /\ t[n + 1 + 1] = y
    BY <1>6, <1>10, AppendProperties
  <2> HIDE DEF t
  <2>2. Len(t) = Len(s) BY <2>1, <1>0, <1>2
  <2>3. ASSUME NEW i \in 1..Len(s) PROVE s[i] = t[i]
    <3>1. i \in 1..n + 1 \/ i = n + 2 BY <1>2
    <3> QED BY <3>1, <2>1, <1>0, <1>5 DEF y
  <2>4. s = t BY <2>1, <2>2, <2>3, <1>2, SeqEqual
  <2> QED BY <2>4 DEF t
<1>14. PICK e \in E : e.from = Last(c) /\ e.to = y BY <1>10 DEF H, Hops
<1>15. s \in Grow(E, c) BY <1>12, <1>13, <1>14 DEF Grow
<1> QED BY <1>7, <1>9, <1>15 DEF H
\* One round of the recursive query.
Longer(E, to, X) == UNION {Grow(E, c) : c \in {d \in X : Last(d) # to}}

\* The recursive query computes what it says.
LEMMA ChainUnfold ==
    ASSUME NEW E, Ends(E), NEW from \in Ids, NEW to, NEW d \in Nat
    PROVE  /\ ChainWalk(E, from, to, d)[0] = {<<from>>}
           /\ \A n \in 1..d : ChainWalk(E, from, to, d)[n] = Longer(E, to, ChainWalk(E, from, to, d)[n - 1])
<1> DEFINE Is(f) == f = [n \in 0..d |-> IF n = 0 THEN {<<from>>} ELSE Longer(E, to, f[n - 1])]
           S == SUBSET Seq(Ids)
           G == [X \in S |-> Longer(E, to, X)]
           z == {<<from>>}
           w == ChainWalk(E, from, to, d)
<1>1. G \in [S -> S]
  <2> SUFFICES ASSUME NEW X \in S, NEW s \in Longer(E, to, X) PROVE s \in Seq(Ids) OBVIOUS
  <2>1. PICK c \in X : s \in Grow(E, c) BY DEF Longer
  <2>2. PICK e \in E : s = Append(c, e.to) BY <2>1 DEF Grow
  <2>3. c \in Seq(Ids) /\ e.to \in Ids BY <2>1, <2>2 DEF Ends
  <2> QED BY <2>2, <2>3, AppendProperties
<1>2. z \in S OBVIOUS
<1>3. \A X \in S : G[X] = Longer(E, to, X) OBVIOUS
<1>4. w = CHOOSE f : Is(f) BY DEF ChainWalk, Longer
<1> HIDE DEF S, G, w
<1>5. PICK f : Iterates(f, S, z, G, d)
  <2> HIDE DEF z
  <2> QED BY <1>1, <1>2, RecursionExists
<1>6. f \in [0..d -> S] /\ f[0] = {<<from>>} /\ \A n \in 1..d : f[n] = G[f[n - 1]] BY <1>5 DEF Iterates
<1>7. ASSUME NEW n \in 0..d PROVE f[n] = IF n = 0 THEN {<<from>>} ELSE Longer(E, to, f[n - 1])
  <2>1. CASE n = 0 BY <2>1, <1>6
  <2>2. CASE n # 0
    <3>1. n \in 1..d /\ n - 1 \in 0..d BY <2>2
    <3>2. f[n - 1] \in S BY <3>1, <1>6
    <3> QED BY <2>2, <3>1, <3>2, <1>3, <1>6
  <2> QED BY <2>1, <2>2
<1>8. f = [n \in 0..d |-> f[n]] BY <1>6
<1>9. Is(f) BY <1>7, <1>8
<1>10. Is(w)
  <2> HIDE DEF Is
  <2> QED BY <1>4, <1>9, Zenon
<1>11. \A n \in 0..d : w[n] = IF n = 0 THEN {<<from>>} ELSE Longer(E, to, w[n - 1]) BY <1>10
<1> HIDE DEF Is
<1>12. w[0] = {<<from>>} BY <1>11
<1>13. ASSUME NEW n \in 1..d PROVE w[n] = Longer(E, to, w[n - 1])
  <2>1. n \in 0..d /\ n # 0 OBVIOUS
  <2> QED BY <2>1, <1>11
<1> QED BY <1>12, <1>13 DEF w

\* Round n of the query has exactly the paths of n steps.
LEMMA ChainsArePaths ==
    ASSUME NEW E, Ends(E), NEW from \in Ids, NEW to, NEW d \in Nat, NEW n \in 0..d, NEW s
    PROVE  s \in ChainWalk(E, from, to, d)[n] <=> Path(Hops(E), s, n, from, to)
<1> DEFINE H == Hops(E)
           w == ChainWalk(E, from, to, d)
           P(k) == \A c : c \in w[k] <=> Path(H, c, k, from, to)
           T == {k \in 0..d : ~ P(k)}
<1>1. w[0] = {<<from>>} /\ \A k \in 1..d : w[k] = Longer(E, to, w[k - 1]) BY ChainUnfold
<1> HIDE DEF w
<1>2. P(0)
  <2> SUFFICES ASSUME NEW c PROVE c = <<from>> <=> Path(H, c, 0, from, to) BY <1>1
  <2>1. 0 + 1 = 1 /\ 1..1 = {1} /\ 1..0 = {} OBVIOUS
  <2>2. ASSUME c = <<from>> PROVE Path(H, c, 0, from, to)
    <3>1. c \in [1..1 -> Ids] /\ c[1] = from BY <2>2, <2>1
    <3> QED BY <3>1, <2>1 DEF Path, Trail
  <2>3. ASSUME Path(H, c, 0, from, to) PROVE c = <<from>>
    <3>1. c \in [1..1 -> Ids] /\ c[1] = from BY <2>3, <2>1 DEF Path, Trail
    <3>2. c \in Seq(Ids) /\ Len(c) = 1 BY <3>1, FunctionLength
    <3>3. <<from>> \in Seq(Ids) /\ Len(<<from>>) = 1 /\ <<from>>[1] = from OBVIOUS
    <3>4. \A i \in 1..Len(c) : c[i] = <<from>>[i] BY <3>1, <3>2, <3>3, <2>1
    <3> DEFINE t == <<from>>
    <3> HIDE DEF t
    <3>5. t \in Seq(Ids) /\ Len(c) = Len(t) /\ \A i \in 1..Len(c) : c[i] = t[i] BY <3>2, <3>3, <3>4 DEF t
    <3>6. c = t BY <3>2, <3>5, SeqEqual
    <3> QED BY <3>6 DEF t
  <2> QED BY <2>2, <2>3
<1>3. ASSUME NEW k \in 1..d, P(k - 1) PROVE P(k)
  <2> SUFFICES ASSUME NEW c PROVE c \in w[k] <=> Path(H, c, k, from, to) OBVIOUS
  <2> DEFINE m == k - 1
  <2>1. m \in Nat /\ m + 1 = k OBVIOUS
  <2>2. c \in w[k] <=> \E b \in w[m] : Last(b) # to /\ c \in Grow(E, b) BY <1>1 DEF Longer
  <2>3. \A b : b \in w[m] <=> Path(H, b, m, from, to) BY <1>3
  <2> HIDE DEF m, P
  <2>4. ASSUME c \in w[k] PROVE Path(H, c, k, from, to)
    <3>1. PICK b : Path(H, b, m, from, to) /\ Last(b) # to /\ c \in Grow(E, b) BY <2>2, <2>3, <2>4
    <3>2. Path(H, c, m + 1, from, to) BY <3>1, <2>1, GrowIsPath
    <3> QED BY <3>2, <2>1
  <2>5. ASSUME Path(H, c, k, from, to) PROVE c \in w[k]
    <3>1. Path(H, c, m + 1, from, to) BY <2>1, <2>5
    <3>2. \E b : Path(H, b, m, from, to) /\ Last(b) # to /\ c \in Grow(E, b) BY <3>1, <2>1, PathIsGrown
    <3> QED BY <3>2, <2>2, <2>3
  <2> QED BY <2>4, <2>5
<1> HIDE DEF P
<1>4. T = {}
  <2> SUFFICES ASSUME T # {} PROVE FALSE OBVIOUS
  <2>1. PICK k \in T : \A j \in T : k <= j
    <3>1. T \subseteq Nat OBVIOUS
    <3> HIDE DEF T
    <3> QED BY <3>1, LeastNat
  <2>2. k # 0 BY <1>2
  <2>3. k \in 1..d /\ k - 1 \in 0..d /\ ~ (k <= k - 1) BY <2>2
  <2>4. P(k - 1) BY <2>1, <2>3
  <2> QED BY <1>3, <2>3, <2>4
<1>5. P(n) BY <1>4
<1> QED BY <1>5 DEF P, H, w

\* The chains found are the routes between two different ids.
LEMMA FoundAreRoutes ==
    ASSUME NEW E, Ends(E), NEW from \in Ids, NEW to \in Ids, from # to, NEW d \in Nat
    PROVE  {c \in Chains(E, from, to, d) : Last(c) = to} =
             {s \in RoutesAlong(E) : s[1] = from /\ Last(s) = to /\ Len(s) - 1 <= d}
<1> DEFINE H == Hops(E)
           w == ChainWalk(E, from, to, d)
           F == {c \in Chains(E, from, to, d) : Last(c) = to}
           B == {s \in RoutesAlong(E) : s[1] = from /\ Last(s) = to /\ Len(s) - 1 <= d}
<1>1. \A n \in 0..d : \A s : s \in w[n] <=> Path(H, s, n, from, to) BY ChainsArePaths
<1> HIDE DEF w
<1>2. \A s : s \in F <=> Last(s) = to /\ \E n \in 0..d : Path(H, s, n, from, to) BY <1>1 DEF Chains, w
<1> HIDE DEF F
<1>3. ASSUME NEW s \in F PROVE s \in B
  <2>1. PICK n \in 0..d : Path(H, s, n, from, to) BY <1>2
  <2>2. s \in [1..n + 1 -> Ids] /\ s[1] = from /\ Trail(H, s, n, from, s[n + 1]) BY <2>1 DEF Path, Trail
  <2>3. Len(s) = n + 1 /\ n + 1 - 1 = n BY <2>2, FunctionLength
  <2>4. s[n + 1] = to /\ Last(s) = to BY <1>2, <2>3 DEF Last
  <2>5. n \in Nat \ {0} BY <2>2, <2>4
  <2>6. Simple(s, n) BY <2>1 DEF Path, Simple
  <2>7. s \in Routes BY <2>2, <2>5, <2>6, SimpleIsRoute
  <2>8. s \in RoutesAlong(E)
    <3>1. Len(s) - 1 = n /\ s[Len(s)] = s[n + 1] BY <2>3
    <3> QED BY <3>1, <2>2, <2>5, <2>6, <2>7, RouteIsTrail
  <2> QED BY <2>2, <2>3, <2>4, <2>8
<1>4. ASSUME NEW s \in B PROVE s \in F
  <2> DEFINE n == Len(s) - 1
  <2>1. s[1] = from /\ s[Len(s)] = to /\ n <= d /\ Last(s) = to BY DEF Last
  <2>2. n \in Nat \ {0} /\ Trail(H, s, n, from, s[Len(s)]) /\ Simple(s, n) /\ s \in Routes
    BY <2>1, RouteIsTrail
  <2>3. n + 1 = Len(s)
    <3>1. Cardinality(Ids) \in Nat BY FS_CardinalityType, ReadAssumption
    <3>2. PICK k \in 2..Cardinality(Ids) + 1 : s \in [1..k -> Ids] BY <2>2 DEF Routes
    <3>3. k \in Nat BY <3>1
    <3>4. Len(s) = k BY <3>2, <3>3, FunctionLength
    <3> QED BY <3>3, <3>4
  <2> HIDE DEF n
  <2>4. ASSUME NEW i \in 1..n + 1, NEW j \in 1..n + 1, s[i] = s[j] PROVE i = j
    <3>1. s[1] # s[n + 1] BY <2>1, <2>3
    <3>2. ~ (i < j) BY <3>1, <2>2, <2>4 DEF Simple
    <3>3. ~ (j < i) BY <3>1, <2>2, <2>4 DEF Simple
    <3> QED BY <3>2, <3>3, <2>2
  <2>5. ASSUME NEW i \in 1..n PROVE s[i] # to
    <3>1. i \in 1..n + 1 /\ n + 1 \in 1..n + 1 /\ i # n + 1 BY <2>2
    <3> QED BY <3>1, <2>1, <2>3, <2>4
  <2>6. Path(H, s, n, from, to) BY <2>2, <2>3, <2>4, <2>5 DEF Path
  <2>7. n \in 0..d BY <2>1, <2>2
  <2> QED BY <2>1, <2>6, <2>7, <1>2
<1>5. F = B
  <2> HIDE DEF B
  <2> QED BY <1>3, <1>4
<1> QED BY <1>5 DEF F, B
\* With any number of pushes at a time, whatever they store: ShortestPath
\* answers with a shortest route through stored entities, or with none if
\* there is no route or a shortest one misses an entity.
THEOREM ShortestPathShortestHolds == Spec => []ShortestPathShortest
<1>1. ASSUME RowsOK PROVE ShortestPathShortest
  <2> SUFFICES ASSUME NEW repo \in Repos, NEW from \in Ids, NEW to \in Ids, from # to,
                      NEW answer \in ShortestPath(repo, from, to, {}, 0)
               PROVE  LET between == {s \in RoutesAlong(Rows("edges", repo)) :
                                        s[1] = from /\ Last(s) = to /\ Len(s) - 1 <= defaultDepth}
                          best == {s \in between : \A t \in between : Len(s) <= Len(t)}
                      IN IF answer = <<>> THEN best = {} \/ \E s \in best : ~(ToSet(s) \subseteq Stored(repo))
                         ELSE answer \in best /\ ToSet(answer) \subseteq Stored(repo)
    BY DEF ShortestPathShortest
  <2> DEFINE E == Rows("edges", repo)
             S == Stored(repo)
             between == {s \in RoutesAlong(E) : s[1] = from /\ Last(s) = to /\ Len(s) - 1 <= defaultDepth}
             best == {s \in between : \A t \in between : Len(s) <= Len(t)}
             found == {c \in Chains(E, from, to, defaultDepth) : Last(c) = to}
  <2>1. \A e \in E : e.from \in Ids /\ e.to \in Ids BY <1>1 DEF RowsOK, EdgeOK, Rows
  <2>2. defaultDepth \in Nat BY ReadAssumption
  <2>3. Followed(repo, {}, 0, "") = E /\ clampDepth(0) = defaultDepth BY DEF Followed, clampDepth, Clamped
  <2>4. ShortestPath(repo, from, to, {}, 0) =
          IF found = {} THEN {<<>>}
          ELSE {IF ToSet(c) \subseteq S THEN c ELSE <<>> : c \in {b \in found : \A t \in found : Len(b) <= Len(t)}}
    BY <2>3 DEF ShortestPath
  <2>5. found = between
    <3> HIDE DEF E
    <3> QED BY <2>1, <2>2, FoundAreRoutes DEF Ends
  <2>6. ASSUME NEW c \in between PROVE c # <<>>
    <3>1. Len(c) - 1 \in Nat \ {0} BY RouteIsTrail
    <3> QED BY <3>1
  <2>7. best \subseteq between OBVIOUS
  <2>8. answer \in IF between = {} THEN {<<>>} ELSE {IF ToSet(c) \subseteq S THEN c ELSE <<>> : c \in best}
    <3>1. best = {b \in found : \A t \in found : Len(b) <= Len(t)} BY <2>5
    <3> HIDE DEF best, between, found, S
    <3> QED BY <2>4, <2>5, <3>1
  <2> HIDE DEF best, between, found, S
  <2>9. IF answer = <<>> THEN best = {} \/ \E s \in best : ~(ToSet(s) \subseteq S)
        ELSE answer \in best /\ ToSet(answer) \subseteq S
    <3>1. CASE between = {} BY <3>1, <2>7, <2>8
    <3>2. CASE between # {}
      <4>1. PICK c \in best : answer = IF ToSet(c) \subseteq S THEN c ELSE <<>> BY <2>8, <3>2
      <4>2. CASE ToSet(c) \subseteq S BY <4>1, <4>2, <2>6, <2>7
      <4>3. CASE ~ (ToSet(c) \subseteq S) BY <4>1, <4>3
      <4> QED BY <4>2, <4>3
    <3> QED BY <3>1, <3>2
  <2> QED BY <2>9 DEF best, between, S
<1> QED BY <1>1, RowsHold, PTL
=============================================================================
