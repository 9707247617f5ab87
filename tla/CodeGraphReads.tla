--------------------------- MODULE CodeGraphReads ---------------------------
(***************************************************************************)
(* The read queries of the code graph (internal/codegraph/pgstore.go) as    *)
(* operators on the committed rows, with the clamping of their parameters   *)
(* in service.go, compared with reference definitions and with each other.  *)
(*                                                                          *)
(* An answer is the set of its rows, and a query with a LIMIT is the set of *)
(* the answers it may give.  Ids are not ordered: a LIMIT keeps any rows,   *)
(* but those of the least scores where the query sorts by the score.  Reads *)
(* of several statements are taken on one database; README section 3 says   *)
(* what a push between the statements does.                                 *)
(***************************************************************************)
EXTENDS CodeGraphStore, FiniteSetsExt

CONSTANTS
    Ids,                  \* entity ids, stored or not
    Limits,               \* the limits clients send, 0 without one
    defaultDepth,         \* 3 in the code
    maxDepth,             \* 10 in the code
    maxImportCycleDepth,  \* 20 in the code
    defaultNeighborLimit, maxNeighborLimit,     \* 1000 and 5000
    defaultImportantLimit, maxImportantLimit,   \* 20 and 200
    defaultAmbiguousLimit, maxAmbiguousLimit,   \* 50 and 500
    defaultListLimit, maxListLimit              \* 100 and 500, in the handler

ASSUME ReadAssumption ==
    /\ defaultDepth \in Nat \ {0} /\ maxDepth \in Nat
    /\ defaultDepth <= maxDepth
    /\ maxImportCycleDepth \in Nat
    /\ {defaultNeighborLimit, defaultImportantLimit, defaultAmbiguousLimit, defaultListLimit} \subseteq Nat \ {0}
    /\ {maxNeighborLimit, maxImportantLimit, maxAmbiguousLimit, maxListLimit} \subseteq Nat \ {0}
    /\ Limits \subseteq Nat
    /\ IsFiniteSet(Ids)
    /\ \A p \in Pushes : \A e \in ToSet(p.edges) : e.from \in Ids /\ e.to \in Ids
    /\ \A d \in Databases : \A e \in d : e.table = "edges" => e.from \in Ids /\ e.to \in Ids

Rows(table, repo) == {r \in db : r.table = table /\ r.repo = repo}

Stored(repo) == {e.id : e \in Rows("entities", repo)}

-----------------------------------------------------------------------------
(* Limits.                                                                  *)

\* What LIMIT may leave of an answer.
Cut(rows, limit) ==
    IF Cardinality(rows) <= limit THEN {rows} ELSE {A \in SUBSET rows : Cardinality(A) = limit}

Clamped(n, default, max) == IF n <= 0 THEN default ELSE IF n > max THEN max ELSE n

clampNeighborLimit(n) == Clamped(n, defaultNeighborLimit, maxNeighborLimit)

\* Related and Hyperedges.
clampImportantLimit(n) == Clamped(n, defaultImportantLimit, maxImportantLimit)

clampAmbiguousLimit(n) == Clamped(n, defaultAmbiguousLimit, maxAmbiguousLimit)

clampListLimit(n) == Clamped(n, defaultListLimit, maxListLimit)

clampDepth(d) == Clamped(d, defaultDepth, maxDepth)

-----------------------------------------------------------------------------
(* Walks.                                                                   *)

\* The edges a traversal follows: relations = {} passes all of them, and
\* without a confidence and a tier the query that has no such filter is used.
\* Postgres takes a parameter it compares with the column for a real.
Followed(repo, relations, minConfidence, tier) ==
    {e \in Rows("edges", repo) :
        /\ relations = {} \/ e.relation \in relations
        /\ minConfidence > 0 \/ tier # "" => e.score >= AsReal[minConfidence]
        /\ tier = "" \/ e.tier = tier}

Step(edges, dir, S) ==
    IF dir = "in" THEN {e.from : e \in {x \in edges : x.to \in S}}
                  ELSE {e.to : e \in {x \in edges : x.from \in S}}

\* Seeded fault: DISTINCT ON keeps the greatest depth.
DistinctOn_Deepest(rows) == {x \in rows : \A y \in rows : x[1] = y[1] => y[2] <= x[2]}

\* SELECT DISTINCT ON (id) ... ORDER BY id, depth.
DistinctOn(rows) == {x \in rows : \A y \in rows : x[1] = y[1] => x[2] <= y[2]}

\* The recursive query: walk[n] are the ids reached in n steps, stored or not.
Walk(edges, dir, id, depth) ==
    LET walk[n \in 0..depth] == IF n = 0 THEN {id} ELSE Step(edges, dir, walk[n - 1])
    IN walk

\* The query before its LIMIT: the stored ones with their least depth above 0.
NeighborRows(repo, id, relations, dir, depth, minConfidence, tier) ==
    LET walk == Walk(Followed(repo, relations, minConfidence, tier), dir, id, clampDepth(depth))
    IN DistinctOn(UNION {(walk[n] \cap Stored(repo)) \X {n} : n \in 1..clampDepth(depth)})

Neighbors(repo, id, relations, dir, depth, limit, minConfidence, tier) ==
    Cut(NeighborRows(repo, id, relations, dir, depth, minConfidence, tier), clampNeighborLimit(limit))

Grow(edges, c) == {Append(c, e.to) : e \in {x \in edges : x.from = Last(c) /\ x.to \notin ToSet(c)}}

\* The chains of the recursive query of ShortestPath by their length: no id
\* twice, none continued beyond the target.
ChainWalk(edges, from, to, depth) ==
    LET walk[n \in 0..depth] ==
            IF n = 0 THEN {<<from>>} ELSE UNION {Grow(edges, c) : c \in {d \in walk[n - 1] : Last(d) # to}}
    IN walk

Chains(edges, from, to, depth) ==
    LET walk == ChainWalk(edges, from, to, depth) IN UNION {walk[n] : n \in 0..depth}

\* Seeded fault: ORDER BY depth is missing.
ShortestPath_AnyChain(repo, from, to, relations, depth) ==
    LET found == {c \in Chains(Followed(repo, relations, 0, ""), from, to, clampDepth(depth)) : Last(c) = to}
    IN IF found = {} THEN {<<>>}
       ELSE {IF ToSet(c) \subseteq Stored(repo) THEN c ELSE <<>> : c \in found}

\* The answers ShortestPath may give: any one of the shortest chains, emptied
\* if one of its ids is not stored.  The query joins a chain with '|' and the
\* code splits it again; no id of the model contains one.
ShortestPath(repo, from, to, relations, depth) ==
    LET found == {c \in Chains(Followed(repo, relations, 0, ""), from, to, clampDepth(depth)) : Last(c) = to}
        shortest == {c \in found : \A d \in found : Len(c) <= Len(d)}
    IN IF found = {} THEN {<<>>}
       ELSE {IF ToSet(c) \subseteq Stored(repo) THEN c ELSE <<>> : c \in shortest}

Imports(repo) == {e \in Rows("edges", repo) : e.relation = "imports"}

\* Seeded fault: a file that imports itself starts a cycle.
CycleBase_WithSelf(imports) == {<<e.from, e.to>> : e \in imports}

\* importCycleBaseFilter: imports of oneself do not start a walk.
CycleBase(imports) == {<<e.from, e.to>> : e \in {x \in imports : x.from # x.to}}

\* The ends of the walks of the recursive query, none continued beyond its start.
Reach(imports) ==
    LET reach[n \in 1..maxImportCycleDepth] ==
            IF n = 1 THEN CycleBase(imports)
            ELSE {<<y[1][1], y[2].to>> : y \in
                     {z \in reach[n - 1] \X imports : z[1][1] # z[1][2] /\ z[2].from = z[1][2]}}
    IN reach

\* The import_cycles of Stats: the ids a bounded walk along imports leads back to.
ImportCycles(repo) ==
    LET reach == Reach(Imports(repo)) IN
    {id \in Ids : \E n \in 1..maxImportCycleDepth : <<id, id>> \in reach[n]}

-----------------------------------------------------------------------------
(* The other reads.                                                         *)

\* GetEntity returns edges as stored, unstored ends included.
OutEdges(repo, id) == {e \in Rows("edges", repo) : e.from = id}

InEdges(repo, id) == {e \in Rows("edges", repo) : e.to = id}

\* queryNeighborEntities joins the stored ends.
ExplainOut(repo, id) == {e.to : e \in OutEdges(repo, id)} \cap Stored(repo)

ExplainIn(repo, id) == {e.from : e \in InEdges(repo, id)} \cap Stored(repo)

\* The degree ImportantEntities ranks by.
Degree(repo, id) ==
    Cardinality({e \in OutEdges(repo, id) : e.to # id}) + Cardinality({e \in InEdges(repo, id) : e.from # id})

\* The isolated_entities of Stats.
Isolated(repo) ==
    {id \in Stored(repo) : ~\E e \in Rows("edges", repo) : e.from = id \/ e.to = id}

\* Least scores first.
AmbiguousEdges(repo, limit) ==
    LET rows == {e \in Rows("edges", repo) :
                    e.tier = "AMBIGUOUS" \/ e.score <= AsReal[ambiguousScoreThreshold]}
    IN {A \in Cut(rows, clampAmbiguousLimit(limit)) : \A e \in A, f \in rows \ A : e.score <= f.score}

semanticRelations ==
    {"conceptually_related_to", "semantically_similar_to", "rationale_for", "shares_data_with", "cites"}

\* One row for each edge, greatest scores first.
Related(repo, id, relations, minConfidence, limit) ==
    LET rels == IF relations = {} THEN semanticRelations ELSE relations
        rows == {x \in OutEdges(repo, id) :
                   /\ x.ext = "semantic" /\ x.relation \in rels
                   /\ x.score >= AsReal[minConfidence] /\ x.to \in Stored(repo)}
    IN {A \in Cut(rows, clampImportantLimit(limit)) : \A e \in A, f \in rows \ A : e.score >= f.score}

hyperedgeMembers(repo, h) == {m.member : m \in {x \in Rows("members", repo) : x.id = h}}

\* With an entity: a join of hyperedges and members.
HyperedgeIds(repo, entity) ==
    {h.id : h \in {x \in Rows("hyperedges", repo) : entity = "" \/ entity \in hyperedgeMembers(repo, x.id)}}

Hyperedges(repo, entity, limit) == Cut(HyperedgeIds(repo, entity), clampImportantLimit(limit))

\* Rows of other repositories that have one of the symbols in the role.
Links(repo, symbols, role) ==
    {<<r.repo, r.id, r.symbol>> : r \in
        {x \in db : x.table = "symbols" /\ x.repo # repo /\ x.role = role /\ x.symbol \in symbols}}

SymbolsOf(repo, id, role) == {s.symbol : s \in {x \in Rows("symbols", repo) : x.id = id /\ x.role = role}}

\* crossConsumersQuery: others that require what the entity provides.
Consumers(repo, id, limit) ==
    Cut(Links(repo, SymbolsOf(repo, id, "provides"), "requires"), clampListLimit(limit))

\* Seeded fault: the role of the consumers' query.
Providers_SameRole(repo, id, limit) ==
    Cut(Links(repo, SymbolsOf(repo, id, "requires"), "requires"), clampListLimit(limit))

\* crossProvidersQuery: others that provide what it requires.
Providers(repo, id, limit) ==
    Cut(Links(repo, SymbolsOf(repo, id, "requires"), "provides"), clampListLimit(limit))

-----------------------------------------------------------------------------
(* Properties, at times without an open push: a read sees committed rows.   *)

\* Sequences of ids without a repetition, except that the last may be the first.
Routes ==
    {s \in UNION {[1..n -> Ids] : n \in 2..Cardinality(Ids) + 1} :
        \A i, j \in DOMAIN s : s[i] = s[j] /\ i < j => i = 1 /\ j = Len(s)}

\* Those that follow edges.
RoutesAlong(edges) ==
    LET pairs == {<<e.from, e.to>> : e \in edges}
    IN {s \in Routes : \A i \in 1..Len(s) - 1 : <<s[i], s[i + 1]>> \in pairs}

\* How far an id is from another: the length of the shortest route, if any is
\* of at most maxDepth.
Distances(edges) ==
    LET routes == RoutesAlong(edges)
        least(a, b) == Min({maxDepth + 1} \cup {Len(s) - 1 : s \in {t \in routes : t[1] = a /\ Last(t) = b}})
    IN {<<a, b, least(a, b)>> : a, b \in Ids}

\* The stored ids within a depth from an id, along and against the edges.
After(distances, stored, id, depth) ==
    {<<d[2], d[3]>> : d \in {x \in distances : x[1] = id /\ x[2] \in stored /\ x[3] <= depth}}

Before(distances, stored, id, depth) ==
    {<<d[1], d[3]>> : d \in {x \in distances : x[2] = id /\ x[1] \in stored /\ x[3] <= depth}}

\* What an answer of at most limit rows shows is part of the whole, and the
\* whole if the limit did not cut the answer.
PartOf(part, whole, answer, limit) == part \subseteq whole /\ (Cardinality(answer) < limit => part = whole)

\* Whatever the cycles of the graph, Neighbors has only stored entities that a
\* simple route of at most the clamped depth leads to, each at the length of
\* the shortest one, and all of them unless the answer has reached its limit,
\* in either direction and under a confidence filter.
NeighborsExact ==
    Quiet => \A repo \in Repos, minConfidence \in {0, ambiguousScoreThreshold} :
        LET distances == Distances(Followed(repo, {}, minConfidence, "")) IN
        \A id \in Ids, depth \in 0..maxDepth + 1, limit \in Limits :
            /\ \A answer \in Neighbors(repo, id, {}, "out", depth, limit, minConfidence, "") :
                 PartOf(answer, After(distances, Stored(repo), id, clampDepth(depth)), answer, clampNeighborLimit(limit))
            /\ \A answer \in Neighbors(repo, id, {}, "in", depth, limit, minConfidence, "") :
                 PartOf(answer, Before(distances, Stored(repo), id, clampDepth(depth)), answer, clampNeighborLimit(limit))

\* A path ShortestPath returns is a path of the graph between its ends, of
\* stored entities, and no path is shorter; an empty answer means there is
\* none within the depth, or that a shortest one runs through an id without entity.
ShortestPathShortest ==
    Quiet => \A repo \in Repos :
        LET routes == RoutesAlong(Rows("edges", repo)) IN
        \A from, to \in Ids : from # to =>
            LET between == {s \in routes : s[1] = from /\ Last(s) = to /\ Len(s) - 1 <= defaultDepth}
                best == {s \in between : \A t \in between : Len(s) <= Len(t)}
            IN \A answer \in ShortestPath(repo, from, to, {}, 0) :
                 IF answer = <<>> THEN best = {} \/ \E s \in best : ~(ToSet(s) \subseteq Stored(repo))
                 ELSE answer \in best /\ ToSet(answer) \subseteq Stored(repo)

\* Stats counts exactly the ids on an import cycle of at least two files.
ImportCyclesExact ==
    Quiet => \A repo \in Repos :
        ImportCycles(repo) =
            {s[1] : s \in {t \in RoutesAlong(Imports(repo)) :
                t[1] = Last(t) /\ Len(t) > 2 /\ Len(t) - 1 <= maxImportCycleDepth}}

\* The tier of the row may follow from a score the column keeps as the row's.
TierFollows(e) == \E s \in Scores : AsReal[s] = e.score /\ TierFor(s) = e.tier

LimitedViewsAgree(repo, id, limit) ==
    /\ \A answer \in Neighbors(repo, id, {}, "out", 1, limit, 0, "") :
         PartOf({x[1] : x \in answer}, ExplainOut(repo, id), answer, clampNeighborLimit(limit))
    /\ \A answer \in Neighbors(repo, id, {}, "in", 1, limit, 0, "") :
         PartOf({x[1] : x \in answer}, ExplainIn(repo, id), answer, clampNeighborLimit(limit))
    /\ \A answer \in Related(repo, id, {}, 0, limit) : {e.to : e \in answer} \subseteq ExplainOut(repo, id)
    /\ \A answer \in Hyperedges(repo, id, limit), all \in Hyperedges(repo, "", limit) :
         LET listed == {h \in all : id \in hyperedgeMembers(repo, h)} IN
         /\ Cardinality(answer) < clampImportantLimit(limit) => listed \subseteq answer
         /\ Cardinality(all) < clampImportantLimit(limit) => answer \subseteq listed
    /\ \A answer \in Consumers(repo, id, limit) : \A link \in answer :
         \A back \in Providers(link[1], link[2], limit) :
            <<repo, id, link[3]>> \in back \/ Cardinality(back) = clampListLimit(limit)
    /\ \A answer \in Providers(repo, id, limit) : \A link \in answer :
         \A back \in Consumers(link[1], link[2], limit) :
            <<repo, id, link[3]>> \in back \/ Cardinality(back) = clampListLimit(limit)

\* Different queries about one graph do not contradict each other, for any
\* id a request may ask for (reqIDParam refuses the empty one) and any limit:
\* the neighbours of Neighbors at depth one are those of Explain, all of them
\* unless the limit is reached; what is Related is one of them; an entity
\* without degree has no neighbour but itself and an isolated one none at
\* all; an entity's hyperedges are those listed with it as a member and a
\* consumer of an entity has it as a provider, as far as the other answer has
\* not reached its limit.
ViewsAgree ==
    Quiet => \A repo \in Repos, id \in Ids \ {""} :
        /\ Degree(repo, id) = 0 => ExplainOut(repo, id) \cup ExplainIn(repo, id) \subseteq {id}
        /\ id \in Isolated(repo) => ExplainOut(repo, id) \cup ExplainIn(repo, id) = {}
        /\ \A limit \in Limits : LimitedViewsAgree(repo, id, limit)

\* An edge whose tier follows from its score is listed as ambiguous when it is
\* AMBIGUOUS, unless edges of no greater score fill the answer; and what is
\* listed is AMBIGUOUS, or INFERRED from a score above the threshold that the
\* column rounds to the same real.
AmbiguousListed ==
    Quiet => \A repo \in Repos, limit \in Limits :
        \A answer \in AmbiguousEdges(repo, limit), e \in Rows("edges", repo) : TierFollows(e) =>
            IF e \in answer
            THEN e.tier = "AMBIGUOUS" \/ (e.tier = "INFERRED" /\ e.score = AsReal[ambiguousScoreThreshold])
            ELSE e.tier = "AMBIGUOUS" => /\ Cardinality(answer) = clampAmbiguousLimit(limit)
                                         /\ \A f \in answer : f.score <= e.score
=============================================================================
