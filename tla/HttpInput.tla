------------------------------ MODULE HttpInput ------------------------------
(***************************************************************************)
(* What the handlers (internal/httpapi) make of a request before they call  *)
(* a service, and the limits a query of the code graph reaches the store    *)
(* with, after the clamps of handler and service.  Every failing check      *)
(* answers 400, so their order does not matter.                             *)
(*                                                                          *)
(* A parameter's raw values stand for the classes its parser tells apart.   *)
(***************************************************************************)
EXTENDS Integers, FiniteSets

\* The parameters each handler checks, file by file.
MemoryParams == [createMemory |-> {"body"}, getMemory |-> {}, deleteMemory |-> {}]

IngestParams == [bulk |-> {"body", "items", "reconcile_files", "repo"}, getJob |-> {}]

QueryParams ==
    [r \in {"query", "queryData", "describe"} |-> {"body", "mode", "text", "top_k"}]

EntityParams == [searchEntities |-> {"q"}, getEntity |-> {}, patchEntity |-> {"body"}]

EdgeParams ==
    [listEdges |-> {}, createEdge |-> {"body", "from_entity", "to_entity", "relation"},
     deleteEdge |-> {"edge_id"}]

Walks == {"callers", "callees", "dependents", "dependencies", "resourceGraph"}

WalkParams ==
    [r \in {"neighbors"} \cup Walks |-> {"repo", "id", "min_confidence", "tier", "depth"} \cup
        IF r = "neighbors" THEN {"relation", "direction", "limit"} ELSE {}]

PushParams == [push |-> {"body"}]

LookupParams == [search |-> {"repo", "q", "limit"}, entity |-> {"repo", "id"}]

LinkParams ==
    [fileImports |-> {"repo", "path", "limit"}, crossRepo |-> {"repo", "id", "limit"},
     shortestPath |-> {"repo", "from", "to", "max_depth"}, important |-> {"repo", "limit", "by"}]

SemanticParams ==
    [related |-> {"repo", "id", "min_confidence", "limit"}, hyperedges |-> {"repo", "limit"},
     hyperedge |-> {"repo", "id"}, semanticMisses |-> {"body", "repo", "files"}]

OverviewParams ==
    [communities |-> {"repo", "limit"}, community |-> {"repo", "community", "limit"},
     bridges |-> {"repo", "limit"}, stats |-> {"repo"}, ambiguous |-> {"repo", "limit"},
     explain |-> {"repo", "id"}]

Routes ==
    UNION {DOMAIN MemoryParams, DOMAIN IngestParams, DOMAIN QueryParams, DOMAIN EntityParams,
           DOMAIN EdgeParams, DOMAIN PushParams, DOMAIN LookupParams, DOMAIN WalkParams,
           DOMAIN LinkParams, DOMAIN SemanticParams, DOMAIN OverviewParams}

Params ==
    [r \in Routes |->
       CASE r \in DOMAIN MemoryParams   -> MemoryParams[r]
         [] r \in DOMAIN IngestParams   -> IngestParams[r]
         [] r \in DOMAIN QueryParams    -> QueryParams[r]
         [] r \in DOMAIN EntityParams   -> EntityParams[r]
         [] r \in DOMAIN EdgeParams     -> EdgeParams[r]
         [] r \in DOMAIN PushParams     -> PushParams[r]
         [] r \in DOMAIN LookupParams   -> LookupParams[r]
         [] r \in DOMAIN WalkParams     -> WalkParams[r]
         [] r \in DOMAIN LinkParams     -> LinkParams[r]
         [] r \in DOMAIN SemanticParams -> SemanticParams[r]
         [] r \in DOMAIN OverviewParams -> OverviewParams[r]]

Counts == {"limit", "depth", "max_depth", "top_k"}

Values(p) ==
    CASE p = "body"            -> {"json", "junk"}
      [] p \in Counts          -> {"", "x", "-1", "0", "7", "9999"}
      [] p = "community"       -> {"", "x", "-1", "7"}
      [] p = "min_confidence"  -> {"", "x", "-1", "0.5", "1.5", "NaN"}
      [] p = "tier"            -> {"", "EXTRACTED", "x"}
      [] p = "direction"       -> {"", "in", "x"}
      [] p = "by"              -> {"", "betweenness", "x"}
      [] p = "mode"            -> {"hybrid", "x"}
      [] p = "files"           -> {"", "7", "9999"}
      [] OTHER                 -> {"", "x"}

\* strconv.Atoi on these values, and what a missing count reads as.
Numbers == [v \in {"-1", "0", "7", "9999"} |->
    CASE v = "-1" -> -1 [] v = "0" -> 0 [] v = "7" -> 7 [] v = "9999" -> 9999]

Atoi(v) == IF v = "" THEN 0 ELSE Numbers[v]

\* parsePosInt; a JSON number is an integer already, and a missing one is 0.
parsePosInt(v) == v = "" \/ (v \in DOMAIN Numbers /\ Numbers[v] >= 0)

\* Out of range is what compares as such, which NaN does not.
parseMinConfidence(v) == v \notin {"x", "-1", "1.5"}

maxSemanticMissesFiles == 1000

Valid(route, q, p) ==
    CASE p = "body"           -> q[p] = "json"
      [] p \in Counts         -> parsePosInt(q[p])
      [] p = "community"      -> q[p] \in DOMAIN Numbers
      [] p = "min_confidence" -> parseMinConfidence(q[p])
      [] p = "tier"           -> q[p] \in {"", "EXTRACTED"}
      [] p = "direction"      -> q[p] \in {"", "in"}
      [] p = "by"             -> q[p] \in {"", "betweenness"}
      [] p = "mode"           -> q[p] = "hybrid"
      [] p = "files"          -> q[p] # "" /\ Atoi(q[p]) <= maxSemanticMissesFiles
      [] p = "items"          -> q["items"] # "" \/ q["reconcile_files"] # ""
      [] p = "reconcile_files" -> TRUE
      [] p = "repo" /\ route = "bulk" -> q["repo"] # "" \/ q["reconcile_files"] = ""
      [] OTHER                -> q[p] # ""

Accepts(route, q) == \A p \in Params[route] : Valid(route, q, p)

\* Requests with any values of two parameters and good ones of the others.
Good(p) ==
    CASE p = "body" -> "json" [] p \in Counts \cup {"files", "community"} -> "7" [] p = "mode" -> "hybrid"
      [] p \in {"min_confidence", "tier", "direction", "by"} -> "" [] OTHER -> "x"

Inputs(route) ==
    LET good == [p \in Params[route] |-> Good(p)] IN
    {good} \cup UNION {{[good EXCEPT ![p] = v, ![r] = w] : v \in Values(p), w \in Values(r)} :
                         p, r \in Params[route]}

-----------------------------------------------------------------------------
(* The limits a query reaches the store, or LightRAG, with.                 *)

Clamp(n, default, max) == IF n <= 0 THEN default ELSE IF n > max THEN max ELSE n

\* Seeded fault: the handler leaves lists without a limit of their own alone.
limitOf_ListsUnclamped(route, n) ==
    CASE route \in {"search", "ambiguous"}                      -> Clamp(n, 50, 500)
      [] route \in {"fileImports", "crossRepo"}                 -> n
      [] route = "neighbors"                                    -> Clamp(n, 1000, 5000)
      [] route \in {"query", "queryData", "describe"}           -> Clamp(n, 10, 500)
      [] OTHER                                                  -> Clamp(n, 20, 200)

\* clampListLimit in the handler, clampTopK for LightRAG, the rest in the service.
limitOf(route, n) ==
    CASE route \in {"search", "ambiguous"}                      -> Clamp(n, 50, 500)
      [] route \in {"fileImports", "crossRepo"}                 -> Clamp(n, 100, 500)
      [] route = "neighbors"                                    -> Clamp(n, 1000, 5000)
      [] route \in {"query", "queryData", "describe"}           -> Clamp(n, 10, 500)
      [] OTHER                                                  -> Clamp(n, 20, 200)

clampDepth(n) == Clamp(n, 3, 10)

\* The bounds of the call: 0 where the operation has none.
Bounds(route, q) ==
    LET has(p) == p \in Params[route] IN
    [limit |-> IF has("limit") THEN limitOf(route, Atoi(q["limit"]))
               ELSE IF has("top_k") THEN limitOf(route, Atoi(q["top_k"]))
               ELSE IF route \in Walks THEN limitOf("neighbors", 0) ELSE 0,
     depth |-> IF has("depth") THEN clampDepth(Atoi(q["depth"]))
               ELSE IF has("max_depth") THEN clampDepth(Atoi(q["max_depth"])) ELSE 0,
     confidence |-> IF has("min_confidence") THEN q["min_confidence"] ELSE ""]
=============================================================================
