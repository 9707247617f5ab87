---------------------------- MODULE MCCodeGraph ----------------------------
EXTENDS CodeGraphReads

MCIds == {"a", "b", "c"}
MCFiles == {"f", "g"}

\* The nearest real of 0.3 is also that of 0.30000001.
MCScores == {0, 20000000, 30000000, 30000001, one}
MCReal == [s \in MCScores |-> IF s = 30000000 THEN 30000001 ELSE s]

\* Pushes of at most two rows each, over one or two files, by either extractor,
\* some of them out of scope; the second repository has symbols only.
Body(repo, ext, files) ==
    [repo |-> repo, ext |-> ext, files |-> files, entities |-> <<>>, edges |-> <<>>,
     symbols |-> <<>>, hyperedges |-> <<>>, shas |-> <<>>]

Entity(f) == [id |-> "a", file |-> f]

Edge(f, score, tier) ==
    [from |-> "a", to |-> "b", relation |-> "cites", file |-> f, score |-> score, tier |-> tier]

Symbol(role, f) == [symbol |-> "x", role |-> role, id |-> "a", file |-> f]

Hyper(f, members) == [id |-> "h", file |-> f, members |-> members]

Bodies == {Body("r", x, F) : x \in {"", "semantic"}, F \in {<<"f">>, <<"g">>, <<"f", "g">>}}

MCPushes ==
    Bodies
    \cup {[b EXCEPT !.entities = e] : b \in Bodies,
            e \in {<<Entity("f")>>, <<Entity("g")>>, <<Entity(NoFile)>>, <<Entity("f"), Entity("g")>>}}
    \cup {[b EXCEPT !.edges = e] : b \in Bodies,
            e \in {<<Edge("f", 0, "")>>, <<Edge("g", 30000000, "")>>, <<Edge("f", 20000000, "INFERRED")>>}}
    \cup {[b EXCEPT !.hyperedges = <<Hyper(f, m)>>] : b \in Bodies, f \in MCFiles, m \in {{"a"}, {"b", "c"}}}
    \cup {[Body(r, "ast", <<f>>) EXCEPT !.symbols = <<Symbol(s, f)>>] :
            r \in {"r", "s"}, f \in MCFiles, s \in {"provides", "requires", "exports"}}
    \cup {[Body("r", "semantic", <<f>>) EXCEPT !.edges = <<Edge(f, 30000001, "")>>, !.shas = (f :> "sha")] : f \in MCFiles}

\* The empty database, and every graph of three ids: any of them stored, any
\* edges between them, and one that may have an edge to itself.
AllGraphs ==
    {{[table |-> "entities", repo |-> "r", id |-> i, file |-> "f", ext |-> "ast"] : i \in E}
     \cup {[table |-> "edges", repo |-> "r", from |-> e[1], to |-> e[2], relation |-> "imports",
            file |-> "f", ext |-> "ast", score |-> one, tier |-> "EXTRACTED"] : e \in S} :
        E \in SUBSET MCIds, S \in SUBSET {e \in MCIds \X MCIds : e[1] # e[2] \/ e[1] = "a"}}

\* Rows enough for every limit to cut: two hyperedges of one entity, semantic
\* edges on both sides of the threshold, and symbols shared by several entities.
Shared ==
    LET entities == {EntityRow(Body("r", "ast", <<"f">>), [id |-> i, file |-> "f"]) : i \in MCIds}
        edge(ext, to, relation, score, tier) ==
            EdgeRow(Body("r", ext, <<"f">>),
                [from |-> "a", to |-> to, relation |-> relation, file |-> "f", score |-> score, tier |-> tier])
        hyper(h, members) ==
            {HyperedgeRow(Body("r", "ast", <<"f">>), [id |-> h, file |-> "f"])}
            \cup {MemberRow(Body("r", "ast", <<"f">>), [id |-> h], m) : m \in members}
        symbol(repo, id, role) ==
            SymbolRow(Body(repo, "ast", <<"f">>), [symbol |-> "x", role |-> role, id |-> id, file |-> "f"])
    IN {entities \cup H \cup E \cup S :
          H \in {{}, hyper("h", {"a"}) \cup hyper("k", {"a", "b"})},
          E \in SUBSET {edge("semantic", "b", "cites", 20000000, ""), edge("semantic", "c", "cites", 30000001, ""),
                        edge("", "b", "cites", 30000000, ""), edge("semantic", "b", "rationale_for", 0, "")},
          S \in SUBSET {symbol("r", "a", "provides"), symbol("r", "b", "provides"),
                        symbol("s", "b", "requires"), symbol("s", "c", "requires")}}

MCDatabases == AllGraphs \cup Shared

MCEmpty == {{}}

\* Pushes that store an entity or an edge.
MCStoring == {p \in MCPushes : p.entities # <<>> \/ p.edges # <<>>}
=============================================================================
