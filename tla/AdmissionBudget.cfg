SPECIFICATION FairSpec
CONSTANTS
    MemBulk = {m1, m2, m3}
    GraphBulk = {g1, g2}
    Readers = {d1, d2}
    Background = {b1}
    MaxBudget = 2
    MaxConns = 5
INVARIANT PoolHeadroom
PROPERTY ReadsServed
