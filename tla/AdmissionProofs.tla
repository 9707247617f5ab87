-------------------------- MODULE AdmissionProofs --------------------------
(***************************************************************************)
(* Proofs about Admission for any number of clients and background tasks,  *)
(* overlapping or not, and any configuration that Config.validate accepts. *)
(*                                                                         *)
(* A limiter's slots are counted by a channel; the argument is that the    *)
(* count is exactly the number of the class's requests that run, so that   *)
(* the budgets bound the connections which bulk work can hold.             *)
(***************************************************************************)
EXTENDS Admission, TLAPS, FiniteSetTheorems

Classes == {"mem", "graph"}

Inside == {"running", "conn"}

\* The requests of a class past its limiter.
Holders(k) == {a \in Bulk : Class(a) = k /\ phase[a] \in Inside}

Kinds ==
    /\ cfg \in Configs
    /\ validate(cfg)
    /\ phase \in [Actors -> {"idle", "queued", "running", "conn"}]
    /\ slots \in [mem : Nat, graph : Nat]

\* A limited class's channel holds one slot for every request inside, and only
\* requests of a limited class queue.
SlotsExact ==
    /\ \A k \in Classes : slots[k] <= cfg[k] /\ (cfg[k] > 0 => slots[k] = Cardinality(Holders(k)))
    /\ \A a \in Actors : phase[a] = "queued" => Limited(a)

Inv == Kinds /\ SlotsExact

\* The sets of requests inside are finite.
LEMMA HoldersFinite == ASSUME NEW k PROVE IsFiniteSet(Holders(k))
<1>1. IsFiniteSet(Bulk)
  BY AdmissionAssumption, FS_Union DEF Bulk
<1>2. Holders(k) \in SUBSET Bulk
  BY DEF Holders
<1>3. QED
  BY <1>1, <1>2, FS_Subset

\* A request that goes on inside or outside changes no class's holders; one
\* that enters or leaves changes those of its own class by itself.
LEMMA HoldersStep ==
  ASSUME Kinds, NEW a \in Actors, NEW label, Go(a, label), NEW k \in Classes
  PROVE  /\ a \notin Bulk \/ Class(a) # k => Holders(k)' = Holders(k)
         /\ (phase[a] \in Inside <=> label \in Inside) => Holders(k)' = Holders(k)
         /\ a \in Bulk /\ Class(a) = k /\ phase[a] \notin Inside /\ label \in Inside =>
              a \notin Holders(k) /\ Holders(k)' = Holders(k) \cup {a}
         /\ a \in Bulk /\ Class(a) = k /\ phase[a] \in Inside /\ label \notin Inside =>
              a \in Holders(k) /\ Holders(k)' = Holders(k) \ {a}
<1>1. \A b \in Bulk : b \in Actors /\ phase'[b] = IF b = a THEN label ELSE phase[b]
  BY DEF Kinds, Go, Bulk, Clients, Actors
<1>2. Holders(k)' = {b \in Bulk : Class(b) = k /\ phase'[b] \in Inside}
  BY DEF Holders, Class
<1>3. QED
  BY <1>1, <1>2 DEF Holders

\* What the limiters keep holds at the start.
LEMMA InitInv == Init => Inv
<1> SUFFICES ASSUME Init PROVE Inv
  OBVIOUS
<1>1. Kinds
  BY DEF Init, Kinds
<1>2. \A k \in Classes : Holders(k) = {} /\ slots[k] = 0
  BY DEF Init, Holders, Inside, Actors, Clients, Classes
<1>3. Cardinality({}) = 0
  BY FS_EmptySet
<1>4. QED
  BY <1>1, <1>2, <1>3 DEF Init, Inv, SlotsExact, Configs, Classes

\* Every step keeps it.
LEMMA InvStep == ASSUME Inv, [Next]_vars PROVE Inv'
<1> USE DEF Inv
<1>0. \A k \in Classes : /\ cfg[k] \in Nat /\ slots[k] \in Nat
                         /\ Cardinality(Holders(k)) \in Nat
                         /\ IsFiniteSet(Holders(k))
  BY HoldersFinite, FS_CardinalityType DEF Kinds, Configs, Classes
<1>1. ASSUME NEW a \in Actors, NEW label \in {"idle", "queued", "running", "conn"}, Go(a, label),
             UNCHANGED <<cfg, slots>>,
             \/ phase[a] \in Inside <=> label \in Inside
             \/ ~Limited(a),
             label = "queued" => Limited(a)
      PROVE  Inv'
  <2>1. Kinds'
    BY <1>1 DEF Kinds, Go
  <2>2. ASSUME NEW k \in Classes
        PROVE  slots'[k] <= cfg'[k] /\ (cfg'[k] > 0 => slots'[k] = Cardinality(Holders(k)'))
    BY <1>0, <1>1, <2>2, HoldersStep DEF SlotsExact, Limited
  <2>3. \A b \in Actors : phase'[b] = "queued" => Limited(b)'
    BY <1>1 DEF SlotsExact, Limited, Kinds, Go, Class
  <2>4. QED
    BY <2>1, <2>2, <2>3 DEF SlotsExact
<1>2. ASSUME NEW a \in Actors, Limited(a), phase[a] \notin Inside, SlotFree(a), UNCHANGED cfg,
             slots' = [slots EXCEPT ![Class(a)] = @ + 1], Go(a, "running")
      PROVE  Inv'
  <2>0. Class(a) \in Classes /\ a \in Bulk /\ cfg[Class(a)] > 0
    BY <1>2 DEF Class, Classes, Limited
  <2>1. Kinds'
    BY <1>2 DEF Kinds, Go, Class
  <2>2. ASSUME NEW k \in Classes
        PROVE  slots'[k] <= cfg'[k] /\ (cfg'[k] > 0 => slots'[k] = Cardinality(Holders(k)'))
    <3>1. CASE k = Class(a)
      <4>1. a \notin Holders(k) /\ Holders(k)' = Holders(k) \cup {a}
        BY <1>2, <2>0, <3>1, HoldersStep DEF Inside
      <4>2. Cardinality(Holders(k) \cup {a}) = Cardinality(Holders(k)) + 1
        BY <1>0, <4>1, FS_AddElement
      <4>3. slots'[k] = slots[k] + 1
        BY <1>2, <2>0, <3>1 DEF Kinds, Classes
      <4>4. QED
        BY <1>0, <1>2, <2>0, <3>1, <4>1, <4>2, <4>3 DEF SlotsExact, SlotFree
    <3>2. CASE k # Class(a)
      <4>1. Holders(k)' = Holders(k)
        BY <1>2, <3>2, HoldersStep
      <4>2. slots'[k] = slots[k]
        BY <1>2, <2>0, <3>2 DEF Kinds, Classes
      <4>3. QED
        BY <1>2, <4>1, <4>2 DEF SlotsExact
    <3>3. QED
      BY <3>1, <3>2
  <2>3. \A b \in Actors : phase'[b] = "queued" => Limited(b)'
    BY <1>2 DEF SlotsExact, Limited, Kinds, Go, Class
  <2>4. QED
    BY <2>1, <2>2, <2>3 DEF SlotsExact
<1>3. ASSUME NEW a \in Actors, Limited(a), phase[a] \in Inside, UNCHANGED cfg,
             slots' = [slots EXCEPT ![Class(a)] = @ - 1], Go(a, "idle")
      PROVE  Inv'
  <2>0. Class(a) \in Classes /\ a \in Bulk /\ cfg[Class(a)] > 0
    BY <1>3 DEF Class, Classes, Limited
  <2>1. a \in Holders(Class(a)) /\ Holders(Class(a))' = Holders(Class(a)) \ {a}
    <3>1. Class(a)' = Class(a)
      BY DEF Class
    <3>2. QED
      BY <1>3, <2>0, <3>1, HoldersStep DEF Inside
  <2>2. Cardinality(Holders(Class(a)) \ {a}) = Cardinality(Holders(Class(a))) - 1
    BY <1>0, <2>0, <2>1, FS_RemoveElement
  <2>3. Cardinality(Holders(Class(a))) # 0
    BY <1>0, <2>0, <2>1, FS_EmptySet
  <2>4. slots[Class(a)] = Cardinality(Holders(Class(a))) /\ slots[Class(a)] - 1 \in Nat
    BY <1>0, <2>0, <2>3 DEF SlotsExact
  <2>5. Kinds'
    BY <1>3, <2>4 DEF Kinds, Go, Class
  <2>6. ASSUME NEW k \in Classes
        PROVE  slots'[k] <= cfg'[k] /\ (cfg'[k] > 0 => slots'[k] = Cardinality(Holders(k)'))
    <3>1. CASE k = Class(a)
      <4>1. slots'[k] = slots[k] - 1
        BY <1>3, <2>0, <3>1 DEF Kinds, Classes
      <4>2. Holders(k)' = Holders(k) \ {a}
        BY <1>3, <2>0, <3>1, HoldersStep DEF Inside
      <4>3. QED
        BY <1>0, <1>3, <2>0, <2>2, <2>4, <3>1, <4>1, <4>2 DEF SlotsExact
    <3>2. CASE k # Class(a)
      <4>1. Holders(k)' = Holders(k)
        BY <1>3, <3>2, HoldersStep
      <4>2. slots'[k] = slots[k]
        BY <1>3, <2>0, <3>2 DEF Kinds, Classes
      <4>3. QED
        BY <1>3, <4>1, <4>2 DEF SlotsExact
    <3>3. QED
      BY <3>1, <3>2
  <2>7. \A b \in Actors : phase'[b] = "queued" => Limited(b)'
    BY <1>3 DEF SlotsExact, Limited, Kinds, Go, Class
  <2>8. QED
    BY <2>5, <2>6, <2>7 DEF SlotsExact
<1>4. ASSUME NEW a \in Actors, Start(a) \/ Shed(a) \/ GetConn(a) \/ ReleaseConn(a) PROVE Inv'
  BY <1>1, <1>4 DEF Start, Shed, GetConn, ReleaseConn, Inside
<1>5. ASSUME NEW a \in Actors, Arrive(a) PROVE Inv'
  BY <1>1, <1>2, <1>5 DEF Arrive, Inside
<1>6. ASSUME NEW a \in Actors, Admit(a) PROVE Inv'
  BY <1>2, <1>6 DEF Admit, Inside, SlotsExact
<1>7. ASSUME NEW a \in Actors, Finish(a) PROVE Inv'
  BY <1>1, <1>3, <1>7 DEF Finish, Inside
<1>8. CASE UNCHANGED vars
  BY <1>8 DEF vars, Kinds, SlotsExact, Holders, Limited, Class
<1>9. QED
  BY <1>4, <1>5, <1>6, <1>7, <1>8 DEF Next

\* A limiter's channel holds one slot for every request of its class inside,
\* whatever requests arrive, queue, are shed, finish or panic.
THEOREM SlotsExactHolds == Spec => []SlotsExact
<1>1. Inv /\ [Next]_vars => Inv'
  BY InvStep
<1>2. Inv => SlotsExact
  BY DEF Inv
<1>3. QED
  BY <1>1, <1>2, InitInv, PTL DEF Spec

\* Every variable holds a value of its kind and no class exceeds its budget.
THEOREM TypeOKHolds == Spec => []TypeOK
<1>1. Inv /\ [Next]_vars => Inv'
  BY InvStep
<1>2. Inv => TypeOK
  BY DEF Inv, Kinds, SlotsExact, TypeOK, Configs, Classes
<1>3. QED
  BY <1>1, <1>2, InitInv, PTL DEF Spec

\* With both budgets on, bulk requests and background tasks together never hold
\* every connection of the pool, for any configuration that is accepted.
THEOREM PoolHeadroomHolds == Spec => []PoolHeadroom
<1>1. Inv /\ [Next]_vars => Inv'
  BY InvStep
<1>2. Inv => PoolHeadroom
  <2>1. SUFFICES ASSUME Inv, Budgeted PROVE Cardinality(InPhase("conn") \ Readers) < cfg.conns
    BY DEF PoolHeadroom
  <2> DEFINE M == Holders("mem")
             G == Holders("graph")
             B == M \cup G
             All == B \cup Background
  <2>2. /\ IsFiniteSet(M) /\ IsFiniteSet(G) /\ IsFiniteSet(Background)
        /\ Cardinality(M) \in Nat /\ Cardinality(G) \in Nat /\ Cardinality(Background) \in Nat
    BY HoldersFinite, AdmissionAssumption, FS_CardinalityType
  <2>3. /\ IsFiniteSet(B)
        /\ Cardinality(B) \in Nat
        /\ Cardinality(B) <= Cardinality(M) + Cardinality(G)
    <3>1. IsFiniteSet(M \cap G) /\ Cardinality(M \cap G) \in Nat
      BY <2>2, FS_Intersection, FS_CardinalityType
    <3>2. /\ IsFiniteSet(M \cup G)
          /\ Cardinality(M \cup G) = Cardinality(M) + Cardinality(G) - Cardinality(M \cap G)
      BY <2>2, FS_Union
    <3>3. Cardinality(M \cup G) \in Nat
      BY <3>2, FS_CardinalityType
    <3>4. QED
      BY <2>2, <3>1, <3>2, <3>3
  <2> HIDE DEF B
  <2>4. /\ IsFiniteSet(All)
        /\ Cardinality(All) \in Nat
        /\ Cardinality(All) <= Cardinality(B) + Cardinality(Background)
    <3>1. IsFiniteSet(B \cap Background) /\ Cardinality(B \cap Background) \in Nat
      BY <2>3, FS_Intersection, FS_CardinalityType
    <3>2. /\ IsFiniteSet(B \cup Background)
          /\ Cardinality(B \cup Background)
               = Cardinality(B) + Cardinality(Background) - Cardinality(B \cap Background)
      BY <2>2, <2>3, FS_Union
    <3>3. Cardinality(B \cup Background) \in Nat
      BY <3>2, FS_CardinalityType
    <3>4. QED
      BY <2>2, <2>3, <3>1, <3>2, <3>3
  <2>5. InPhase("conn") \ Readers \in SUBSET All
    BY DEF InPhase, Actors, Clients, Holders, Class, Inside, B
  <2> HIDE DEF All, M, G
  <2>6. /\ Cardinality(InPhase("conn") \ Readers) <= Cardinality(All)
        /\ Cardinality(InPhase("conn") \ Readers) \in Nat
    BY <2>4, <2>5, FS_Subset, FS_CardinalityType
  <2>7. Cardinality(M) <= cfg.mem /\ Cardinality(G) <= cfg.graph
    BY <2>1 DEF Inv, SlotsExact, Budgeted, Classes, M, G
  <2>8. cfg.mem \in Nat /\ cfg.graph \in Nat /\ cfg.conns \in Nat
    BY <2>1 DEF Inv, Kinds, Configs
  <2>9. cfg.mem + cfg.graph + Cardinality(Background) < cfg.conns
    BY <2>1 DEF Inv, Kinds, validate, Budgeted
  <2>10. QED
    BY <2>2, <2>3, <2>4, <2>6, <2>7, <2>8, <2>9
<1>3. QED
  BY <1>1, <1>2, InitInv, PTL DEF Spec
=============================================================================
