------------------------- MODULE Derivatives_proofs -------------------------
(***************************************************************************)
(* However many threads, markets and activities there are: the slots       *)
(* suffice and no two threads share one (ManageStateVariables,             *)
(* AssignThreadStateFun), the totals the solver gets are those of a full   *)
(* calculation (World::calc, LogEDFun), and the columns of the Jacobian    *)
(* are what full calculations would make them (fdjac).                     *)
(***************************************************************************)
EXTENDS Derivatives, FiniteSetTheorems, SequenceTheorems, WellFoundedInduction, TLAPS

Assigned == {t \in Threads : local[t] # Unassigned}

SlotType ==
    /\ local \in [Threads -> {Unassigned} \cup Slots]
    /\ queue \in Seq(1..NumThreads)
    /\ col \in [Threads -> Markets \cup {NoMarket}]
    /\ phase \in {"ready", "calc", "columns"}

\* Each slot but that of the base state is in the queue or with one thread.
EachSlotOnce ==
    /\ \A i, k \in 1..Len(queue) : i # k => queue[i] # queue[k]
    /\ \A t \in Assigned : /\ local[t] # 0
                           /\ \A i \in 1..Len(queue) : local[t] # queue[i]
    /\ \A t, u \in Assigned : t # u => local[t] # local[u]

\* There are as many slots as threads.
NoneLost == Cardinality(Assigned) + Len(queue) = NumThreads

SInv ==
    /\ SlotType
    /\ phase = "columns" => EachSlotOnce /\ NoneLost
    /\ \A t \in Threads : AtWork(t) => phase = "columns" /\ t \in Assigned

-----------------------------------------------------------------------------

\* A thread that comes without a slot finds one.
LEMMA QueueNotEmpty ==
    ASSUME SlotType, NoneLost, NEW t \in Threads, t \notin Assigned
    PROVE  queue # <<>>
<1>1. IsFiniteSet(Threads) /\ Cardinality(Threads) = NumThreads
  BY FS_Interval, ActivityAssumption DEF Threads
<1>2. /\ IsFiniteSet(Threads \ {t})
      /\ Cardinality(Threads \ {t}) = NumThreads - 1
  BY <1>1, FS_RemoveElement
<1>3. Assigned \in SUBSET (Threads \ {t})
  BY DEF Assigned
<1>4. Cardinality(Assigned) <= NumThreads - 1
  BY <1>2, <1>3, FS_Subset
<1>5. IsFiniteSet(Assigned)
  BY <1>2, <1>3, FS_Subset
<1>6. Cardinality(Assigned) \in Nat
  BY <1>5, FS_CardinalityType
<1>7. Len(queue) # 0
  BY <1>4, <1>6, ActivityAssumption DEF NoneLost
<1> QED BY <1>7

\* Popping the queue hands a slot over to the thread.
LEMMA SlotPopped ==
    ASSUME SlotType, EachSlotOnce, NoneLost,
           NEW t \in Threads, t \notin Assigned,
           local' = [local EXCEPT ![t] = Head(queue)], queue' = Tail(queue)
    PROVE  /\ local' \in [Threads -> {Unassigned} \cup Slots]
           /\ queue' \in Seq(1..NumThreads)
           /\ Assigned' = Assigned \cup {t}
           /\ EachSlotOnce' /\ NoneLost'
<1>1. queue # <<>>
  BY QueueNotEmpty
<1>2. /\ queue' \in Seq(1..NumThreads) /\ Len(queue') = Len(queue) - 1
      /\ \A i \in 1..Len(queue') : queue'[i] = queue[i + 1]
      /\ Len(queue) \in Nat \ {0}
  BY <1>1 DEF SlotType
<1>3. Head(queue) = queue[1] /\ Head(queue) \in 1..NumThreads
  <2>1. queue \in Seq(1..NumThreads)
    BY DEF SlotType
  <2>2. Head(queue) \in 1..NumThreads
    BY <1>1, <2>1, HeadTailProperties
  <2>3. Head(queue) = queue[1]
    BY <2>1
  <2> QED BY <2>2, <2>3
<1>4. Head(queue) \in Slots /\ Head(queue) # Unassigned /\ Head(queue) # 0
  BY <1>3, ActivityAssumption DEF Slots, NumStates, Unassigned
<1>5. local' \in [Threads -> {Unassigned} \cup Slots]
  BY <1>4 DEF SlotType
<1>6. /\ local'[t] = Head(queue)
      /\ \A u \in Threads \ {t} : local'[u] = local[u]
  BY DEF SlotType
<1>7. Assigned' = Assigned \cup {t}
  BY <1>4, <1>6 DEF Assigned
<1>8. EachSlotOnce'
  <2>1. \A i, k \in 1..Len(queue') : i # k => queue'[i] # queue'[k]
    BY <1>2 DEF EachSlotOnce
  <2>2. \A i \in 1..Len(queue') : queue'[i] # queue[1]
    BY <1>2 DEF EachSlotOnce
  <2>3. \A u \in Assigned' : /\ local'[u] # 0
                             /\ \A i \in 1..Len(queue') : local'[u] # queue'[i]
    <3> SUFFICES ASSUME NEW u \in Assigned'
                 PROVE  /\ local'[u] # 0
                        /\ \A i \in 1..Len(queue') : local'[u] # queue'[i]
      OBVIOUS
    <3>1. CASE u = t
      BY <3>1, <1>3, <1>4, <1>6, <2>2
    <3>2. CASE u # t
      <4>1. u \in Assigned /\ u \in Threads /\ local'[u] = local[u]
        BY <3>2, <1>6, <1>7 DEF Assigned
      <4> QED BY <4>1, <1>2 DEF EachSlotOnce
    <3> QED BY <3>1, <3>2
  <2>4. \A u \in Assigned : u # t /\ local'[u] = local[u] /\ local[u] # Head(queue)
    <3> TAKE u \in Assigned
    <3>1. u \in Threads /\ u # t
      BY DEF Assigned
    <3>2. local[u] # queue[1]
      BY <1>2 DEF EachSlotOnce
    <3> QED BY <3>1, <3>2, <1>3, <1>6
  <2>5. \A u, v \in Assigned' : u # v => local'[u] # local'[v]
    BY <2>4, <1>6, <1>7 DEF EachSlotOnce
  <2> QED BY <2>1, <2>3, <2>5 DEF EachSlotOnce
<1>9. NoneLost'
  <2>1. IsFiniteSet(Threads)
    BY FS_Interval, ActivityAssumption DEF Threads
  <2>2. Assigned \in SUBSET Threads
    BY DEF Assigned
  <2>3. IsFiniteSet(Assigned)
    BY <2>1, <2>2, FS_Subset
  <2>4. /\ Cardinality(Assigned) \in Nat
        /\ Cardinality(Assigned \cup {t}) = Cardinality(Assigned) + 1
    BY <2>3, FS_CardinalityType, FS_AddElement
  <2> QED BY <2>4, <1>2, <1>7 DEF NoneLost
<1> QED BY <1>2, <1>5, <1>7, <1>8, <1>9

LEMMA SlotsInit == Init => SInv
<1> SUFFICES ASSUME Init PROVE SInv
  OBVIOUS
<1>1. 0 \in Slots
  BY ActivityAssumption DEF Slots, NumStates
<1>2. <<>> \in Seq(1..NumThreads)
  OBVIOUS
<1> QED BY <1>1, <1>2 DEF Init, SInv, SlotType, AtWork

LEMMA FDJacSlots == SInv /\ FDJac => SInv'
<1> SUFFICES ASSUME SInv, FDJac PROVE SInv'
  OBVIOUS
<1>1. /\ local' = [t \in Threads |-> Unassigned] /\ queue' = SlotQueue
      /\ phase' = "columns" /\ col' = col /\ phase = "ready"
  BY DEF FDJac
<1>2. /\ queue' \in Seq(1..NumThreads) /\ Len(queue') = NumThreads
      /\ \A i \in 1..NumThreads : queue'[i] = i
  BY <1>1, ActivityAssumption DEF SlotQueue, NumStates
<1>3. SlotType'
  BY <1>1, <1>2 DEF SInv, SlotType
<1>4. Assigned' = {}
  BY <1>1 DEF Assigned
<1>5. EachSlotOnce'
  BY <1>2, <1>4 DEF EachSlotOnce
<1>6. NoneLost'
  BY <1>2, <1>4, FS_EmptySet, ActivityAssumption DEF NoneLost
<1>7. \A t \in Threads : ~AtWork(t)'
  BY <1>1 DEF SInv, AtWork
<1> QED BY <1>3, <1>5, <1>6, <1>7 DEF SInv

LEMMA CopyStateSlots ==
    ASSUME SInv, NEW t \in Threads, NEW m \in Markets, CopyState(t, m)
    PROVE  SInv'
<1>1. phase = "columns" /\ SlotType /\ EachSlotOnce /\ NoneLost
  BY DEF CopyState, SInv
<1>2. ~(local[t] = Unassigned /\ queue = <<>>)
  BY <1>1, QueueNotEmpty DEF Assigned
<1>3. StartColumn(t, m)
  BY <1>2 DEF CopyState
<1>4. phase' = "columns" /\ col' = [col EXCEPT ![t] = m]
  BY <1>1, <1>3 DEF StartColumn
<1>5. col' \in [Threads -> Markets \cup {NoMarket}]
  BY <1>1, <1>4 DEF SlotType
<1>6. \A u \in Threads : AtWork(u)' => u = t \/ AtWork(u)
  BY <1>1, <1>4 DEF AtWork, SlotType
<1>7. \A u \in Threads : AtWork(u)' => u = t \/ u \in Assigned
  BY <1>6 DEF SInv
<1>8. CASE local[t] = Unassigned
  <2>1. local' = [local EXCEPT ![t] = Head(queue)] /\ queue' = Tail(queue)
    BY <1>3, <1>8 DEF StartColumn, Slot
  <2>2. t \notin Assigned
    BY <1>8 DEF Assigned
  <2>3. /\ local' \in [Threads -> {Unassigned} \cup Slots]
        /\ queue' \in Seq(1..NumThreads)
        /\ Assigned' = Assigned \cup {t}
        /\ EachSlotOnce' /\ NoneLost'
    BY <1>1, <2>1, <2>2, SlotPopped
  <2> QED BY <1>4, <1>5, <1>7, <2>3 DEF SInv, SlotType
<1>9. CASE local[t] # Unassigned
  <2>1. local' = local /\ queue' = queue
    BY <1>1, <1>3, <1>9 DEF StartColumn, Slot, SlotType
  <2>2. Assigned' = Assigned /\ t \in Assigned
    BY <2>1, <1>9 DEF Assigned
  <2>3. EachSlotOnce' /\ NoneLost'
    BY <1>1, <2>1, <2>2 DEF EachSlotOnce, NoneLost
  <2> QED BY <1>1, <1>4, <1>5, <1>7, <2>1, <2>2, <2>3 DEF SInv, SlotType
<1> QED BY <1>8, <1>9

\* A step that leaves the slots alone, whatever thread it lets go of.
LEMMA SlotsKept ==
    ASSUME SInv, UNCHANGED <<local, queue>>,
           phase' = phase \/ {phase, phase'} \subseteq {"ready", "calc"},
           \/ col' = col
           \/ \E t \in Threads : col' = [col EXCEPT ![t] = NoMarket]
    PROVE  SInv'
<1>1. Assigned' = Assigned
  BY DEF Assigned
<1>2. phase = "columns" <=> phase' = "columns"
  OBVIOUS
<1>3. phase' \in {"ready", "calc", "columns"}
  BY DEF SInv, SlotType
<1>4. /\ col' \in [Threads -> Markets \cup {NoMarket}]
      /\ \A t \in Threads : AtWork(t)' => AtWork(t)
  BY DEF SInv, SlotType, AtWork
<1>5. EachSlotOnce => EachSlotOnce'
  BY <1>1 DEF EachSlotOnce
<1>6. NoneLost => NoneLost'
  BY <1>1 DEF NoneLost
<1> QED BY <1>1, <1>2, <1>3, <1>4, <1>5, <1>6 DEF SInv, SlotType

LEMMA SlotsStep == SInv /\ [Next]_vars => SInv'
<1> SUFFICES ASSUME SInv, [Next]_vars PROVE SInv'
  OBVIOUS
<1>1. ASSUME NEW p \in [Markets -> Prices], Evaluate(p) PROVE SInv'
  BY <1>1, SlotsKept DEF Evaluate
<1>2. CASE EvaluateEnds
  BY <1>2, SlotsKept DEF EvaluateEnds, workVars
<1>3. CASE FDJac
  BY <1>3, FDJacSlots
<1>4. CASE FDJacEnds
  <2>1. /\ local' = [t \in Threads |-> 0] /\ queue' = queue /\ col' = col
        /\ phase' = "ready" /\ \A t \in Threads : ~AtWork(t)
    BY <1>4 DEF FDJacEnds, workVars
  <2>2. 0 \in Slots
    BY ActivityAssumption DEF Slots, NumStates
  <2>3. SlotType'
    BY <2>1, <2>2 DEF SInv, SlotType
  <2>4. \A t \in Threads : ~AtWork(t)'
    BY <2>1 DEF AtWork
  <2> QED BY <2>1, <2>3, <2>4 DEF SInv
<1>5. ASSUME NEW t \in Threads, ThreadStep(t) PROVE SInv'
  <2>1. ASSUME NEW m \in Markets, CopyState(t, m) PROVE SInv'
    BY <2>1, CopyStateSlots
  <2>2. CASE SetPrice(t)
    BY <2>2, SlotsKept DEF SetPrice, workVars
  <2>3. CASE ColumnEnds(t)
    BY <2>3, SlotsKept DEF ColumnEnds
  <2>4. ASSUME NEW a \in Activities, Calculate(t, a) PROVE SInv'
    BY <2>4, SlotsKept DEF Calculate
  <2>5. CASE ReadTotal(t)
    BY <2>5, SlotsKept DEF ReadTotal
  <2>6. CASE WriteTotal(t)
    BY <2>6, SlotsKept DEF WriteTotal
  <2> QED BY <1>5, <2>1, <2>2, <2>3, <2>4, <2>5, <2>6 DEF ThreadStep
<1>6. CASE UNCHANGED vars
  BY <1>6, SlotsKept DEF vars, workVars
<1> QED BY <1>1, <1>2, <1>3, <1>4, <1>5, <1>6 DEF Next

LEMMA SlotInvariant == Spec => []SInv
BY SlotsInit, SlotsStep, PTL DEF Spec

\* No thread that comes to calculate a column finds the queue of slots empty,
\* so AssignThreadStateFun::operator() does not abort the program.
THEOREM SlotsAlwaysSuffice == Spec => []SlotsSuffice
<1>1. SInv => SlotsSuffice
  BY DEF SInv, SlotType, SlotsSuffice
<1> QED BY SlotInvariant, <1>1, PTL

\* Threads that calculate columns of the Jacobian never work in one slot or in
\* the base state (fdjac, ManageStateVariables::setPartialDeriv).
THEOREM SlotsNeverShared == Spec => []NoSharedSlots
<1>1. SInv => NoSharedSlots
  BY DEF SInv, EachSlotOnce, NoSharedSlots
<1> QED BY SlotInvariant, <1>1, PTL

-----------------------------------------------------------------------------
(* Smallest numbers and subsets: what the inductions below go by *)

LEMMA LeastNumber ==
    ASSUME NEW T \in SUBSET Nat, T # {}
    PROVE  \E m \in T : \A n \in T : m <= n
<1>1. IsWellFoundedOn(OpToRel(<, Nat), Nat)
  BY NatLessThanWellFounded
<1>2. PICK m \in T : \A n \in T : <<n, m>> \notin OpToRel(<, Nat)
  BY <1>1, WFMin, Zenon
<1>3. \A n \in T : ~(n < m)
  BY <1>2 DEF OpToRel
<1>4. \A n \in T : m <= n
  BY <1>3
<1> QED
  BY <1>4

LEMMA SmallestSubset ==
    ASSUME NEW S, IsFiniteSet(S), NEW B \in SUBSET SUBSET S, B # {}
    PROVE  \E m \in B : \A b \in B : b \subseteq m => b = m
<1> DEFINE Sizes == {n \in Nat : \E b \in B : Cardinality(b) = n}
<1>1. \A b \in B : IsFiniteSet(b) /\ Cardinality(b) \in Nat
  BY FS_Subset, FS_CardinalityType
<1>2. Sizes \in SUBSET Nat /\ Sizes # {}
  BY <1>1
<1>3. PICK n \in Sizes : \A k \in Sizes : n <= k
  <2> HIDE DEF Sizes
  <2> QED BY <1>2, LeastNumber
<1>4. PICK m \in B : Cardinality(m) = n
  BY <1>3
<1>5. ASSUME NEW b \in B, b \subseteq m PROVE b = m
  <2>1. Cardinality(b) <= Cardinality(m) /\ (Cardinality(b) = Cardinality(m) => b = m)
    BY <1>1, <1>5, FS_Subset
  <2>2. Cardinality(b) \in Sizes
    BY <1>1
  <2>3. n <= Cardinality(b)
    <3> HIDE DEF Sizes
    <3> QED BY <1>3, <2>2
  <2> QED BY <1>1, <1>4, <2>1, <2>3
<1> QED BY <1>5

-----------------------------------------------------------------------------
(* Sums *)

SumOf(f, S) == MapThenSumSet(LAMBDA a : f[a], S)

\* The sums of the subsets of S, as they are defined by recursion.
IsIter(h, f, S) ==
    h = [s \in SUBSET S |-> IF s = {} THEN 0
                            ELSE f[CHOOSE x \in s : TRUE] + h[s \ {CHOOSE x \in s : TRUE}]]

LEMMA IterUnique ==
    ASSUME NEW f, NEW S, NEW T, NEW h, NEW g, IsIter(h, f, S), IsIter(g, f, T),
           NEW s, IsFiniteSet(s), s \subseteq S, s \subseteq T
    PROVE  h[s] = g[s]
<1> DEFINE B == {u \in SUBSET s : h[u] # g[u]}
<1> SUFFICES ASSUME B # {} PROVE FALSE
  OBVIOUS
<1>1. PICK u \in B : \A v \in B : v \subseteq u => v = u
  <2>1. B \in SUBSET SUBSET s
    OBVIOUS
  <2> HIDE DEF B
  <2> QED BY <2>1, SmallestSubset
<1>2. u \in SUBSET S /\ u \in SUBSET T /\ h[u] # g[u]
  BY <1>1
<1>3. u # {}
  BY <1>2 DEF IsIter
<1>4. PICK x \in u : x = CHOOSE y \in u : TRUE
  BY <1>3
<1>5. h[u] = f[x] + h[u \ {x}] /\ g[u] = f[x] + g[u \ {x}]
  BY <1>2, <1>3, <1>4 DEF IsIter
<1>6. h[u \ {x}] = g[u \ {x}]
  BY <1>1, <1>4
<1> QED BY <1>2, <1>5, <1>6

LEMMA IterExists ==
    ASSUME NEW f, NEW S, IsFiniteSet(S)
    PROVE  \E h : IsIter(h, f, S)
<1> DEFINE B == {u \in SUBSET S : ~ \E h : IsIter(h, f, u)}
<1> SUFFICES ASSUME B # {} PROVE FALSE
  OBVIOUS
<1>1. PICK u \in B : \A v \in B : v \subseteq u => v = u
  <2>1. B \in SUBSET SUBSET S
    OBVIOUS
  <2> HIDE DEF B
  <2> QED BY <2>1, SmallestSubset
<1> DEFINE H(v) == CHOOSE h : IsIter(h, f, v)
<1>2. \A v \in SUBSET u : v # u => IsIter(H(v), f, v)
  BY <1>1
<1> HIDE DEF H
<1> DEFINE G == [s \in SUBSET u |->
                   IF s = {} THEN 0
                   ELSE f[CHOOSE x \in s : TRUE] + H(s \ {CHOOSE x \in s : TRUE})[s \ {CHOOSE x \in s : TRUE}]]
<1>3. ASSUME NEW w \in SUBSET u, w # u PROVE G[w] = H(w)[w]
  <2>1. IsIter(H(w), f, w)
    BY <1>2, <1>3
  <2>2. CASE w = {}
    BY <2>1, <2>2 DEF IsIter
  <2>3. CASE w # {}
    <3>1. PICK y \in w : y = CHOOSE x \in w : TRUE
      BY <2>3
    <3>2. G[w] = f[y] + H(w \ {y})[w \ {y}]
      BY <2>3, <3>1
    <3>3. H(w)[w] = f[y] + H(w)[w \ {y}]
      BY <2>1, <2>3, <3>1 DEF IsIter
    <3>4. w \ {y} \in SUBSET u /\ w \ {y} # u /\ w \ {y} \subseteq w
      BY <3>1
    <3>5. IsIter(H(w \ {y}), f, w \ {y})
      BY <1>2, <3>4
    <3>6. IsFiniteSet(w \ {y})
      BY <3>4, FS_Subset
    <3>7. H(w \ {y})[w \ {y}] = H(w)[w \ {y}]
      BY <2>1, <3>4, <3>5, <3>6, IterUnique
    <3> QED BY <3>2, <3>3, <3>7
  <2> QED BY <2>2, <2>3
<1>4. \A s \in SUBSET u : s # {} =>
          G[s] = f[CHOOSE x \in s : TRUE] + G[s \ {CHOOSE x \in s : TRUE}]
  <2> TAKE s \in SUBSET u
  <2> HAVE s # {}
  <2>1. PICK y \in s : y = CHOOSE x \in s : TRUE
    OBVIOUS
  <2>2. G[s] = f[y] + H(s \ {y})[s \ {y}]
    BY <2>1
  <2>3. G[s \ {y}] = H(s \ {y})[s \ {y}]
    <3>1. s \ {y} \in SUBSET u /\ s \ {y} # u
      BY <2>1
    <3> HIDE DEF G
    <3> QED BY <1>3, <3>1
  <2> HIDE DEF G
  <2> QED BY <2>1, <2>2, <2>3
<1>5. G[{}] = 0 /\ G = [s \in SUBSET u |-> G[s]]
  OBVIOUS
<1>6. IsIter(G, f, u)
  <2> HIDE DEF G
  <2> QED BY <1>4, <1>5 DEF IsIter
<1> QED BY <1>1, <1>6

LEMMA SumIs ==
    ASSUME NEW f, NEW S, IsFiniteSet(S)
    PROVE  \E h : IsIter(h, f, S) /\ SumOf(f, S) = h[S]
<1> DEFINE Rec(h) == h = [s \in SUBSET S |->
                            IF s = {} THEN 0
                            ELSE f[CHOOSE x \in s : TRUE] + h[s \ {CHOOSE x \in s : TRUE}]]
           iter == CHOOSE h : Rec(h)
<1>1. \A h : Rec(h) <=> IsIter(h, f, S)
  BY DEF IsIter
<1>2. SumOf(f, S) = iter[S]
  BY DEF SumOf, MapThenSumSet, MapThenFoldSet
<1>3. \E h : Rec(h)
  <2> HIDE DEF Rec
  <2> QED BY <1>1, IterExists
<1>4. Rec(iter)
  <2> HIDE DEF Rec
  <2> QED BY <1>3
<1> HIDE DEF Rec, iter
<1> QED BY <1>1, <1>2, <1>4

LEMMA SumEmpty ==
    ASSUME NEW f PROVE SumOf(f, {}) = 0
<1>1. PICK h : IsIter(h, f, {}) /\ SumOf(f, {}) = h[{}]
  BY SumIs, FS_EmptySet
<1>2. h[{}] = 0
  BY <1>1 DEF IsIter
<1> QED BY <1>1, <1>2

LEMMA SumChosen ==
    ASSUME NEW f, NEW S, IsFiniteSet(S), S # {}
    PROVE  \E y \in S : SumOf(f, S) = f[y] + SumOf(f, S \ {y})
<1>1. PICK y \in S : y = CHOOSE x \in S : TRUE
  OBVIOUS
<1>2. PICK h : IsIter(h, f, S) /\ SumOf(f, S) = h[S]
  BY SumIs
<1>3. IsFiniteSet(S \ {y})
  BY FS_Subset
<1>4. PICK g : IsIter(g, f, S \ {y}) /\ SumOf(f, S \ {y}) = g[S \ {y}]
  BY <1>3, SumIs
<1>5. h[S] = f[y] + h[S \ {y}]
  BY <1>1, <1>2 DEF IsIter
<1>6. h[S \ {y}] = g[S \ {y}]
  BY <1>2, <1>3, <1>4, IterUnique
<1> QED BY <1>2, <1>4, <1>5, <1>6

LEMMA SumType ==
    ASSUME NEW S, IsFiniteSet(S), NEW f, \A a \in S : f[a] \in Int
    PROVE  SumOf(f, S) \in Int
<1> DEFINE B == {u \in SUBSET S : SumOf(f, u) \notin Int}
<1> SUFFICES ASSUME B # {} PROVE FALSE
  OBVIOUS
<1>1. PICK u \in B : \A v \in B : v \subseteq u => v = u
  <2>1. B \in SUBSET SUBSET S
    OBVIOUS
  <2> HIDE DEF B
  <2> QED BY <2>1, SmallestSubset
<1>2. u # {} /\ IsFiniteSet(u)
  BY <1>1, SumEmpty, FS_Subset
<1>3. PICK y \in u : SumOf(f, u) = f[y] + SumOf(f, u \ {y})
  BY <1>2, SumChosen
<1>4. SumOf(f, u \ {y}) \in Int
  BY <1>1, <1>3
<1> QED BY <1>1, <1>3, <1>4

LEMMA SumRemove ==
    ASSUME NEW S, IsFiniteSet(S), NEW f, \A a \in S : f[a] \in Int, NEW x \in S
    PROVE  SumOf(f, S) = f[x] + SumOf(f, S \ {x})
<1> DEFINE B == {u \in SUBSET S : \E z \in u : SumOf(f, u) # f[z] + SumOf(f, u \ {z})}
<1> SUFFICES ASSUME B # {} PROVE FALSE
  OBVIOUS
<1>1. PICK u \in B : \A v \in B : v \subseteq u => v = u
  <2>1. B \in SUBSET SUBSET S
    OBVIOUS
  <2> HIDE DEF B
  <2> QED BY <2>1, SmallestSubset
<1>2. PICK z \in u : SumOf(f, u) # f[z] + SumOf(f, u \ {z})
  BY <1>1
<1>3. u # {} /\ IsFiniteSet(u)
  BY <1>1, <1>2, FS_Subset
<1>4. PICK y \in u : SumOf(f, u) = f[y] + SumOf(f, u \ {y})
  BY <1>3, SumChosen
<1>5. y # z
  BY <1>2, <1>4
<1>6. \A v \in SUBSET u : v # u => v \notin B
  BY <1>1
<1>7. \A v \in SUBSET u : v # u => \A w \in v : SumOf(f, v) = f[w] + SumOf(f, v \ {w})
  BY <1>6
<1>8. SumOf(f, u \ {y}) = f[z] + SumOf(f, (u \ {y}) \ {z})
  BY <1>4, <1>5, <1>7
<1>9. SumOf(f, u \ {z}) = f[y] + SumOf(f, (u \ {z}) \ {y})
  BY <1>4, <1>5, <1>7
<1>10. SumOf(f, (u \ {z}) \ {y}) = SumOf(f, (u \ {y}) \ {z})
  <2>1. (u \ {z}) \ {y} = (u \ {y}) \ {z}
    OBVIOUS
  <2> QED BY <2>1
<1>11. SumOf(f, (u \ {y}) \ {z}) \in Int
  <2>1. IsFiniteSet((u \ {y}) \ {z})
    BY <1>3, FS_Subset
  <2> QED BY <2>1, SumType
<1>12. f[y] \in Int /\ f[z] \in Int
  BY <1>1, <1>2, <1>4
<1> DEFINE rest == SumOf(f, (u \ {y}) \ {z})
           su == SumOf(f, u)
           sy == SumOf(f, u \ {y})
           sz == SumOf(f, u \ {z})
<1>13. /\ su = f[y] + sy /\ sy = f[z] + rest /\ sz = f[y] + rest
       /\ rest \in Int /\ su # f[z] + sz
  BY <1>2, <1>4, <1>8, <1>9, <1>10, <1>11
<1> HIDE DEF B, rest, su, sy, sz
<1> QED BY <1>12, <1>13

LEMMA SumAdd ==
    ASSUME NEW S, IsFiniteSet(S), NEW f, NEW x, x \notin S,
           \A a \in S \cup {x} : f[a] \in Int
    PROVE  SumOf(f, S \cup {x}) = SumOf(f, S) + f[x]
<1> DEFINE T == S \cup {x}
<1>1. IsFiniteSet(T) /\ T \ {x} = S /\ x \in T
  BY FS_AddElement
<1>2. SumOf(f, T) = f[x] + SumOf(f, S)
  <2>1. SumOf(f, T) = f[x] + SumOf(f, T \ {x})
    BY <1>1, SumRemove
  <2> HIDE DEF T
  <2> QED BY <1>1, <2>1
<1>3. SumOf(f, S) \in Int
  <2>1. \A a \in S : f[a] \in Int
    OBVIOUS
  <2> QED BY <2>1, SumType
<1>4. f[x] \in Int
  OBVIOUS
<1>5. SumOf(f, T) = SumOf(f, S) + f[x]
  <2> HIDE DEF T
  <2> QED BY <1>2, <1>3, <1>4
<1> QED BY <1>5

\* What adding only the differences of some activities comes to.
LEMMA SumDifference ==
    ASSUME NEW S, IsFiniteSet(S), NEW T, T \subseteq S, NEW f, NEW g, NEW d,
           \A a \in S : f[a] \in Int, \A a \in S : g[a] \in Int,
           \A a \in S : a \notin T => g[a] = f[a],
           \A a \in T : d[a] = g[a] - f[a]
    PROVE  SumOf(g, S) = SumOf(f, S) + SumOf(d, T)
<1> DEFINE D == T
<1> SUFFICES SumOf(g, S) = SumOf(f, S) + SumOf(d, S \cap D)
  <2>1. S \cap D = T
    OBVIOUS
  <2> QED BY <2>1
<1> DEFINE B == {u \in SUBSET S : SumOf(g, u) # SumOf(f, u) + SumOf(d, u \cap D)}
<1> SUFFICES ASSUME B # {} PROVE FALSE
  OBVIOUS
<1>1. PICK u \in B : \A v \in B : v \subseteq u => v = u
  <2>1. B \in SUBSET SUBSET S
    OBVIOUS
  <2> HIDE DEF B
  <2> QED BY <2>1, SmallestSubset
<1>2. u # {}
  <2>1. {} \cap D = {}
    OBVIOUS
  <2>2. SumOf(g, {}) = 0 /\ SumOf(f, {}) = 0 /\ SumOf(d, {} \cap D) = 0
    BY <2>1, SumEmpty
  <2>3. {} \notin B
    BY <2>2
  <2> HIDE DEF B
  <2> QED BY <1>1, <2>3
<1>3. PICK x : x \in u
  BY <1>2
<1> DEFINE v == u \ {x}
<1>4. IsFiniteSet(u) /\ IsFiniteSet(v) /\ IsFiniteSet(u \cap D) /\ IsFiniteSet(v \cap D)
  BY <1>1, FS_Subset
<1>5. SumOf(g, v) = SumOf(f, v) + SumOf(d, v \cap D)
  BY <1>1, <1>3
<1>6. SumOf(g, u) = g[x] + SumOf(g, v) /\ SumOf(f, u) = f[x] + SumOf(f, v)
  BY <1>1, <1>3, <1>4, SumRemove
<1>7. SumOf(g, v) \in Int /\ SumOf(f, v) \in Int /\ SumOf(d, v \cap D) \in Int
  <2>1. \A a \in v \cap D : d[a] \in Int
    BY <1>1
  <2> QED BY <1>1, <1>4, <2>1, SumType
<1>8. f[x] \in Int /\ g[x] \in Int
  BY <1>1, <1>3
<1>9. CASE x \in D
  <2>1. (u \cap D) \ {x} = v \cap D /\ x \in u \cap D
    BY <1>3, <1>9
  <2>2. \A a \in u \cap D : d[a] \in Int
    BY <1>1
  <2>3. SumOf(d, u \cap D) = d[x] + SumOf(d, v \cap D)
    BY <1>4, <2>1, <2>2, SumRemove
  <2>4. d[x] = g[x] - f[x]
    BY <1>1, <2>1
  <2> HIDE DEF v
  <2>5. SumOf(g, u) = SumOf(f, u) + SumOf(d, u \cap D)
    BY <1>5, <1>6, <1>7, <1>8, <2>3, <2>4
  <2> QED BY <1>1, <2>5
<1>10. CASE x \notin D
  <2>1. u \cap D = v \cap D
    BY <1>10
  <2>2. g[x] = f[x]
    BY <1>1, <1>3, <1>10
  <2>3. SumOf(g, u) = SumOf(f, u) + SumOf(d, u \cap D)
    <3>1. SumOf(d, u \cap D) = SumOf(d, v \cap D)
      BY <2>1
    <3> HIDE DEF v, B
    <3> QED BY <1>5, <1>6, <1>7, <1>8, <2>2, <3>1
  <2> QED BY <1>1, <2>3
<1> QED BY <1>9, <1>10

-----------------------------------------------------------------------------
(* The results of a calculation, and what a price reaches *)

\* What the provers need to know of the results: the model calculates numbers.
ResultsAreNumbers ==
    \A a \in Activities : \A x, y \in Int : Result(a, x, y) \in Int

LEMMA ActivityNumbers ==
    /\ NumActivities \in Nat /\ Activities \in SUBSET Nat /\ IsFiniteSet(Activities)
    /\ \A a \in Activities : /\ a > 0 /\ Input[a] < a
                             /\ Input[a] # 0 => Input[a] \in Activities /\ Input[a] \notin Silent
                             /\ ReadsPrice[a] \in Markets /\ AddsTo[a] \in Markets
<1>1. NumActivities \in Nat /\ Activities \in SUBSET Nat
  BY ActivityAssumption DEF Activities
<1>2. IsFiniteSet(Activities)
  BY <1>1, FS_Interval DEF Activities
<1>3. ASSUME NEW a \in Activities
      PROVE  /\ a > 0 /\ Input[a] < a
             /\ Input[a] # 0 => Input[a] \in Activities /\ Input[a] \notin Silent
             /\ ReadsPrice[a] \in Markets /\ AddsTo[a] \in Markets
  <2>1. Input[a] \in 0..NumActivities /\ Input[a] < a /\ Input[a] \notin Silent
    BY ActivityAssumption
  <2> QED BY <2>1, <1>1, ActivityAssumption DEF Activities
<1> QED BY <1>1, <1>2, <1>3

\* A property of all activities, shown for one whose input has it.
LEMMA FirstActivity ==
    ASSUME NEW B \in SUBSET Activities, B # {}
    PROVE  \E a \in B : Input[a] # 0 => Input[a] \in Activities \ B
<1>1. B \in SUBSET Nat
  BY ActivityNumbers
<1>2. PICK a \in B : \A b \in B : a <= b
  BY <1>1, LeastNumber
<1>3. a \in Nat /\ Input[a] < a /\ (Input[a] # 0 => Input[a] \in Activities)
  BY ActivityNumbers
<1>4. ASSUME Input[a] # 0 PROVE Input[a] \notin B
  <2>1. Input[a] \in Nat
    BY <1>3, <1>4, ActivityNumbers
  <2> QED BY <1>2, <1>3, <2>1
<1> QED BY <1>3, <1>4

\* The recursion up to the activity n.
ResultsUpTo(f, p, n) ==
    f = [a \in 1..n |-> Result(a, p[ReadsPrice[a]], IF Input[a] = 0 THEN 0 ELSE f[Input[a]])]

ReachedUpTo(f, m, n) ==
    f = [a \in 1..n |-> ReadsPrice[a] = m \/ (Input[a] # 0 /\ f[Input[a]])]

LEMMA ResultsExist ==
    ASSUME NEW p PROVE \E f : ResultsUpTo(f, p, NumActivities)
<1> DEFINE B == {n \in 0..NumActivities : ~ \E f : ResultsUpTo(f, p, n)}
<1> SUFFICES ASSUME B # {} PROVE FALSE
  BY ActivityNumbers
<1>1. PICK n \in B : \A k \in B : n <= k
  <2>1. B \in SUBSET Nat
    BY ActivityNumbers
  <2> HIDE DEF B
  <2> QED BY <2>1, LeastNumber
<1>2. n \in 0..NumActivities /\ n \in Nat
  BY <1>1, ActivityNumbers
<1>3. n # 0
  <2> DEFINE f == [a \in 1..0 |-> 0]
  <2>1. ResultsUpTo(f, p, 0)
    BY DEF ResultsUpTo
  <2> QED BY <1>1, <2>1
<1>4. PICK f : ResultsUpTo(f, p, n - 1)
  <2>1. n - 1 \in 0..NumActivities /\ ~(n - 1 >= n)
    BY <1>2, <1>3, ActivityNumbers
  <2> QED BY <1>1, <2>1
<1>5. \A a \in 1..n : a \in Activities /\ Input[a] \in 0..n - 1
  BY <1>2, ActivityNumbers DEF Activities
<1> DEFINE g == [a \in 1..n |-> Result(a, p[ReadsPrice[a]], IF Input[a] = 0 THEN 0 ELSE f[Input[a]])]
<1>6. \A b \in 1..n - 1 : f[b] = Result(b, p[ReadsPrice[b]], IF Input[b] = 0 THEN 0 ELSE f[Input[b]])
  BY <1>4 DEF ResultsUpTo
<1>7. \A b \in 1..n - 1 : b \in 1..n
  BY <1>2
<1>8. \A b \in 1..n - 1 : g[b] = f[b]
  BY <1>6, <1>7
<1>9. \A a \in 1..n : (IF Input[a] = 0 THEN 0 ELSE f[Input[a]]) = IF Input[a] = 0 THEN 0 ELSE g[Input[a]]
  <2> HIDE DEF g
  <2> TAKE a \in 1..n
  <2>1. Input[a] # 0 => Input[a] \in 1..n - 1
    BY <1>2, <1>5
  <2> QED BY <1>8, <2>1
<1>10. \A a \in 1..n : g[a] = Result(a, p[ReadsPrice[a]], IF Input[a] = 0 THEN 0 ELSE g[Input[a]])
  <2> TAKE a \in 1..n
  <2>1. g[a] = Result(a, p[ReadsPrice[a]], IF Input[a] = 0 THEN 0 ELSE f[Input[a]])
    OBVIOUS
  <2> HIDE DEF g
  <2> QED BY <1>9, <2>1
<1>11. g = [a \in 1..n |-> g[a]]
  OBVIOUS
<1>12. ResultsUpTo(g, p, n)
  <2> HIDE DEF g
  <2> QED BY <1>10, <1>11 DEF ResultsUpTo
<1> QED BY <1>1, <1>12

LEMMA ResultsAre ==
    ASSUME NEW p
    PROVE  \A a \in Activities :
              Results(p)[a] = Result(a, p[ReadsPrice[a]],
                                     IF Input[a] = 0 THEN 0 ELSE Results(p)[Input[a]])
<1> DEFINE Rec(f) == f = [a \in Activities |->
                             Result(a, p[ReadsPrice[a]], IF Input[a] = 0 THEN 0 ELSE f[Input[a]])]
<1>1. \A f : Rec(f) <=> ResultsUpTo(f, p, NumActivities)
  BY DEF ResultsUpTo, Activities
<1>2. Results(p) = CHOOSE f : Rec(f)
  BY DEF Results
<1>3. Rec(Results(p))
  <2> HIDE DEF Rec
  <2> QED BY <1>1, <1>2, ResultsExist
<1> DEFINE R == Results(p)
<1>4. Rec(R)
  BY <1>3
<1> HIDE DEF R
<1>5. \A a \in Activities :
          R[a] = Result(a, p[ReadsPrice[a]], IF Input[a] = 0 THEN 0 ELSE R[Input[a]])
  BY <1>4
<1> QED BY <1>5 DEF R

LEMMA ReachedExists ==
    ASSUME NEW m PROVE \E f : ReachedUpTo(f, m, NumActivities)
<1> DEFINE B == {n \in 0..NumActivities : ~ \E f : ReachedUpTo(f, m, n)}
<1> SUFFICES ASSUME B # {} PROVE FALSE
  BY ActivityNumbers
<1>1. PICK n \in B : \A k \in B : n <= k
  <2>1. B \in SUBSET Nat
    BY ActivityNumbers
  <2> HIDE DEF B
  <2> QED BY <2>1, LeastNumber
<1>2. n \in 0..NumActivities /\ n \in Nat
  BY <1>1, ActivityNumbers
<1>3. n # 0
  <2> DEFINE f == [a \in 1..0 |-> TRUE]
  <2>1. ReachedUpTo(f, m, 0)
    BY DEF ReachedUpTo
  <2> QED BY <1>1, <2>1
<1>4. PICK f : ReachedUpTo(f, m, n - 1)
  <2>1. n - 1 \in 0..NumActivities /\ ~(n - 1 >= n)
    BY <1>2, <1>3, ActivityNumbers
  <2> QED BY <1>1, <2>1
<1>5. \A a \in 1..n : a \in Activities /\ Input[a] \in 0..n - 1
  BY <1>2, ActivityNumbers DEF Activities
<1> DEFINE g == [a \in 1..n |-> ReadsPrice[a] = m \/ (Input[a] # 0 /\ f[Input[a]])]
<1>6. \A b \in 1..n - 1 : f[b] = (ReadsPrice[b] = m \/ (Input[b] # 0 /\ f[Input[b]]))
  BY <1>4 DEF ReachedUpTo
<1>7. \A b \in 1..n - 1 : b \in 1..n
  BY <1>2
<1>8. \A b \in 1..n - 1 : g[b] = f[b]
  BY <1>6, <1>7
<1>9. \A a \in 1..n : (Input[a] # 0 /\ f[Input[a]]) = (Input[a] # 0 /\ g[Input[a]])
  <2> HIDE DEF g
  <2> TAKE a \in 1..n
  <2>1. Input[a] # 0 => Input[a] \in 1..n - 1
    BY <1>2, <1>5
  <2> QED BY <1>8, <2>1
<1>10. \A a \in 1..n : g[a] = (ReadsPrice[a] = m \/ (Input[a] # 0 /\ g[Input[a]]))
  <2> TAKE a \in 1..n
  <2>1. g[a] = (ReadsPrice[a] = m \/ (Input[a] # 0 /\ f[Input[a]]))
    OBVIOUS
  <2> HIDE DEF g
  <2> QED BY <1>9, <2>1
<1>11. g = [a \in 1..n |-> g[a]]
  OBVIOUS
<1>12. ReachedUpTo(g, m, n)
  <2> HIDE DEF g
  <2> QED BY <1>10, <1>11 DEF ReachedUpTo
<1> QED BY <1>1, <1>12

\* An activity depends on a price it reads or that its input depends on.
LEMMA DependenciesAre ==
    ASSUME NEW m
    PROVE  /\ Dependencies(m) \in SUBSET Activities
           /\ \A a \in Activities :
                 a \in Dependencies(m) <=>
                    ReadsPrice[a] = m \/ (Input[a] # 0 /\ Input[a] \in Dependencies(m))
<1> DEFINE Rec(f) == f = [a \in Activities |-> ReadsPrice[a] = m \/ (Input[a] # 0 /\ f[Input[a]])]
           reached == CHOOSE f : Rec(f)
<1>1. \A f : Rec(f) <=> ReachedUpTo(f, m, NumActivities)
  BY DEF ReachedUpTo, Activities
<1>2. Dependencies(m) = {a \in Activities : reached[a]}
  BY DEF Dependencies
<1>3. Rec(reached)
  <2> HIDE DEF Rec
  <2> QED BY <1>1, ReachedExists
<1> HIDE DEF reached
<1>4. \A a \in Activities : reached[a] = (ReadsPrice[a] = m \/ (Input[a] # 0 /\ reached[Input[a]]))
  BY <1>3
<1> HIDE DEF Rec
<1>5. \A a \in Activities : Input[a] # 0 => Input[a] \in Activities
  BY ActivityNumbers
<1> QED BY <1>2, <1>4, <1>5

LEMMA ResultsType ==
    ASSUME ResultsAreNumbers, NEW p \in [Markets -> Int]
    PROVE  \A a \in Activities : Results(p)[a] \in Int
<1> DEFINE B == {a \in Activities : Results(p)[a] \notin Int}
<1> SUFFICES ASSUME B # {} PROVE FALSE
  OBVIOUS
<1>1. PICK a \in B : Input[a] # 0 => Input[a] \in Activities \ B
  <2> HIDE DEF B
  <2>1. B \in SUBSET Activities
    BY DEF B
  <2> QED BY <2>1, FirstActivity
<1>2. a \in Activities /\ p[ReadsPrice[a]] \in Int
  BY <1>1, ActivityNumbers
<1>3. (IF Input[a] = 0 THEN 0 ELSE Results(p)[Input[a]]) \in Int
  BY <1>1
<1>4. Results(p)[a] \in Int
  BY <1>2, <1>3, ResultsAre DEF ResultsAreNumbers
<1> QED BY <1>1, <1>4

\* A price that an activity does not depend on does not change its result.
LEMMA OutsideUnchanged ==
    ASSUME NEW m \in Markets, NEW p, NEW q, \A k \in Markets \ {m} : p[k] = q[k]
    PROVE  \A a \in Activities \ Dependencies(m) : Results(p)[a] = Results(q)[a]
<1> DEFINE B == {a \in Activities \ Dependencies(m) : Results(p)[a] # Results(q)[a]}
<1> SUFFICES ASSUME B # {} PROVE FALSE
  OBVIOUS
<1>1. PICK a \in B : Input[a] # 0 => Input[a] \in Activities \ B
  <2> HIDE DEF B
  <2>1. B \in SUBSET Activities
    BY DEF B
  <2> QED BY <2>1, FirstActivity
<1>2. a \in Activities /\ a \notin Dependencies(m) /\ Results(p)[a] # Results(q)[a]
  BY <1>1
<1>3. ReadsPrice[a] # m /\ (Input[a] # 0 => Input[a] \notin Dependencies(m))
  BY <1>2, DependenciesAre
<1>4. p[ReadsPrice[a]] = q[ReadsPrice[a]]
  BY <1>2, <1>3, ActivityNumbers
<1>5. (IF Input[a] = 0 THEN 0 ELSE Results(p)[Input[a]]) = IF Input[a] = 0 THEN 0 ELSE Results(q)[Input[a]]
  BY <1>1, <1>3
<1> QED BY <1>2, <1>4, <1>5, ResultsAre

-----------------------------------------------------------------------------
(* Types, and who is at what *)

\* Nobody is at an activity that is waiting or done, or that another thread is
\* at; between calculations nobody is at anything, and works on the base state.
Taken ==
    /\ phase # "columns" => \A t \in Threads : local[t] = 0
    /\ phase = "columns" => \A t \in Threads : act[t] # 0 => AtWork(t)
    /\ phase = "ready" => \A t \in Threads : act[t] = 0
    /\ phase = "calc" =>
          /\ todo \cap done = {}
          /\ \A t \in Threads : act[t] \notin todo \cup done
          /\ \A t, u \in Threads : t # u /\ act[t] # 0 => act[t] # act[u]
    /\ \A t \in loaded : act[t] # 0

TInv == TypeOK /\ SInv /\ Taken

LEMMA StateFields ==
    ASSUME NEW s \in State
    PROVE  /\ s.price \in [Markets -> Int] /\ s.result \in [Activities -> Int]
           /\ s.total \in [Markets -> Int]
           /\ \A p \in [Markets -> Int] :
                 /\ [s EXCEPT !.price = p] \in State
                 /\ [s EXCEPT !.price = p, !.total = [m \in Markets |-> 0]] \in State
           /\ \A a \in Activities, n \in Int : [s EXCEPT !.result[a] = n] \in State
           /\ \A m \in Markets, n \in Int : [s EXCEPT !.total[m] = n] \in State
<1>1. /\ s.price \in [Markets -> Int] /\ s.result \in [Activities -> Int]
      /\ s.total \in [Markets -> Int]
      /\ s = [price |-> s.price, result |-> s.result, total |-> s.total]
  BY DEF State
<1>2. ASSUME NEW p \in [Markets -> Int], NEW r \in [Activities -> Int], NEW x \in [Markets -> Int]
      PROVE  [price |-> p, result |-> r, total |-> x] \in State
  BY DEF State
<1>0. ASSUME NEW q \in State, NEW z \in [Markets -> Int] PROVE [q EXCEPT !.total = z] \in State
  <2>1. /\ q.price \in [Markets -> Int] /\ q.result \in [Activities -> Int]
        /\ q = [price |-> q.price, result |-> q.result, total |-> q.total]
    BY DEF State
  <2>2. [q EXCEPT !.total = z] = [price |-> q.price, result |-> q.result, total |-> z]
    BY <2>1
  <2> QED BY <1>2, <2>1, <2>2
<1>3. ASSUME NEW p \in [Markets -> Int]
      PROVE  /\ [s EXCEPT !.price = p] \in State
             /\ [s EXCEPT !.price = p, !.total = [m \in Markets |-> 0]] \in State
  <2>1. PICK z : z = [m \in Markets |-> 0]
    OBVIOUS
  <2>0. z \in [Markets -> Int]
    BY <2>1
  <2>2. [s EXCEPT !.price = p] = [price |-> p, result |-> s.result, total |-> s.total]
    BY <1>1
  <2>3. [s EXCEPT !.price = p, !.total = z] = [[s EXCEPT !.price = p] EXCEPT !.total = z]
    OBVIOUS
  <2>4. [s EXCEPT !.price = p] \in State
    BY <1>1, <1>2, <2>2
  <2>5. [s EXCEPT !.price = p] \in State /\ [s EXCEPT !.price = p, !.total = z] \in State
    BY <1>0, <2>0, <2>3, <2>4
  <2> QED BY <2>1, <2>5
<1>4. ASSUME NEW a \in Activities, NEW n \in Int PROVE [s EXCEPT !.result[a] = n] \in State
  <2>1. [s EXCEPT !.result[a] = n] = [price |-> s.price, result |-> [s.result EXCEPT ![a] = n], total |-> s.total]
    BY <1>1
  <2>2. [s.result EXCEPT ![a] = n] \in [Activities -> Int]
    BY <1>1
  <2> QED BY <1>1, <1>2, <2>1, <2>2
<1>5. ASSUME NEW m \in Markets, NEW n \in Int PROVE [s EXCEPT !.total[m] = n] \in State
  <2>1. [s EXCEPT !.total[m] = n] = [price |-> s.price, result |-> s.result, total |-> [s.total EXCEPT ![m] = n]]
    BY <1>1
  <2>2. [s.total EXCEPT ![m] = n] \in [Markets -> Int]
    BY <1>1
  <2> QED BY <1>1, <1>2, <2>1, <2>2
<1> QED BY <1>1, <1>3, <1>4, <1>5

LEMMA BumpType ==
    ASSUME NEW p \in [Markets -> Int], NEW m \in Markets
    PROVE  /\ Bump(p, m) \in [Markets -> Int] /\ Bump(p, m) # p
           /\ \A k \in Markets \ {m} : p[k] = Bump(p, m)[k]
<1>1. Bump(p, m)[m] = p[m] + 1 /\ p[m] \in Int
  BY DEF Bump
<1> QED BY <1>1 DEF Bump

\* A thread that is at work or at an activity has a slot.
LEMMA SlotOf ==
    ASSUME TInv, NEW t \in Threads, AtWork(t) \/ act[t] # 0 \/ phase = "calc"
    PROVE  /\ local[t] \in Slots /\ mem[local[t]] \in State /\ mem[0] \in State /\ 0 \in Slots
           /\ phase = "calc" => local[t] = 0
           /\ phase # "calc" => phase = "columns" /\ AtWork(t) /\ local[t] # 0
           /\ act[t] # 0 => act[t] \in Activities /\ AddsTo[act[t]] \in Markets
<1>1. 0 \in Slots
  BY ActivityAssumption DEF Slots, NumStates
<1>2. phase \in {"ready", "calc", "columns"} /\ mem \in [Slots -> State]
  BY DEF TInv, SInv, SlotType, TypeOK
<1>3. phase # "calc" => phase = "columns" /\ AtWork(t) /\ local[t] # 0 /\ local[t] \in Slots
  <2> SUFFICES ASSUME phase # "calc"
               PROVE  phase = "columns" /\ AtWork(t) /\ local[t] # 0 /\ local[t] \in Slots
    OBVIOUS
  <2>1. AtWork(t) /\ phase = "columns" /\ t \in Assigned
    BY <1>2 DEF TInv, Taken, SInv
  <2>2. local[t] # 0 /\ local[t] # Unassigned
    BY <2>1 DEF TInv, SInv, EachSlotOnce, Assigned
  <2> QED BY <2>1, <2>2 DEF TInv, TypeOK
<1>4. phase = "calc" => local[t] = 0
  BY DEF TInv, Taken
<1>5. act[t] # 0 => act[t] \in Activities /\ AddsTo[act[t]] \in Markets
  <2>1. act[t] \in 0..NumActivities
    BY DEF TInv, TypeOK
  <2>2. act[t] # 0 => act[t] \in Activities
    BY <2>1, ActivityNumbers DEF Activities
  <2> QED BY <2>2, ActivityNumbers
<1> QED BY <1>1, <1>2, <1>3, <1>4, <1>5

\* The price and the input an activity sees are numbers, and so is its result.
LEMMA ResultSeen ==
    ASSUME ResultsAreNumbers, NEW s \in State, NEW a \in Activities
    PROVE  Result(a, s.price[ReadsPrice[a]], IF Input[a] = 0 THEN 0 ELSE s.result[Input[a]]) \in Int
<1>1. s.price[ReadsPrice[a]] \in Int
  BY StateFields, ActivityNumbers
<1>2. (IF Input[a] = 0 THEN 0 ELSE s.result[Input[a]]) \in Int
  <2>1. s.result \in [Activities -> Int]
    BY StateFields
  <2>2. Input[a] # 0 => s.result[Input[a]] \in Int
    BY <2>1, ActivityNumbers
  <2> QED BY <2>2
<1> QED BY <1>1, <1>2 DEF ResultsAreNumbers

\* An activity that is ready is one the thread may take.
LEMMA ReadyIs ==
    ASSUME TInv, NEW t \in Threads, NEW a \in Activities, a \in Ready(t)
    PROVE  \/ /\ phase = "calc" /\ a \in todo /\ Input[a] \in done \cup {0}
           \/ /\ phase = "columns" /\ AtWork(t) /\ mem[local[t]].price # mem[0].price
              /\ a \in left[t] /\ \A b \in left[t] : a <= b
<1>1. CASE phase = "columns"
  <2>1. AtWork(t) /\ mem[local[t]].price # mem[0].price /\ left[t] # {} /\ a = Min(left[t])
    BY <1>1 DEF Ready
  <2>2. left[t] \in SUBSET Nat
    BY ActivityNumbers DEF TInv, TypeOK
  <2>3. PICK b \in left[t] : \A c \in left[t] : b <= c
    BY <2>1, <2>2, LeastNumber
  <2>4. a \in left[t] /\ \A c \in left[t] : a <= c
    BY <2>1, <2>3 DEF Min
  <2> QED BY <1>1, <2>1, <2>4
<1>2. CASE phase = "calc"
  BY <1>2 DEF Ready
<1>3. phase \in {"ready", "calc", "columns"}
  BY DEF TInv, SInv, SlotType
<1>4. phase # "ready"
  BY DEF Ready
<1> QED BY <1>1, <1>2, <1>3, <1>4

LEMMA InitTypes == Init => TInv
<1> SUFFICES ASSUME Init PROVE TInv
  OBVIOUS
<1>1. Zero \in State /\ 0 \in Slots
  BY ActivityAssumption DEF Zero, State, Slots, NumStates
<1>2. /\ mem \in [Slots -> State] /\ local \in [Threads -> {Unassigned} \cup Slots]
      /\ queue \in Seq(Slots) /\ deriv \in BOOLEAN /\ phase = "ready"
  <2>1. mem = [s \in Slots |-> Zero] /\ local = [t \in Threads |-> 0]
    BY DEF Init
  <2>2. queue = <<>> /\ deriv = FALSE /\ phase = "ready"
    BY DEF Init
  <2> HIDE DEF Zero
  <2>3. mem \in [Slots -> State] /\ local \in [Threads -> {Unassigned} \cup Slots]
    BY <1>1, <2>1
  <2>4. queue \in Seq(Slots)
    BY <2>2
  <2> QED BY <2>2, <2>3, <2>4
<1>3. /\ todo = {} /\ done = {} /\ loaded = {} /\ out = {} /\ calls \in 0..MaxCalls
      /\ col \in [Threads -> Markets \cup {NoMarket}]
      /\ left \in [Threads -> SUBSET Activities]
  BY ActivityAssumption DEF Init
<1>4. /\ act \in [Threads -> 0..NumActivities] /\ sum \in [Threads -> Int]
      /\ lock \in [Markets -> Threads \cup {NoThread}]
  BY ActivityAssumption DEF Init
<1>5. TypeOK
  BY <1>2, <1>3, <1>4 DEF TypeOK
<1> QED BY <1>5, SlotsInit DEF TInv, Init, Taken

LEMMA EvaluateTypes ==
    ASSUME TInv, NEW p \in [Markets -> Prices], Evaluate(p) PROVE TypeOK' /\ Taken'
<1> USE DEF TInv
<1>1. 0 \in Slots /\ mem \in [Slots -> State] /\ p \in [Markets -> Int]
  BY ActivityAssumption DEF Slots, NumStates, TypeOK
<1>2. mem' = [mem EXCEPT ![0] = [mem[0] EXCEPT !.price = p, !.total = [m \in Markets |-> 0]]]
  BY <1>1 DEF Evaluate
<1>3. mem' \in [Slots -> State]
  BY <1>1, <1>2, StateFields
<1>4. calls' \in 0..MaxCalls
  BY ActivityAssumption DEF Evaluate, TypeOK
<1>5. TypeOK'
  BY <1>3, <1>4 DEF Evaluate, TypeOK
<1>6. \A t \in Threads : act[t] = 0
  BY DEF Evaluate, Taken
<1>7. \A a \in Activities : a # 0
  BY ActivityNumbers
<1> QED BY <1>5, <1>6, <1>7 DEF Evaluate, Taken

LEMMA CopyStateTypes ==
    ASSUME TInv, NEW t \in Threads, NEW m \in Markets, CopyState(t, m) PROVE TypeOK' /\ Taken'
<1> USE DEF TInv
<1>1. SInv'
  BY CopyStateSlots
<1>2. ~(local[t] = Unassigned /\ queue = <<>>)
  <2>1. phase' # "aborted"
    BY <1>1 DEF SInv, SlotType
  <2> QED BY <2>1 DEF CopyState
<1>3. mem' = [mem EXCEPT ![Slot(t)] = mem[0]] /\ StartColumn(t, m) /\ phase = "columns" /\ ~AtWork(t)
  BY <1>2 DEF CopyState
<1>4. 0 \in Slots
  BY ActivityAssumption DEF Slots, NumStates
<1>5. mem' \in [Slots -> State]
  BY <1>3, <1>4 DEF TypeOK
<1>6. local' \in [Threads -> {Unassigned} \cup Slots] /\ queue' \in Seq(Slots)
  <2>1. queue' \in Seq(1..NumThreads)
    BY <1>1 DEF SInv, SlotType
  <2>2. 1..NumThreads \subseteq Slots
    BY ActivityAssumption DEF Slots, NumStates
  <2> QED BY <1>1, <2>1, <2>2, SeqMonotonic DEF SInv, SlotType
<1>7. Dependencies(m) \subseteq Activities
  BY DependenciesAre
<1>8. TypeOK'
  BY <1>3, <1>5, <1>6, <1>7 DEF StartColumn, TypeOK
<1>9. Taken'
  BY <1>3 DEF StartColumn, Taken, AtWork, TypeOK
<1> QED BY <1>8, <1>9

LEMMA CalculateTypes ==
    ASSUME TInv, ResultsAreNumbers, NEW t \in Threads, NEW a \in Activities, Calculate(t, a)
    PROVE  TypeOK' /\ Taken'
<1> USE DEF TInv
<1>1. act[t] = 0 /\ a \in Ready(t) /\ a # 0
  BY ActivityNumbers DEF Calculate
<1>2. \/ /\ phase = "calc" /\ a \in todo
      \/ /\ phase = "columns" /\ AtWork(t)
  BY <1>1, ReadyIs
<1> DEFINE seen == mem[local[t]]
           result == Result(a, seen.price[ReadsPrice[a]], IF Input[a] = 0 THEN 0 ELSE seen.result[Input[a]])
<1>3. local[t] \in Slots /\ seen \in State /\ mem[0] \in State
  BY <1>2, SlotOf
<1>4. PICK n \in Int : n = result
  BY <1>3, ResultSeen
<1>5. Contribution(a, n) \in Int
  <2>1. mem[0].result \in [Activities -> Int]
    BY <1>3, StateFields
  <2> QED BY <2>1 DEF Contribution
<1>6. /\ todo' = IF phase = "calc" THEN todo \ {a} ELSE todo
      /\ left' = [left EXCEPT ![t] = @ \ {a}]
      /\ UNCHANGED <<local, queue, deriv, phase, col, loaded, lock, out, calls>>
  BY DEF Calculate
<1>7. CASE Adds(a, n)
  <2>1. /\ mem' = [mem EXCEPT ![local[t]] = [mem[local[t]] EXCEPT !.result[a] = n]]
        /\ act' = [act EXCEPT ![t] = a]
        /\ sum' = [sum EXCEPT ![t] = Contribution(a, n)]
        /\ done' = done
    BY <1>4, <1>7 DEF Calculate
  <2>2. mem' \in [Slots -> State]
    BY <1>3, <2>1, StateFields DEF TypeOK
  <2>3. TypeOK'
    BY <1>5, <1>6, <2>1, <2>2 DEF TypeOK, Activities
  <2>4. Taken'
    BY <1>1, <1>2, <1>6, <2>1 DEF Taken, AtWork, TypeOK
  <2> QED BY <2>3, <2>4
<1>8. CASE ~Adds(a, n)
  <2>1. /\ done' = IF phase = "calc" THEN done \cup {a} ELSE done
        /\ UNCHANGED <<mem, act, sum>>
    BY <1>4, <1>8 DEF Calculate
  <2>2. TypeOK'
    BY <1>6, <2>1 DEF TypeOK
  <2>3. Taken'
    BY <1>1, <1>2, <1>6, <2>1 DEF Taken, AtWork
  <2> QED BY <2>2, <2>3
<1> QED BY <1>7, <1>8

LEMMA ReadTotalTypes ==
    ASSUME TInv, NEW t \in Threads, ReadTotal(t) PROVE TypeOK' /\ Taken'
<1> USE DEF TInv
<1>1. act[t] # 0
  BY DEF ReadTotal
<1>2. mem[local[t]].total[AddsTo[act[t]]] \in Int /\ AddsTo[act[t]] \in Markets
  BY <1>1, SlotOf, StateFields
<1>3. sum' \in [Threads -> Int] /\ lock' \in [Markets -> Threads \cup {NoThread}]
  <2>1. sum' = [sum EXCEPT ![t] = mem[local[t]].total[AddsTo[act[t]]] + sum[t]]
    BY DEF ReadTotal, TypeOK
  <2> QED BY <1>2, <2>1 DEF ReadTotal, TypeOK
<1>4. TypeOK'
  BY <1>3 DEF ReadTotal, TypeOK
<1>5. Taken'
  BY <1>1 DEF ReadTotal, Taken, AtWork
<1> QED BY <1>4, <1>5

LEMMA WriteTotalTypes ==
    ASSUME TInv, NEW t \in Threads, WriteTotal(t) PROVE TypeOK' /\ Taken'
<1> USE DEF TInv
<1>1. act[t] # 0
  BY DEF WriteTotal
<1>2. /\ local[t] \in Slots /\ mem[local[t]] \in State
      /\ act[t] \in Activities /\ AddsTo[act[t]] \in Markets
  BY <1>1, SlotOf
<1>3. mem' = [mem EXCEPT ![local[t]] = [mem[local[t]] EXCEPT !.total[AddsTo[act[t]]] = sum[t]]]
  BY DEF WriteTotal
<1>4. mem' \in [Slots -> State]
  BY <1>2, <1>3, StateFields DEF TypeOK
<1>5. lock' \in [Markets -> Threads \cup {NoThread}]
  <2>1. lock' = [lock EXCEPT ![AddsTo[act[t]]] = IF lock[AddsTo[act[t]]] = t THEN NoThread
                                                ELSE lock[AddsTo[act[t]]]]
    BY <1>2 DEF WriteTotal, TypeOK
  <2>2. lock \in [Markets -> Threads \cup {NoThread}]
    BY DEF TypeOK
  <2>3. (IF lock[AddsTo[act[t]]] = t THEN NoThread ELSE lock[AddsTo[act[t]]]) \in Threads \cup {NoThread}
    BY <1>2, <2>2
  <2> QED BY <2>1, <2>2, <2>3
<1>6. /\ done' = IF phase = "calc" THEN done \cup {act[t]} ELSE done
      /\ act' = [act EXCEPT ![t] = 0] /\ sum' = [sum EXCEPT ![t] = 0]
      /\ loaded' = loaded \ {t}
      /\ UNCHANGED <<local, queue, deriv, phase, todo, col, left, out, calls>>
  BY DEF WriteTotal
<1>7. TypeOK'
  <2>1. done' \subseteq Activities /\ loaded' \subseteq Threads
    BY <1>2, <1>6 DEF TypeOK
  <2>2. act' \in [Threads -> 0..NumActivities] /\ sum' \in [Threads -> Int]
    BY <1>6, ActivityAssumption DEF TypeOK
  <2> QED BY <1>4, <1>5, <1>6, <2>1, <2>2 DEF TypeOK
<1>8. Taken'
  <2>1. /\ act'[t] = 0
        /\ \A u \in Threads \ {t} : act'[u] = act[u]
    BY <1>6 DEF TypeOK
  <2>2. CASE phase = "calc"
    <3>1. 0 \notin todo /\ 0 \notin done
      BY DEF TypeOK, Activities, Markets
    <3>2. todo' = todo /\ done' = done \cup {act[t]} /\ act[t] \notin todo \cup done
      BY <1>6, <2>2 DEF Taken
    <3>3. \A u \in Threads : act'[u] \notin todo' \cup done'
      BY <1>1, <2>1, <2>2, <3>1, <3>2 DEF Taken
    <3>4. \A u, v \in Threads : u # v /\ act'[u] # 0 => act'[u] # act'[v]
      BY <1>1, <2>1, <2>2 DEF Taken
    <3> QED BY <1>1, <1>6, <2>1, <2>2, <3>2, <3>3, <3>4 DEF Taken
  <2>3. CASE phase # "calc"
    BY <1>6, <2>1, <2>3 DEF Taken, AtWork
  <2> QED BY <2>2, <2>3
<1> QED BY <1>7, <1>8

LEMMA TypesStep ==
    ASSUME ResultsAreNumbers PROVE TInv /\ [Next]_vars => TInv'
<1> SUFFICES ASSUME TInv, [Next]_vars PROVE TInv'
  OBVIOUS
<1>0. SInv'
  BY SlotsStep DEF TInv
<1> SUFFICES TypeOK' /\ Taken'
  BY <1>0 DEF TInv
<1>1. ASSUME NEW p \in [Markets -> Prices], Evaluate(p) PROVE TypeOK' /\ Taken'
  BY <1>1, EvaluateTypes
<1>2. CASE EvaluateEnds
  <2>1. \A t \in Threads : act[t] = 0
    <3> TAKE t \in Threads
    <3>1. act[t] \notin Activities
      BY <1>2 DEF EvaluateEnds, TInv, Taken
    <3> QED BY <3>1, <1>2, SlotOf DEF EvaluateEnds
  <2> QED BY <1>2, <2>1 DEF EvaluateEnds, workVars, TInv, TypeOK, Taken
<1>3. CASE FDJac
  <2>1. queue' \in Seq(Slots)
    <3>1. queue' \in Seq(1..NumThreads)
      BY <1>0 DEF SInv, SlotType
    <3>2. 1..NumThreads \subseteq Slots
      BY ActivityAssumption DEF Slots, NumStates
    <3> QED BY <3>1, <3>2, SeqMonotonic
  <2> QED BY <1>3, <2>1 DEF FDJac, TInv, TypeOK, Taken
<1>4. CASE FDJacEnds
  <2>1. 0 \in Slots
    BY ActivityAssumption DEF Slots, NumStates
  <2> QED BY <1>4, <2>1 DEF FDJacEnds, workVars, TInv, TypeOK, Taken
<1>5. ASSUME NEW t \in Threads, ThreadStep(t) PROVE TypeOK' /\ Taken'
  <2>1. ASSUME NEW m \in Markets, CopyState(t, m) PROVE TypeOK' /\ Taken'
    BY <2>1, CopyStateTypes
  <2>2. CASE SetPrice(t)
    <3>1. local[t] \in Slots /\ mem[local[t]] \in State /\ col[t] \in Markets
      BY <2>2, SlotOf DEF SetPrice, AtWork, TInv, TypeOK, NoMarket
    <3>2. mem' = [mem EXCEPT ![local[t]] = [mem[local[t]] EXCEPT !.price = Bump(mem[local[t]].price, col[t])]]
      BY <2>2 DEF SetPrice
    <3>3. mem' \in [Slots -> State]
      BY <3>1, <3>2, StateFields, BumpType DEF TInv, TypeOK
    <3> QED BY <2>2, <3>3 DEF SetPrice, workVars, TInv, TypeOK, Taken, AtWork
  <2>3. CASE ColumnEnds(t)
    <3>1. col[t] \in Markets /\ mem[local[t]].total \in [Markets -> Int]
      BY <2>3, SlotOf, StateFields DEF ColumnEnds, AtWork, TInv, TypeOK, NoMarket
    <3> QED BY <2>3, <3>1 DEF ColumnEnds, TInv, TypeOK, Taken, AtWork
  <2>4. ASSUME NEW a \in Activities, Calculate(t, a) PROVE TypeOK' /\ Taken'
    BY <2>4, CalculateTypes
  <2>5. CASE ReadTotal(t)
    BY <2>5, ReadTotalTypes
  <2>6. CASE WriteTotal(t)
    BY <2>6, WriteTotalTypes
  <2> QED BY <1>5, <2>1, <2>2, <2>3, <2>4, <2>5, <2>6 DEF ThreadStep
<1>6. CASE UNCHANGED vars
  BY <1>6 DEF vars, workVars, TInv, TypeOK, Taken, AtWork
<1> QED BY <1>1, <1>2, <1>3, <1>4, <1>5, <1>6 DEF Next

LEMMA TypeInvariant ==
    ASSUME ResultsAreNumbers PROVE Spec => []TInv
BY InitTypes, TypesStep, PTL DEF Spec

\* The states, slots, queue and mutexes keep their types in any number of
\* threads, markets and activities (ManageStateVariables, LogEDFun, fdjac).
THEOREM TypeCorrect ==
    ASSUME ResultsAreNumbers PROVE Spec => []TypeOK
<1>1. TInv => TypeOK
  BY DEF TInv
<1> QED BY TypeInvariant, <1>1, PTL

-----------------------------------------------------------------------------
(* The base state *)

BaseResults == Results(mem[0].price)

\* The activities of S that add to market m, their results being r.
Adding(r, S, m) == {a \in S : AddsTo[a] = m /\ Adds(a, r[a])}

Calculated == IF phase = "calc" THEN done ELSE Activities

\* The base state keeps every result that is added to a market.
ResultsKept ==
    calls > 0 => \A a \in Calculated :
        Adds(a, BaseResults[a]) => mem[0].result[a] = BaseResults[a]

\* What the threads are adding, and that nobody else adds to the market in
\* between: it is this that the mutex of the market is for.
UnderWay ==
    phase = "calc" => \A t \in Threads : act[t] # 0 =>
        /\ Adds(act[t], BaseResults[act[t]])
        /\ mem[0].result[act[t]] = BaseResults[act[t]]
        /\ t \notin loaded => sum[t] = BaseResults[act[t]]
        /\ t \in loaded => /\ sum[t] = mem[0].total[AddsTo[act[t]]] + BaseResults[act[t]]
                           /\ lock[AddsTo[act[t]]] = t

\* The totals of the markets are those of the activities done so far.
TotalsSoFar ==
    calls > 0 => \A m \in Markets :
        mem[0].total[m] = SumOf(BaseResults, Adding(BaseResults, Calculated, m))

Modes == /\ phase # "columns" => deriv = FALSE
         /\ phase # "ready" => calls > 0

BInv == ResultsKept /\ UnderWay /\ TotalsSoFar /\ Modes

LEMMA Stored ==
    ASSUME TypeOK, NEW k \in Slots, NEW a \in Activities, NEW n \in Int,
           mem' = [mem EXCEPT ![k].result[a] = n]
    PROVE  /\ mem'[k].price = mem[k].price /\ mem'[k].total = mem[k].total
           /\ mem'[k].result = [mem[k].result EXCEPT ![a] = n]
           /\ mem[k].result \in [Activities -> Int]
           /\ \A i \in Slots \ {k} : mem'[i] = mem[i]
<1>1. mem[k] \in State
  BY DEF TypeOK
<1>2. mem'[k] = [mem[k] EXCEPT !.result[a] = n] /\ \A i \in Slots \ {k} : mem'[i] = mem[i]
  BY DEF TypeOK
<1> QED BY <1>1, <1>2 DEF State

LEMMA Totalled ==
    ASSUME TypeOK, NEW k \in Slots, NEW m \in Markets, NEW n \in Int,
           mem' = [mem EXCEPT ![k].total[m] = n]
    PROVE  /\ mem'[k].price = mem[k].price /\ mem'[k].result = mem[k].result
           /\ mem'[k].total = [mem[k].total EXCEPT ![m] = n]
           /\ mem[k].total \in [Markets -> Int]
           /\ \A i \in Slots \ {k} : mem'[i] = mem[i]
<1>1. mem[k] \in State
  BY DEF TypeOK
<1>2. mem'[k] = [mem[k] EXCEPT !.total[m] = n] /\ \A i \in Slots \ {k} : mem'[i] = mem[i]
  BY DEF TypeOK
<1> QED BY <1>1, <1>2 DEF State

\* Outside of a full calculation, only that the base state stays as it is counts.
LEMMA BaseKept ==
    ASSUME BInv, mem'[0] = mem[0], calls' = calls, phase # "calc", phase' # "calc"
    PROVE  ResultsKept' /\ UnderWay' /\ TotalsSoFar'
<1>1. BaseResults' = BaseResults
  BY DEF BaseResults
<1>2. Calculated = Activities /\ Calculated' = Activities
  BY DEF Calculated
<1>3. ResultsKept'
  BY <1>1, <1>2 DEF BInv, ResultsKept
<1>4. TotalsSoFar'
  BY <1>1, <1>2 DEF BInv, TotalsSoFar
<1> QED BY <1>3, <1>4 DEF UnderWay

LEMMA BaseResultsType ==
    ASSUME TInv, ResultsAreNumbers
    PROVE  /\ \A a \in Activities : BaseResults[a] \in Int
           /\ \A S \in SUBSET Activities, m \in Markets :
                 /\ IsFiniteSet(Adding(BaseResults, S, m))
                 /\ SumOf(BaseResults, Adding(BaseResults, S, m)) \in Int
<1>1. mem[0].price \in [Markets -> Int]
  <2>1. 0 \in Slots
    BY ActivityAssumption DEF Slots, NumStates
  <2> QED BY <2>1, StateFields DEF TInv, TypeOK
<1>2. \A a \in Activities : BaseResults[a] \in Int
  BY <1>1, ResultsType DEF BaseResults
<1>3. ASSUME NEW S \in SUBSET Activities, NEW m \in Markets
      PROVE  /\ IsFiniteSet(Adding(BaseResults, S, m))
             /\ SumOf(BaseResults, Adding(BaseResults, S, m)) \in Int
  <2>1. Adding(BaseResults, S, m) \in SUBSET Activities
    BY DEF Adding
  <2>2. IsFiniteSet(Adding(BaseResults, S, m))
    BY <2>1, ActivityNumbers, FS_Subset
  <2>3. \A a \in Adding(BaseResults, S, m) : BaseResults[a] \in Int
    BY <1>2, <2>1
  <2> QED BY <2>2, <2>3, SumType
<1> QED BY <1>2, <1>3

LEMMA EvaluateBase ==
    ASSUME TInv, BInv, NEW p \in [Markets -> Prices], Evaluate(p) PROVE BInv'
<1>1. /\ phase = "ready" /\ phase' = "calc" /\ calls' = calls + 1 /\ done' = {} /\ act' = act
      /\ deriv' = deriv
  BY DEF Evaluate
<1>2. calls' > 0
  BY <1>1 DEF TInv, TypeOK
<1>3. mem'[0].total = [m \in Markets |-> 0]
  <2>0. 0 \in Slots
    BY ActivityAssumption DEF Slots, NumStates
  <2>1. 0 \in Slots /\ mem[0] \in State
    BY <2>0 DEF TInv, TypeOK
  <2>2. mem'[0] = [mem[0] EXCEPT !.price = p, !.total = [m \in Markets |-> 0]]
    BY <2>1 DEF Evaluate, TInv, TypeOK
  <2> QED BY <2>1, <2>2 DEF State
<1>4. Calculated' = {}
  BY <1>1 DEF Calculated
<1>5. \A t \in Threads : act'[t] = 0
  BY <1>1 DEF TInv, Taken
<1>6. TotalsSoFar'
  <2>1. \A r, m : Adding(r, {}, m) = {}
    BY DEF Adding
  <2>2. \A m \in Markets : SumOf(BaseResults', Adding(BaseResults', {}, m)) = 0
    BY <2>1, SumEmpty
  <2> QED BY <1>3, <1>4, <2>2 DEF TotalsSoFar
<1>7. ResultsKept'
  BY <1>4 DEF ResultsKept
<1>8. UnderWay'
  BY <1>5 DEF UnderWay
<1>9. Modes'
  BY <1>1, <1>2 DEF BInv, Modes
<1> QED BY <1>6, <1>7, <1>8, <1>9 DEF BInv

\* In a full calculation an activity comes to what it should.
LEMMA CalculateBase ==
    ASSUME TInv, BInv, ResultsAreNumbers, phase = "calc",
           NEW t \in Threads, NEW a \in Activities, Calculate(t, a)
    PROVE  BInv'
<1>1. act[t] = 0 /\ a \in todo /\ Input[a] \in done \cup {0} /\ local[t] = 0
  <2>1. act[t] = 0 /\ a \in Ready(t)
    BY DEF Calculate
  <2> QED BY <2>1, ReadyIs, SlotOf
<1>2. 0 \in Slots /\ TypeOK /\ calls > 0 /\ deriv = FALSE
  BY SlotOf DEF TInv, BInv, Modes
<1>3. /\ a \notin done /\ t \notin loaded /\ done \in SUBSET Activities
      /\ \A u \in Threads : act[u] # a
  BY <1>1 DEF TInv, Taken, TypeOK
<1> DEFINE n == BaseResults[a]
<1>4. n = Result(a, mem[0].price[ReadsPrice[a]], IF Input[a] = 0 THEN 0 ELSE mem[0].result[Input[a]])
  <2>1. Input[a] # 0 => mem[0].result[Input[a]] = BaseResults[Input[a]]
    <3> SUFFICES ASSUME Input[a] # 0 PROVE mem[0].result[Input[a]] = BaseResults[Input[a]]
      OBVIOUS
    <3>1. Input[a] \in done /\ Adds(Input[a], BaseResults[Input[a]])
      BY <1>1, ActivityNumbers DEF Adds
    <3> QED BY <1>2, <3>1 DEF BInv, ResultsKept, Calculated
  <2>2. (IF Input[a] = 0 THEN 0 ELSE mem[0].result[Input[a]])
            = IF Input[a] = 0 THEN 0 ELSE BaseResults[Input[a]]
    BY <2>1
  <2> QED BY <2>2, ResultsAre DEF BaseResults
<1>5. n \in Int
  BY BaseResultsType
<1>6. /\ todo' = todo \ {a} /\ UNCHANGED <<deriv, phase, loaded, lock, calls>>
  BY DEF Calculate
<1>7. Modes'
  BY <1>2, <1>6 DEF Modes
<1>8. CASE Adds(a, n)
  <2>1. /\ mem' = [mem EXCEPT ![0].result[a] = n]
        /\ act' = [act EXCEPT ![t] = a]
        /\ sum' = [sum EXCEPT ![t] = n]
        /\ done' = done
    BY <1>1, <1>2, <1>4, <1>8 DEF Calculate, Contribution
  <2>2. /\ mem'[0].price = mem[0].price /\ mem'[0].total = mem[0].total
        /\ mem'[0].result = [mem[0].result EXCEPT ![a] = n]
        /\ mem[0].result \in [Activities -> Int]
    <3> HIDE DEF n
    <3> QED BY <1>2, <1>5, <2>1, Stored
  <2>3. BaseResults' = BaseResults /\ Calculated' = Calculated /\ Calculated = done
    BY <1>6, <2>1, <2>2 DEF BaseResults, Calculated
  <2>4. ResultsKept'
    BY <1>3, <1>6, <2>2, <2>3 DEF BInv, ResultsKept
  <2>5. TotalsSoFar'
    BY <1>6, <2>2, <2>3 DEF BInv, TotalsSoFar
  <2>6. /\ act'[t] = a /\ sum'[t] = n /\ mem'[0].result[a] = n
        /\ \A u \in Threads \ {t} : act'[u] = act[u] /\ sum'[u] = sum[u]
    BY <1>2, <2>1, <2>2 DEF TypeOK
  <2>7. \A u \in Threads : u # t /\ act[u] # 0 => mem'[0].result[act[u]] = mem[0].result[act[u]]
    BY <1>3, <2>2
  <2>8. UnderWay'
    <3> SUFFICES ASSUME NEW u \in Threads, act'[u] # 0
                 PROVE  /\ Adds(act'[u], BaseResults[act'[u]])
                        /\ mem'[0].result[act'[u]] = BaseResults[act'[u]]
                        /\ u \notin loaded => sum'[u] = BaseResults[act'[u]]
                        /\ u \in loaded => /\ sum'[u] = mem[0].total[AddsTo[act'[u]]] + BaseResults[act'[u]]
                                           /\ lock[AddsTo[act'[u]]] = u
      BY <1>6, <2>2, <2>3 DEF UnderWay
    <3>1. CASE u = t
      BY <3>1, <1>3, <1>8, <2>6
    <3>2. CASE u # t
      BY <3>2, <2>6, <2>7 DEF BInv, UnderWay
    <3> QED BY <3>1, <3>2
  <2> QED BY <1>7, <2>4, <2>5, <2>8 DEF BInv
<1>9. CASE ~Adds(a, n)
  <2>1. done' = done \cup {a} /\ UNCHANGED <<mem, act, sum>>
    BY <1>1, <1>4, <1>9 DEF Calculate
  <2>2. BaseResults' = BaseResults /\ Calculated' = done \cup {a} /\ Calculated = done
    BY <1>6, <2>1 DEF BaseResults, Calculated
  <2>3. \A m : Adding(BaseResults, done \cup {a}, m) = Adding(BaseResults, done, m)
    BY <1>9 DEF Adding
  <2>4. ResultsKept'
    BY <1>6, <1>9, <2>1, <2>2 DEF BInv, ResultsKept
  <2>5. TotalsSoFar'
    BY <1>6, <2>1, <2>2, <2>3 DEF BInv, TotalsSoFar
  <2>6. UnderWay'
    BY <1>6, <2>1, <2>2 DEF BInv, UnderWay
  <2> QED BY <1>7, <2>4, <2>5, <2>6 DEF BInv
<1> QED BY <1>8, <1>9

LEMMA ReadTotalBase ==
    ASSUME TInv, BInv, ResultsAreNumbers, phase = "calc", NEW t \in Threads, ReadTotal(t)
    PROVE  BInv'
<1> DEFINE m == AddsTo[act[t]]
<1>1. act[t] # 0 /\ t \notin loaded /\ m \in Markets /\ act[t] \in Activities /\ local[t] = 0
  BY SlotOf DEF ReadTotal
<1>2. /\ lock[m] = NoThread /\ lock' = [lock EXCEPT ![m] = t]
      /\ sum' = [sum EXCEPT ![t] = mem[0].total[m] + sum[t]]
      /\ loaded' = loaded \cup {t}
      /\ UNCHANGED <<mem, phase, act, calls, done, deriv>>
  BY <1>1 DEF ReadTotal, BInv, Modes, TInv, TypeOK
<1>3. BaseResults' = BaseResults /\ Calculated' = Calculated
  BY <1>2 DEF BaseResults, Calculated
<1>4. ResultsKept' /\ TotalsSoFar' /\ Modes'
  BY <1>2, <1>3 DEF BInv, ResultsKept, TotalsSoFar, Modes
<1>5. /\ lock'[m] = t /\ sum'[t] = mem[0].total[m] + sum[t]
      /\ \A k \in Markets \ {m} : lock'[k] = lock[k]
      /\ \A u \in Threads \ {t} : sum'[u] = sum[u]
  BY <1>1, <1>2 DEF TInv, TypeOK
<1>6. UnderWay'
  <2> SUFFICES ASSUME NEW u \in Threads, act[u] # 0
               PROVE  /\ Adds(act[u], BaseResults[act[u]])
                      /\ mem[0].result[act[u]] = BaseResults[act[u]]
                      /\ u \notin loaded' => sum'[u] = BaseResults[act[u]]
                      /\ u \in loaded' => /\ sum'[u] = mem[0].total[AddsTo[act[u]]] + BaseResults[act[u]]
                                          /\ lock'[AddsTo[act[u]]] = u
    BY <1>2, <1>3 DEF UnderWay
  <2>1. CASE u = t
    BY <2>1, <1>1, <1>2, <1>5 DEF BInv, UnderWay
  <2>2. CASE u # t
    <3>1. u \in loaded => lock[AddsTo[act[u]]] = u /\ u # NoThread /\ AddsTo[act[u]] \in Markets
      BY SlotOf DEF BInv, UnderWay, Threads, NoThread
    <3>2. u \in loaded => lock'[AddsTo[act[u]]] = u
      BY <1>2, <1>5, <3>1
    <3> QED BY <2>2, <1>2, <1>5, <3>2 DEF BInv, UnderWay
  <2> QED BY <2>1, <2>2
<1> QED BY <1>4, <1>6 DEF BInv

LEMMA WriteTotalBase ==
    ASSUME TInv, BInv, ResultsAreNumbers, phase = "calc", NEW t \in Threads, WriteTotal(t)
    PROVE  BInv'
<1> DEFINE a == act[t]
           m == AddsTo[a]
           r == BaseResults
<1>1. a # 0 /\ t \in loaded /\ m \in Markets /\ a \in Activities /\ local[t] = 0 /\ 0 \in Slots
  BY SlotOf DEF WriteTotal
<1>2. /\ mem' = [mem EXCEPT ![0].total[m] = sum[t]]
      /\ lock' = [lock EXCEPT ![m] = IF lock[m] = t THEN NoThread ELSE lock[m]]
      /\ done' = done \cup {a}
      /\ act' = [act EXCEPT ![t] = 0]
      /\ sum' = [sum EXCEPT ![t] = 0]
      /\ loaded' = loaded \ {t}
      /\ UNCHANGED <<phase, calls, deriv>>
  BY <1>1 DEF WriteTotal, TInv, TypeOK
<1>3. /\ Adds(a, r[a]) /\ mem[0].result[a] = r[a] /\ lock[m] = t
      /\ sum[t] = mem[0].total[m] + r[a]
  BY <1>1 DEF BInv, UnderWay
<1>4. sum[t] \in Int /\ done \in SUBSET Activities /\ a \notin done
  BY DEF TInv, TypeOK, Taken
<1>5. /\ mem'[0].price = mem[0].price /\ mem'[0].result = mem[0].result
      /\ mem'[0].total = [mem[0].total EXCEPT ![m] = sum[t]]
      /\ mem[0].total \in [Markets -> Int]
  <2>1. PICK k \in Markets, n \in Int : k = m /\ n = sum[t]
    BY <1>1, <1>4
  <2>2. TypeOK /\ mem' = [mem EXCEPT ![0].total[k] = n]
    BY <1>2, <2>1 DEF TInv
  <2>3. /\ mem'[0].price = mem[0].price /\ mem'[0].result = mem[0].result
        /\ mem'[0].total = [mem[0].total EXCEPT ![k] = n]
        /\ mem[0].total \in [Markets -> Int]
    <3>1. 0 \in Slots
      BY <1>1
    <3> HIDE DEF a, m, r
    <3> QED BY <2>2, <3>1, Totalled
  <2> HIDE DEF m
  <2> QED BY <2>1, <2>3
<1>6. BaseResults' = r /\ Calculated = done /\ Calculated' = done \cup {a}
  BY <1>2, <1>5 DEF BaseResults, Calculated
<1>7. Modes'
  BY <1>2 DEF BInv, Modes
<1>8. ResultsKept'
  BY <1>2, <1>3, <1>5, <1>6 DEF BInv, ResultsKept
<1>9. TotalsSoFar'
  <2> SUFFICES ASSUME NEW k \in Markets, calls > 0
               PROVE  mem'[0].total[k] = SumOf(r, Adding(r, done \cup {a}, k))
    BY <1>2, <1>6 DEF TotalsSoFar
  <2>1. mem[0].total[k] = SumOf(r, Adding(r, done, k))
    BY <1>6 DEF BInv, TotalsSoFar
  <2>2. CASE k = m
    <3> DEFINE S == Adding(r, done, m)
    <3>1. IsFiniteSet(S) /\ a \notin S /\ \A b \in S \cup {a} : r[b] \in Int
      BY <1>1, <1>4, BaseResultsType DEF Adding
    <3>2. SumOf(r, S \cup {a}) = SumOf(r, S) + r[a]
      <4> HIDE DEF S, r, a
      <4> QED BY <3>1, SumAdd
    <3>3. Adding(r, done \cup {a}, m) = S \cup {a}
      BY <1>3 DEF Adding
    <3>4. mem'[0].total[m] = mem[0].total[m] + r[a]
      BY <1>1, <1>3, <1>5
    <3> QED BY <2>1, <2>2, <3>2, <3>3, <3>4
  <2>3. CASE k # m
    <3>1. Adding(r, done \cup {a}, k) = Adding(r, done, k)
      BY <2>3 DEF Adding
    <3>2. mem'[0].total[k] = mem[0].total[k]
      BY <2>3, <1>5
    <3> QED BY <2>1, <3>1, <3>2
  <2> QED BY <2>2, <2>3
<1>10. UnderWay'
  <2> SUFFICES ASSUME NEW u \in Threads, act'[u] # 0
               PROVE  /\ Adds(act'[u], r[act'[u]])
                      /\ mem'[0].result[act'[u]] = r[act'[u]]
                      /\ u \notin loaded' => sum'[u] = r[act'[u]]
                      /\ u \in loaded' => /\ sum'[u] = mem'[0].total[AddsTo[act'[u]]] + r[act'[u]]
                                          /\ lock'[AddsTo[act'[u]]] = u
    BY <1>6 DEF UnderWay
  <2>1. u # t /\ act'[u] = act[u] /\ sum'[u] = sum[u] /\ (u \in loaded' <=> u \in loaded)
    BY <1>2 DEF TInv, TypeOK
  <2>2. u \in loaded => /\ AddsTo[act[u]] # m /\ lock'[AddsTo[act[u]]] = lock[AddsTo[act[u]]]
                        /\ mem'[0].total[AddsTo[act[u]]] = mem[0].total[AddsTo[act[u]]]
    <3> SUFFICES ASSUME u \in loaded
                 PROVE  /\ AddsTo[act[u]] # m /\ lock'[AddsTo[act[u]]] = lock[AddsTo[act[u]]]
                        /\ mem'[0].total[AddsTo[act[u]]] = mem[0].total[AddsTo[act[u]]]
      OBVIOUS
    <3>1. lock[AddsTo[act[u]]] = u /\ AddsTo[act[u]] \in Markets
      BY <2>1, SlotOf DEF BInv, UnderWay
    <3>2. AddsTo[act[u]] # m
      BY <1>3, <2>1, <3>1
    <3>3. lock \in [Markets -> Threads \cup {NoThread}]
      BY DEF TInv, TypeOK
    <3> QED BY <1>2, <1>5, <3>1, <3>2, <3>3
  <2> QED BY <1>5, <2>1, <2>2 DEF BInv, UnderWay
<1> QED BY <1>7, <1>8, <1>9, <1>10 DEF BInv

LEMMA BaseStep ==
    ASSUME ResultsAreNumbers PROVE TInv /\ BInv /\ [Next]_vars => BInv'
<1> SUFFICES ASSUME TInv, BInv, [Next]_vars PROVE BInv'
  OBVIOUS
<1>0. SInv' /\ phase \in {"ready", "calc", "columns"}
  BY SlotsStep DEF TInv, SInv, SlotType
<1>1. ASSUME NEW p \in [Markets -> Prices], Evaluate(p) PROVE BInv'
  BY <1>1, EvaluateBase
<1>2. CASE EvaluateEnds
  <2>1. /\ phase = "calc" /\ phase' = "ready" /\ Calculated = Activities /\ Calculated' = Activities
        /\ mem' = mem /\ calls' = calls /\ deriv' = deriv
    BY <1>2 DEF EvaluateEnds, Calculated
  <2>2. BaseResults' = BaseResults
    BY <2>1 DEF BaseResults
  <2> QED BY <2>1, <2>2 DEF BInv, ResultsKept, UnderWay, TotalsSoFar, Modes
<1>3. CASE FDJac
  <2>1. ResultsKept' /\ UnderWay' /\ TotalsSoFar'
    BY <1>3, BaseKept DEF FDJac
  <2> QED BY <1>3, <2>1 DEF FDJac, BInv, Modes
<1>4. CASE FDJacEnds
  <2>1. ResultsKept' /\ UnderWay' /\ TotalsSoFar'
    BY <1>4, BaseKept DEF FDJacEnds
  <2> QED BY <1>4, <2>1 DEF FDJacEnds, BInv, Modes
\* A thread that calculates a column leaves the base state alone.
<1>5. ASSUME NEW t \in Threads, phase = "columns", phase' = "columns", calls' = calls,
             mem' = mem \/ \E k \in Slots \ {0} : \A i \in Slots \ {k} : mem'[i] = mem[i]
      PROVE  BInv'
  <2>1. mem'[0] = mem[0]
    <3>1. 0 \in Slots
      BY ActivityAssumption DEF Slots, NumStates
    <3> QED BY <1>5, <3>1
  <2>2. ResultsKept' /\ UnderWay' /\ TotalsSoFar'
    BY <1>5, <2>1, BaseKept
  <2> QED BY <1>5, <2>2 DEF BInv, Modes
<1>6. ASSUME NEW t \in Threads, ThreadStep(t) PROVE BInv'
  <2>1. ASSUME NEW m \in Markets, CopyState(t, m) PROVE BInv'
    <3>1. phase = "columns" /\ phase' # "aborted"
      BY <1>0, <2>1 DEF CopyState, SInv, SlotType
    <3>2. /\ mem' = [mem EXCEPT ![Slot(t)] = mem[0]]
          /\ local' = [local EXCEPT ![t] = Slot(t)] /\ col' = [col EXCEPT ![t] = m]
          /\ phase' = phase /\ calls' = calls
      BY <2>1, <3>1 DEF CopyState, StartColumn
    <3>3. Slot(t) \in Slots \ {0}
      <4>1. local'[t] = Slot(t) /\ AtWork(t)'
        BY <3>2 DEF TInv, TypeOK, AtWork, NoMarket, Markets
      <4>2. t \in Assigned' /\ local'[t] # 0 /\ local'[t] \in {Unassigned} \cup Slots
        BY <1>0, <3>1, <3>2, <4>1 DEF SInv, EachSlotOnce, SlotType
      <4> QED BY <4>1, <4>2 DEF Assigned
    <3> QED BY <1>5, <3>1, <3>2, <3>3 DEF TInv, TypeOK
  <2>2. CASE SetPrice(t)
    BY <2>2, <1>5, SlotOf DEF SetPrice, TInv, TypeOK, SInv
  <2>3. CASE ColumnEnds(t)
    BY <2>3, <1>5 DEF ColumnEnds, TInv, SInv
  <2>4. ASSUME NEW a \in Activities, Calculate(t, a) PROVE BInv'
    <3>1. CASE phase = "calc"
      BY <2>4, <3>1, CalculateBase
    <3>2. CASE phase # "calc"
      <4>1. phase = "columns" /\ AtWork(t)
        BY <2>4, <3>2, ReadyIs DEF Calculate
      <4>2. local[t] \in Slots \ {0}
        BY <3>2, <4>1, SlotOf
      <4>3. mem' = mem \/ \E n : mem' = [mem EXCEPT ![local[t]].result[a] = n]
        BY <2>4 DEF Calculate
      <4>4. mem' = mem \/ \A i \in Slots \ {local[t]} : mem'[i] = mem[i]
        BY <4>3 DEF TInv, TypeOK
      <4> QED BY <1>5, <2>4, <4>1, <4>2, <4>4 DEF Calculate
    <3> QED BY <3>1, <3>2
  <2>5. CASE ReadTotal(t)
    <3>1. CASE phase = "calc"
      BY <2>5, <3>1, ReadTotalBase
    <3>2. CASE phase # "calc"
      BY <2>5, <3>2, <1>5, SlotOf DEF ReadTotal
    <3> QED BY <3>1, <3>2
  <2>6. CASE WriteTotal(t)
    <3>1. CASE phase = "calc"
      BY <2>6, <3>1, WriteTotalBase
    <3>2. CASE phase # "calc"
      BY <2>6, <3>2, <1>5, SlotOf DEF WriteTotal, TInv, TypeOK
    <3> QED BY <3>1, <3>2
  <2> QED BY <1>6, <2>1, <2>2, <2>3, <2>4, <2>5, <2>6 DEF ThreadStep
<1>7. CASE UNCHANGED vars
  <2>1. UNCHANGED <<mem, phase, done, act, sum, loaded, lock, deriv, calls>>
    BY <1>7 DEF vars, workVars
  <2>2. BaseResults' = BaseResults /\ Calculated' = Calculated
    BY <2>1 DEF BaseResults, Calculated
  <2> QED BY <2>1, <2>2 DEF BInv, ResultsKept, UnderWay, TotalsSoFar, Modes
<1> QED BY <1>1, <1>2, <1>3, <1>4, <1>6, <1>7 DEF Next

LEMMA BaseInvariant ==
    ASSUME ResultsAreNumbers PROVE Spec => [](TInv /\ BInv)
<1>1. Init => BInv
  BY DEF Init, BInv, ResultsKept, UnderWay, TotalsSoFar, Modes
<1>2. TInv /\ BInv /\ [Next]_vars => BInv'
  BY BaseStep
<1> QED BY <1>1, <1>2, TypeInvariant, PTL DEF Spec

LEMMA TotalsAre ==
    ASSUME NEW p
    PROVE  Totals(p) = [m \in Markets |-> SumOf(Results(p), Adding(Results(p), Activities, m))]
BY DEF Totals, SumOf, Adding

\* Whatever the activities and however many threads calculate them, in whatever
\* turns they read, add to and write the totals of the markets, the solver
\* gets those of a full calculation at its prices (World::calc,
\* Market::addToDemand).
THEOREM FullCalculation ==
    ASSUME ResultsAreNumbers PROVE Spec => []BaseIsFullCalculation
<1>1. TInv /\ BInv => BaseIsFullCalculation
  <2> SUFFICES ASSUME TInv, BInv, phase \in {"ready", "columns"}, calls > 0
               PROVE  mem[0].total = Totals(mem[0].price)
    BY DEF BaseIsFullCalculation
  <2>1. Calculated = Activities
    BY DEF Calculated
  <2>2. \A m \in Markets : mem[0].total[m] = SumOf(BaseResults, Adding(BaseResults, Activities, m))
    BY <2>1 DEF BInv, TotalsSoFar
  <2>3. mem[0].total \in [Markets -> Int]
    <3>1. 0 \in Slots
      BY ActivityAssumption DEF Slots, NumStates
    <3> QED BY <3>1, StateFields DEF TInv, TypeOK
  <2>4. mem[0].total = [m \in Markets |-> SumOf(BaseResults, Adding(BaseResults, Activities, m))]
    BY <2>2, <2>3
  <2> QED BY <2>4, TotalsAre DEF BaseResults
<1> QED BY BaseInvariant, <1>1, PTL

-----------------------------------------------------------------------------
(* The columns of the Jacobian *)

Changed(t) == Bump(mem[0].price, col[t])

ChangedResults(t) == Results(Changed(t))

\* What an activity adds in place of its whole result.
Diff(t) == [a \in Activities |-> ChangedResults(t)[a] - mem[0].result[a]]

\* The activities of the column that have been calculated and added.
Added(t) == Dependencies(col[t]) \ (left[t] \cup {act[t]})

\* The state of a thread is a copy of the base state still, or ...
Copied(t) ==
    mem[local[t]] = mem[0] /\ left[t] = Dependencies(col[t]) /\ act[t] = 0

\* ... it has the changed price, the results that this price gives wherever
\* they are added to a market, and the differences added so far.
Perturbed(t) ==
    /\ deriv = TRUE /\ mem[local[t]].price = Changed(t)
    /\ left[t] \subseteq Dependencies(col[t])
    /\ \A a \in Activities \ left[t] :
          Adds(a, ChangedResults(t)[a]) => mem[local[t]].result[a] = ChangedResults(t)[a]
    /\ act[t] # 0 =>
          /\ act[t] \in Dependencies(col[t]) \ left[t] /\ Adds(act[t], ChangedResults(t)[act[t]])
          /\ t \notin loaded => sum[t] = Diff(t)[act[t]]
          /\ t \in loaded => sum[t] = mem[local[t]].total[AddsTo[act[t]]] + Diff(t)[act[t]]
    /\ \A m \in Markets :
          mem[local[t]].total[m] =
              mem[0].total[m] + SumOf(Diff(t), Adding(ChangedResults(t), Added(t), m))

CInv ==
    /\ phase = "columns" => \A t \in Threads : AtWork(t) => Copied(t) \/ Perturbed(t)
    /\ ColumnsExact
    /\ phase = "calc" => out = {}

\* A thread whose slot is left alone is where it was.
LEMMA Undisturbed ==
    ASSUME NEW t \in Threads, Copied(t) \/ Perturbed(t),
           mem'[0] = mem[0], mem'[local[t]] = mem[local[t]], local'[t] = local[t],
           col'[t] = col[t], left'[t] = left[t], act'[t] = act[t], sum'[t] = sum[t],
           t \in loaded' <=> t \in loaded, deriv = TRUE => deriv' = TRUE
    PROVE  Copied(t)' \/ Perturbed(t)'
<1>1. Changed(t)' = Changed(t)
  BY DEF Changed
<1>2. ChangedResults(t)' = ChangedResults(t)
  BY <1>1 DEF ChangedResults
<1>3. Diff(t)' = Diff(t)
  BY <1>2 DEF Diff
<1>4. Added(t)' = Added(t)
  BY DEF Added
<1>5. CASE Copied(t)
  BY <1>5 DEF Copied
<1>6. CASE Perturbed(t)
  BY <1>1, <1>2, <1>3, <1>4, <1>6 DEF Perturbed
<1> QED BY <1>5, <1>6

\* Threads at work are in different slots, so what one does leaves the others
\* where they were.
LEMMA OthersUndisturbed ==
    ASSUME TInv, CInv, phase = "columns", NEW t \in Threads,
           local[t] \in Slots \ {0} \/ mem' = mem,
           \A i \in Slots \ {local[t]} : mem'[i] = mem[i],
           UNCHANGED local, deriv = TRUE => deriv' = TRUE,
           \A u \in Threads \ {t} : /\ col'[u] = col[u] /\ left'[u] = left[u] /\ act'[u] = act[u]
                                    /\ sum'[u] = sum[u] /\ (u \in loaded' <=> u \in loaded)
    PROVE  \A u \in Threads \ {t} : AtWork(u)' => Copied(u)' \/ Perturbed(u)'
<1> SUFFICES ASSUME NEW u \in Threads, u # t, AtWork(u)'
             PROVE  Copied(u)' \/ Perturbed(u)'
  OBVIOUS
<1>1. AtWork(u)
  BY DEF AtWork
<1>2. Copied(u) \/ Perturbed(u)
  BY <1>1 DEF CInv
<1>3. local[u] \in Slots /\ local[u] # 0 /\ 0 \in Slots
  BY <1>1, SlotOf
<1>4. mem'[0] = mem[0]
  BY <1>3
<1>5. mem'[local[u]] = mem[local[u]]
  <2>1. local[t] \in Slots \ {0} => local[t] # local[u]
    <3>1. u \in Assigned /\ EachSlotOnce
      BY <1>1 DEF TInv, SInv
    <3>2. local[t] \in Slots => t \in Assigned
      BY DEF Assigned, Slots, Unassigned
    <3> QED BY <3>1, <3>2 DEF EachSlotOnce
  <2> QED BY <1>3, <2>1
<1> QED BY <1>2, <1>4, <1>5, Undisturbed

\* The columns that have been calculated stay as they are with the base state.
LEMMA ColumnsKept ==
    ASSUME ColumnsExact, mem'[0] = mem[0], out' = out PROVE ColumnsExact'
BY DEF ColumnsExact

LEMMA ChangedType ==
    ASSUME TInv, ResultsAreNumbers, NEW t \in Threads, AtWork(t)
    PROVE  /\ col[t] \in Markets /\ Changed(t) # mem[0].price
           /\ mem[0].price \in [Markets -> Int] /\ Changed(t) \in [Markets -> Int]
           /\ \A a \in Activities : /\ ChangedResults(t)[a] \in Int
                                    /\ Diff(t)[a] = ChangedResults(t)[a] - mem[0].result[a]
                                    /\ Diff(t)[a] \in Int
           /\ \A a \in Activities \ Dependencies(col[t]) : ChangedResults(t)[a] = BaseResults[a]
<1>1. col[t] \in Markets /\ mem[0] \in State
  BY SlotOf DEF AtWork, TInv, TypeOK
<1>2. mem[0].price \in [Markets -> Int] /\ mem[0].result \in [Activities -> Int]
  BY <1>1, StateFields
<1>3. Changed(t) # mem[0].price /\ Changed(t) \in [Markets -> Int]
  BY <1>1, <1>2, BumpType DEF Changed
<1>4. \A a \in Activities : ChangedResults(t)[a] \in Int
  BY <1>3, ResultsType DEF ChangedResults
<1>5. \A a \in Activities : /\ Diff(t)[a] = ChangedResults(t)[a] - mem[0].result[a]
                            /\ Diff(t)[a] \in Int
  BY <1>2, <1>4 DEF Diff
<1>6. \A a \in Activities \ Dependencies(col[t]) : ChangedResults(t)[a] = BaseResults[a]
  <2>1. \A k \in Markets \ {col[t]} : mem[0].price[k] = Changed(t)[k]
    BY <1>1, <1>2, BumpType DEF Changed
  <2>2. \A a \in Activities \ Dependencies(col[t]) : BaseResults[a] = ChangedResults(t)[a]
    BY <1>1, <2>1, OutsideUnchanged DEF BaseResults, ChangedResults
  <2> QED BY <2>2
<1> QED BY <1>1, <1>2, <1>3, <1>4, <1>5, <1>6

LEMMA CopyStateColumns ==
    ASSUME TInv, CInv, NEW t \in Threads, NEW m \in Markets, CopyState(t, m)
    PROVE  CInv'
<1>1. SInv' /\ phase = "columns" /\ ~AtWork(t)
  BY CopyStateSlots DEF CopyState, TInv
<1>2. phase' # "aborted"
  BY <1>1 DEF SInv, SlotType
<1>3. /\ mem' = [mem EXCEPT ![Slot(t)] = mem[0]]
      /\ local' = [local EXCEPT ![t] = Slot(t)]
      /\ col' = [col EXCEPT ![t] = m]
      /\ left' = [left EXCEPT ![t] = Dependencies(m)]
      /\ UNCHANGED <<deriv, phase, act, sum, loaded, out>>
  BY <1>2 DEF CopyState, StartColumn
<1>4. /\ local'[t] = Slot(t) /\ col'[t] = m /\ left'[t] = Dependencies(m) /\ act'[t] = 0
      /\ \A u \in Threads \ {t} : local'[u] = local[u] /\ col'[u] = col[u] /\ left'[u] = left[u]
  BY <1>1, <1>3 DEF TInv, TypeOK, Taken
<1>5. AtWork(t)' /\ EachSlotOnce' /\ t \in Assigned'
  BY <1>1, <1>3, <1>4 DEF SInv, AtWork, Markets, NoMarket
<1>6. Slot(t) \in Slots /\ Slot(t) # 0 /\ 0 \in Slots
  <2>1. local'[t] \in {Unassigned} \cup Slots
    BY <1>1 DEF SInv, SlotType
  <2>2. 0 \in Slots
    BY ActivityAssumption DEF Slots, NumStates
  <2> QED BY <1>4, <1>5, <2>1, <2>2 DEF EachSlotOnce, Assigned
<1>7. mem'[0] = mem[0] /\ mem'[Slot(t)] = mem[0]
  BY <1>3, <1>6 DEF TInv, TypeOK
<1>8. Copied(t)'
  BY <1>4, <1>7 DEF Copied
<1>9. ASSUME NEW u \in Threads, u # t, AtWork(u)' PROVE Copied(u)' \/ Perturbed(u)'
  <2>1. AtWork(u) /\ (Copied(u) \/ Perturbed(u))
    BY <1>1, <1>4, <1>9 DEF AtWork, CInv
  <2>2. local[u] \in Slots /\ local[u] # Slot(t)
    <3>1. u \in Assigned'
      BY <1>1, <1>9 DEF SInv
    <3> QED BY <1>4, <1>5, <1>9, <2>1, <3>1, SlotOf DEF EachSlotOnce
  <2>3. mem'[local[u]] = mem[local[u]]
    BY <1>3, <2>2 DEF TInv, TypeOK
  <2> QED BY <1>3, <1>4, <1>7, <1>9, <2>1, <2>3, Undisturbed
<1>10. ColumnsExact'
  BY <1>3, <1>7, ColumnsKept DEF CInv
<1> QED BY <1>1, <1>3, <1>8, <1>9, <1>10 DEF CInv

LEMMA SetPriceColumns ==
    ASSUME TInv, BInv, CInv, ResultsAreNumbers, NEW t \in Threads, SetPrice(t)
    PROVE  CInv'
<1>1. /\ phase = "columns" /\ AtWork(t) /\ local[t] \in Slots /\ local[t] # 0 /\ 0 \in Slots
      /\ mem[local[t]] \in State
  BY SlotOf DEF SetPrice, TInv, SInv
<1>2. /\ mem[local[t]].price = mem[0].price /\ deriv' = TRUE
      /\ mem' = [mem EXCEPT ![local[t]].price = Bump(mem[local[t]].price, col[t])]
      /\ UNCHANGED <<local, phase, col, left, act, sum, loaded, out>>
  BY DEF SetPrice, workVars
<1>3. /\ mem'[local[t]].price = Changed(t)
      /\ mem'[local[t]].result = mem[local[t]].result /\ mem'[local[t]].total = mem[local[t]].total
      /\ \A i \in Slots \ {local[t]} : mem'[i] = mem[i]
  <2>1. mem'[local[t]] = [mem[local[t]] EXCEPT !.price = Changed(t)]
    BY <1>1, <1>2 DEF Changed, TInv, TypeOK
  <2> QED BY <1>1, <1>2, <2>1 DEF State, TInv, TypeOK
<1>4. mem'[0] = mem[0]
  BY <1>1, <1>3
<1>5. mem[local[t]] = mem[0] /\ left[t] = Dependencies(col[t]) /\ act[t] = 0
  <2>1. Changed(t) # mem[0].price
    BY <1>1, ChangedType
  <2>2. ~Perturbed(t)
    BY <1>2, <2>1 DEF Perturbed
  <2> QED BY <1>1, <2>2 DEF CInv, Copied
<1>6. /\ Changed(t)' = Changed(t) /\ ChangedResults(t)' = ChangedResults(t) /\ Diff(t)' = Diff(t)
  <2>1. Changed(t)' = Changed(t)
    BY <1>2, <1>4 DEF Changed
  <2>2. ChangedResults(t)' = ChangedResults(t)
    BY <2>1 DEF ChangedResults
  <2> QED BY <1>4, <2>1, <2>2 DEF Diff
<1>7. Perturbed(t)'
  <2>1. \A a \in Activities \ left[t] :
            Adds(a, ChangedResults(t)[a]) => mem'[local[t]].result[a] = ChangedResults(t)[a]
    <3>1. calls > 0 /\ Calculated = Activities
      BY <1>1 DEF BInv, Modes, Calculated
    <3> QED BY <1>1, <1>3, <1>5, <3>1, ChangedType DEF BInv, ResultsKept
  <2>2. ASSUME NEW m \in Markets
        PROVE  mem'[local[t]].total[m] =
                  mem'[0].total[m] + SumOf(Diff(t), Adding(ChangedResults(t), Added(t)', m))
    <3>1. Adding(ChangedResults(t), Added(t)', m) = {}
      BY <1>2, <1>5 DEF Added, Adding
    <3>2. mem[0].total[m] \in Int
      BY SlotOf, <1>1, StateFields
    <3> QED BY <1>3, <1>4, <1>5, <3>1, <3>2, SumEmpty
  <2> QED BY <1>2, <1>3, <1>5, <1>6, <2>1, <2>2 DEF Perturbed
<1>8. \A u \in Threads \ {t} : AtWork(u)' => Copied(u)' \/ Perturbed(u)'
  BY <1>1, <1>2, <1>3, OthersUndisturbed
<1>9. ColumnsExact'
  BY <1>2, <1>4, ColumnsKept DEF CInv
<1> QED BY <1>1, <1>2, <1>7, <1>8, <1>9 DEF CInv

\* In a column an activity comes to what it should: its input was calculated
\* before it, or does not depend on the price.
LEMMA CalculateColumns ==
    ASSUME TInv, CInv, ResultsAreNumbers, phase = "columns",
           NEW t \in Threads, NEW a \in Activities, Calculate(t, a)
    PROVE  CInv'
<1>1. /\ act[t] = 0 /\ AtWork(t) /\ mem[local[t]].price # mem[0].price
      /\ a \in left[t] /\ \A b \in left[t] : a <= b
  <2>1. act[t] = 0 /\ a \in Ready(t)
    BY DEF Calculate
  <2> QED BY <2>1, ReadyIs
<1>2. /\ local[t] \in Slots /\ local[t] # 0 /\ 0 \in Slots /\ TypeOK
      /\ left[t] \in SUBSET Activities
  BY <1>1, SlotOf DEF TInv, TypeOK
<1>3. Perturbed(t)
  BY <1>1 DEF CInv, Copied
<1> DEFINE c == ChangedResults(t)
           n == c[a]
           D == Dependencies(col[t])
<1>4. n \in Int /\ Diff(t)[a] = n - mem[0].result[a]
  BY <1>1, ChangedType
<1>5. n = Result(a, mem[local[t]].price[ReadsPrice[a]],
                 IF Input[a] = 0 THEN 0 ELSE mem[local[t]].result[Input[a]])
  <2>1. Input[a] # 0 => mem[local[t]].result[Input[a]] = c[Input[a]]
    <3> SUFFICES ASSUME Input[a] # 0 PROVE mem[local[t]].result[Input[a]] = c[Input[a]]
      OBVIOUS
    <3>1. /\ Input[a] \in Activities /\ Input[a] < a /\ Input[a] \in Nat /\ a \in Nat
          /\ Adds(Input[a], c[Input[a]])
      BY ActivityNumbers DEF Adds
    <3>2. Input[a] \notin left[t]
      BY <1>1, <3>1
    <3> QED BY <1>3, <3>1, <3>2 DEF Perturbed
  <2>2. (IF Input[a] = 0 THEN 0 ELSE mem[local[t]].result[Input[a]])
            = IF Input[a] = 0 THEN 0 ELSE c[Input[a]]
    BY <2>1
  <2> QED BY <1>3, <2>2, ResultsAre DEF Perturbed, ChangedResults
<1>6. /\ left' = [left EXCEPT ![t] = left[t] \ {a}]
      /\ UNCHANGED <<local, deriv, phase, col, loaded, out>>
  BY <1>2 DEF Calculate, TypeOK
<1>7. a \in D /\ a # 0 /\ 0 \notin D /\ D \in SUBSET Activities /\ t \notin loaded
  BY <1>1, <1>3, ActivityNumbers, DependenciesAre DEF Perturbed, TInv, Taken
<1>8. /\ left'[t] = left[t] \ {a} /\ \A u \in Threads \ {t} : left'[u] = left[u]
  BY <1>2, <1>6 DEF TypeOK
<1>9. CASE Adds(a, n)
  <2>1. /\ mem' = [mem EXCEPT ![local[t]].result[a] = n]
        /\ act' = [act EXCEPT ![t] = a]
        /\ sum' = [sum EXCEPT ![t] = Diff(t)[a]]
    BY <1>3, <1>4, <1>5, <1>9 DEF Calculate, Contribution, Perturbed
  <2>2. /\ mem'[local[t]].price = mem[local[t]].price /\ mem'[local[t]].total = mem[local[t]].total
        /\ mem'[local[t]].result = [mem[local[t]].result EXCEPT ![a] = n]
        /\ mem[local[t]].result \in [Activities -> Int]
        /\ \A i \in Slots \ {local[t]} : mem'[i] = mem[i]
    <3>1. PICK k \in Slots, x \in Int : k = local[t] /\ x = n
      BY <1>2, <1>4
    <3>2. mem' = [mem EXCEPT ![k].result[a] = x]
      BY <2>1, <3>1
    <3>3. /\ mem'[k].price = mem[k].price /\ mem'[k].total = mem[k].total
          /\ mem'[k].result = [mem[k].result EXCEPT ![a] = x]
          /\ mem[k].result \in [Activities -> Int]
          /\ \A i \in Slots \ {k} : mem'[i] = mem[i]
      <4> HIDE DEF n, c, D
      <4> QED BY <1>2, <3>2, Stored
    <3> QED BY <3>1, <3>3
  <2>3. mem'[0] = mem[0]
    BY <1>2, <2>2
  <2>4. /\ act'[t] = a /\ sum'[t] = Diff(t)[a]
        /\ \A u \in Threads \ {t} : act'[u] = act[u] /\ sum'[u] = sum[u]
    BY <1>2, <2>1 DEF TypeOK
  <2>5. /\ Changed(t)' = Changed(t) /\ ChangedResults(t)' = c /\ Diff(t)' = Diff(t)
    BY <1>6, <2>3 DEF Changed, ChangedResults, Diff
  <2>6. Added(t)' = Added(t)
    BY <1>1, <1>6, <1>7, <1>8, <2>4 DEF Added
  <2>7. Perturbed(t)'
    <3>1. \A b \in Activities \ left'[t] : Adds(b, c[b]) => mem'[local[t]].result[b] = c[b]
      BY <1>3, <1>8, <2>2 DEF Perturbed
    <3>2. \A m \in Markets : mem'[local[t]].total[m] = mem[0].total[m] + SumOf(Diff(t), Adding(c, Added(t), m))
      BY <1>3, <2>2 DEF Perturbed
    <3>3. left'[t] \subseteq D /\ a \in D \ left'[t]
      BY <1>3, <1>7, <1>8 DEF Perturbed
    <3>4. deriv' = TRUE /\ mem'[local'[t]].price = Changed(t)
      BY <1>3, <1>6, <2>2 DEF Perturbed
    <3> QED BY <1>6, <1>7, <1>9, <2>3, <2>4, <2>5, <2>6, <3>1, <3>2, <3>3, <3>4 DEF Perturbed
  <2>8. \A u \in Threads \ {t} : AtWork(u)' => Copied(u)' \/ Perturbed(u)'
    BY <1>2, <1>6, <1>8, <2>2, <2>4, OthersUndisturbed
  <2>9. ColumnsExact'
    BY <1>6, <2>3, ColumnsKept DEF CInv
  <2> QED BY <1>6, <2>7, <2>8, <2>9 DEF CInv
<1>10. CASE ~Adds(a, n)
  <2>1. UNCHANGED <<mem, act, sum>>
    BY <1>5, <1>10 DEF Calculate
  <2>2. /\ Changed(t)' = Changed(t) /\ ChangedResults(t)' = c /\ Diff(t)' = Diff(t)
    BY <1>6, <2>1 DEF Changed, ChangedResults, Diff
  <2>3. \A m : Adding(c, Added(t)', m) = Adding(c, Added(t), m)
    BY <1>6, <1>8, <1>10, <2>1 DEF Added, Adding
  <2>4. Perturbed(t)'
    <3>1. \A b \in Activities \ left'[t] : Adds(b, c[b]) => mem[local[t]].result[b] = c[b]
      BY <1>3, <1>8, <1>10 DEF Perturbed
    <3>2. \A m \in Markets : mem[local[t]].total[m] = mem[0].total[m] + SumOf(Diff(t), Adding(c, Added(t)', m))
      BY <1>3, <2>3 DEF Perturbed
    <3>3. left'[t] \subseteq D
      BY <1>3, <1>8 DEF Perturbed
    <3> QED BY <1>1, <1>3, <1>6, <2>1, <2>2, <3>1, <3>2, <3>3 DEF Perturbed
  <2>5. \A u \in Threads \ {t} : AtWork(u)' => Copied(u)' \/ Perturbed(u)'
    BY <1>2, <1>6, <1>8, <2>1, OthersUndisturbed
  <2>6. ColumnsExact'
    BY <1>6, <2>1, ColumnsKept DEF CInv
  <2> QED BY <1>6, <2>4, <2>5, <2>6 DEF CInv
<1> QED BY <1>9, <1>10

LEMMA ReadTotalColumns ==
    ASSUME TInv, CInv, phase = "columns", NEW t \in Threads, ReadTotal(t)
    PROVE  CInv'
<1>1. act[t] # 0 /\ t \notin loaded /\ AtWork(t) /\ Perturbed(t)
  BY SlotOf DEF ReadTotal, CInv, Copied
<1>2. /\ sum' = [sum EXCEPT ![t] = mem[local[t]].total[AddsTo[act[t]]] + sum[t]]
      /\ loaded' = loaded \cup {t}
      /\ UNCHANGED <<mem, local, deriv, phase, col, left, act, out>>
  BY DEF ReadTotal, TInv, TypeOK
<1>3. /\ sum'[t] = mem[local[t]].total[AddsTo[act[t]]] + sum[t]
      /\ \A u \in Threads \ {t} : sum'[u] = sum[u]
  BY <1>2 DEF TInv, TypeOK
<1>4. /\ Changed(t)' = Changed(t) /\ ChangedResults(t)' = ChangedResults(t) /\ Diff(t)' = Diff(t)
      /\ Added(t)' = Added(t)
  BY <1>2 DEF Changed, ChangedResults, Diff, Added
<1>5. Perturbed(t)'
  BY <1>1, <1>2, <1>3, <1>4 DEF Perturbed
<1>6. \A u \in Threads \ {t} : AtWork(u)' => Copied(u)' \/ Perturbed(u)'
  BY <1>2, <1>3, OthersUndisturbed
<1>7. ColumnsExact'
  BY <1>2, ColumnsKept DEF CInv
<1> QED BY <1>2, <1>5, <1>6, <1>7 DEF CInv

LEMMA WriteTotalColumns ==
    ASSUME TInv, CInv, ResultsAreNumbers, phase = "columns", NEW t \in Threads, WriteTotal(t)
    PROVE  CInv'
<1> DEFINE a == act[t]
           m == AddsTo[a]
           c == ChangedResults(t)
           D == Dependencies(col[t])
<1>1. /\ a # 0 /\ t \in loaded /\ AtWork(t) /\ Perturbed(t) /\ a \in Activities /\ m \in Markets
      /\ local[t] \in Slots /\ local[t] # 0 /\ 0 \in Slots
  BY SlotOf DEF WriteTotal, CInv, Copied
<1>2. /\ mem' = [mem EXCEPT ![local[t]].total[m] = sum[t]]
      /\ act' = [act EXCEPT ![t] = 0]
      /\ sum' = [sum EXCEPT ![t] = 0]
      /\ loaded' = loaded \ {t}
      /\ UNCHANGED <<local, deriv, phase, col, left, out>>
  BY DEF WriteTotal
<1>3. /\ mem'[local[t]].price = mem[local[t]].price /\ mem'[local[t]].result = mem[local[t]].result
      /\ mem'[local[t]].total = [mem[local[t]].total EXCEPT ![m] = sum[t]]
      /\ mem[local[t]].total \in [Markets -> Int]
      /\ \A i \in Slots \ {local[t]} : mem'[i] = mem[i]
  <2>1. PICK k \in Slots, l \in Markets, x \in Int : k = local[t] /\ l = m /\ x = sum[t]
    BY <1>1 DEF TInv, TypeOK
  <2>2. mem' = [mem EXCEPT ![k].total[l] = x] /\ TypeOK
    BY <1>2, <2>1 DEF TInv
  <2>3. /\ mem'[k].price = mem[k].price /\ mem'[k].result = mem[k].result
        /\ mem'[k].total = [mem[k].total EXCEPT ![l] = x]
        /\ mem[k].total \in [Markets -> Int]
        /\ \A i \in Slots \ {k} : mem'[i] = mem[i]
    <3> HIDE DEF a, m, c, D
    <3> QED BY <2>2, Totalled
  <2> HIDE DEF a, m, c, D
  <2> QED BY <2>1, <2>3
<1>4. mem'[0] = mem[0]
  BY <1>1, <1>3
<1>5. /\ act'[t] = 0
      /\ \A u \in Threads \ {t} : /\ act'[u] = act[u] /\ sum'[u] = sum[u]
                                  /\ (u \in loaded' <=> u \in loaded)
  BY <1>2 DEF TInv, TypeOK
<1>6. /\ Changed(t)' = Changed(t) /\ ChangedResults(t)' = c /\ Diff(t)' = Diff(t)
  BY <1>2, <1>4 DEF Changed, ChangedResults, Diff
<1>7. /\ a \in D \ left[t] /\ Adds(a, c[a])
      /\ sum[t] = mem[local[t]].total[m] + Diff(t)[a]
      /\ D \in SUBSET Activities /\ 0 \notin D
  BY <1>1, DependenciesAre, ActivityNumbers DEF Perturbed
<1>8. Added(t)' = Added(t) \cup {a} /\ a \notin Added(t) /\ Added(t) \in SUBSET Activities
  BY <1>2, <1>5, <1>7 DEF Added
<1>9. ASSUME NEW k \in Markets
      PROVE  mem'[local[t]].total[k] = mem[0].total[k] + SumOf(Diff(t), Adding(c, Added(t)', k))
  <2>1. mem[local[t]].total[k] = mem[0].total[k] + SumOf(Diff(t), Adding(c, Added(t), k))
    BY <1>1 DEF Perturbed
  <2>2. CASE k = m
    <3> DEFINE S == Adding(c, Added(t), m)
               d == Diff(t)
    <3>1. S \in SUBSET Activities /\ a \notin S
      BY <1>8 DEF Adding
    <3>2. IsFiniteSet(S) /\ \A b \in S \cup {a} : d[b] \in Int
      BY <1>1, <3>1, ActivityNumbers, FS_Subset, ChangedType
    <3>3. SumOf(d, S \cup {a}) = SumOf(d, S) + d[a] /\ SumOf(d, S) \in Int /\ d[a] \in Int
      <4> HIDE DEF S, d, a
      <4>1. \A b \in S : d[b] \in Int
        BY <3>2
      <4> QED BY <3>1, <3>2, <4>1, SumAdd, SumType
    <3>4. Adding(c, Added(t)', m) = S \cup {a}
      BY <1>7, <1>8 DEF Adding
    <3>5. mem'[local[t]].total[m] = mem[local[t]].total[m] + d[a]
      BY <1>1, <1>3, <1>7
    <3>6. mem[0].total[m] \in Int
      BY <1>1, SlotOf, StateFields
    <3>7. PICK x, y \in Int : x = SumOf(d, S) /\ y = mem[0].total[m]
      BY <3>3, <3>6
    <3>8. mem[local[t]].total[m] = y + x
      BY <2>1, <2>2, <3>7
    <3>9. mem'[local[t]].total[m] = y + (x + d[a])
      <4> HIDE DEF d, S
      <4> QED BY <3>3, <3>5, <3>7, <3>8
    <3> QED BY <2>2, <3>3, <3>4, <3>7, <3>9
  <2>3. CASE k # m
    <3>1. Adding(c, Added(t)', k) = Adding(c, Added(t), k)
      BY <2>3, <1>8 DEF Adding
    <3>2. mem'[local[t]].total[k] = mem[local[t]].total[k]
      BY <2>3, <1>3
    <3> QED BY <2>1, <3>1, <3>2
  <2> QED BY <2>2, <2>3
<1>10. Perturbed(t)'
  <2>1. deriv' = TRUE /\ mem'[local'[t]].price = Changed(t) /\ left'[t] \subseteq D
    BY <1>1, <1>2, <1>3 DEF Perturbed
  <2>2. \A b \in Activities \ left[t] : Adds(b, c[b]) => mem'[local[t]].result[b] = c[b]
    BY <1>1, <1>3 DEF Perturbed
  <2> QED BY <1>2, <1>4, <1>5, <1>6, <1>9, <2>1, <2>2 DEF Perturbed
<1>11. \A u \in Threads \ {t} : AtWork(u)' => Copied(u)' \/ Perturbed(u)'
  BY <1>1, <1>2, <1>3, <1>5, OthersUndisturbed
<1>12. ColumnsExact'
  BY <1>2, <1>4, ColumnsKept DEF CInv
<1> QED BY <1>2, <1>10, <1>11, <1>12 DEF CInv

\* What a column comes to when all its activities have been calculated.
LEMMA ColumnComplete ==
    ASSUME TInv, BInv, ResultsAreNumbers, phase = "columns",
           NEW t \in Threads, AtWork(t), Perturbed(t), left[t] = {}, act[t] = 0,
           \A a \in Dependencies(col[t]) : /\ Adds(a, BaseResults[a])
                                           /\ Adds(a, ChangedResults(t)[a])
    PROVE  mem[local[t]].total = Totals(Changed(t))
<1> DEFINE c == ChangedResults(t)
           r == BaseResults
           d == Diff(t)
           D == Dependencies(col[t])
<1>1. \A a \in Activities : c[a] \in Int /\ r[a] \in Int /\ (a \notin D => c[a] = r[a])
  BY ChangedType, BaseResultsType
<1>2. calls > 0 /\ Calculated = Activities
  BY DEF BInv, Modes, Calculated
<1>3. \A a \in D : d[a] = c[a] - r[a]
  <2>1. D \in SUBSET Activities
    BY DependenciesAre
  <2>2. \A a \in D : mem[0].result[a] = r[a]
    BY <1>2, <2>1 DEF BInv, ResultsKept
  <2> QED BY <2>1, <2>2, ChangedType
<1>4. ASSUME NEW m \in Markets
      PROVE  mem[local[t]].total[m] = SumOf(c, Adding(c, Activities, m))
  <2> DEFINE S == Adding(c, Activities, m)
  <2>1. S = Adding(r, Activities, m)
    BY <1>1, DependenciesAre DEF Adding
  <2>2. S \cap D = Adding(c, Added(t), m)
    BY DependenciesAre, ActivityNumbers DEF Adding, Added
  <2>3. S \in SUBSET Activities /\ IsFiniteSet(S)
    <3>1. S \in SUBSET Activities
      BY DEF Adding
    <3> QED BY <3>1, ActivityNumbers, FS_Subset
  <2>4. SumOf(c, S) = SumOf(r, S) + SumOf(d, S \cap D)
    <3>1. \A a \in S : r[a] \in Int /\ c[a] \in Int
      BY <1>1, <2>3
    <3>2. \A a \in S \ D : c[a] = r[a]
      BY <1>1, <2>3
    <3>3. \A a \in S \cap D : d[a] = c[a] - r[a]
      BY <1>3
    <3>4. IsFiniteSet(S)
      BY <2>3
    <3> HIDE DEF S, D, c, r, d
    <3>5. PICK s, e, f, g, x : s = S /\ e = D /\ f = r /\ g = c /\ x = d
      OBVIOUS
    <3>6. IsFiniteSet(s) /\ \A a \in s : f[a] \in Int /\ g[a] \in Int
      BY <3>1, <3>4, <3>5
    <3>7. (\A a \in s : a \notin s \cap e => g[a] = f[a]) /\ \A a \in s \cap e : x[a] = g[a] - f[a]
      BY <3>2, <3>3, <3>5
    <3>8. SumOf(g, s) = SumOf(f, s) + SumOf(x, s \cap e)
      BY <3>6, <3>7, SumDifference
    <3> QED BY <3>5, <3>8
  <2>5. mem[0].total[m] = SumOf(r, S)
    BY <1>2, <2>1 DEF BInv, TotalsSoFar
  <2>6. mem[local[t]].total[m] = mem[0].total[m] + SumOf(d, Adding(c, Added(t), m))
    BY DEF Perturbed
  <2> QED BY <2>2, <2>4, <2>5, <2>6
<1>5. mem[local[t]].total \in [Markets -> Int]
  BY SlotOf, StateFields
<1>6. mem[local[t]].total = [m \in Markets |-> SumOf(c, Adding(c, Activities, m))]
  <2> HIDE DEF c
  <2> QED BY <1>4, <1>5
<1> QED BY <1>6, TotalsAre DEF ChangedResults

LEMMA ColumnEndsColumns ==
    ASSUME TInv, BInv, CInv, ResultsAreNumbers, NEW t \in Threads, ColumnEnds(t)
    PROVE  CInv'
<1>1. /\ AtWork(t) /\ left[t] = {} /\ act[t] = 0 /\ phase = "columns" /\ Perturbed(t)
      /\ out' = out \cup {<<col[t], mem[local[t]].total>>}
      /\ col' = [col EXCEPT ![t] = NoMarket]
      /\ UNCHANGED <<mem, local, deriv, phase, left, act, sum, loaded>>
  <2>1. AtWork(t) /\ mem[local[t]].price # mem[0].price
    BY DEF ColumnEnds
  <2>2. phase = "columns"
    BY <2>1 DEF TInv, SInv
  <2>3. Perturbed(t)
    BY <2>1, <2>2 DEF CInv, Copied
  <2> QED BY <2>2, <2>3 DEF ColumnEnds
<1>2. ~AtWork(t)' /\ \A u \in Threads \ {t} : col'[u] = col[u]
  BY <1>1 DEF AtWork, TInv, TypeOK
<1>3. \A u \in Threads \ {t} : AtWork(u)' => Copied(u)' \/ Perturbed(u)'
  BY <1>1, <1>2, OthersUndisturbed
<1>4. ColumnsExact'
  <2> SUFFICES ASSUME NEW x \in out',
                      \A a \in Dependencies(x[1]) :
                          /\ Adds(a, Results(mem[0].price)[a])
                          /\ Adds(a, Results(Bump(mem[0].price, x[1]))[a])
               PROVE  x[2] = Totals(Bump(mem[0].price, x[1]))
    BY <1>1 DEF ColumnsExact
  <2>1. CASE x \in out
    BY <2>1 DEF CInv, ColumnsExact
  <2>2. CASE x \notin out
    <3>1. x = <<col[t], mem[local[t]].total>>
      BY <1>1, <2>2
    <3>2. x[1] = col[t] /\ x[2] = mem[local[t]].total
      BY <3>1
    <3> QED BY <1>1, <3>2, ColumnComplete DEF BaseResults, ChangedResults, Changed
  <2> QED BY <2>1, <2>2
<1> QED BY <1>1, <1>2, <1>3, <1>4 DEF CInv

LEMMA ColumnsStep ==
    ASSUME ResultsAreNumbers PROVE TInv /\ BInv /\ CInv /\ [Next]_vars => CInv'
<1> SUFFICES ASSUME TInv, BInv, CInv, [Next]_vars PROVE CInv'
  OBVIOUS
<1>1. ASSUME NEW p \in [Markets -> Prices], Evaluate(p) PROVE CInv'
  BY <1>1 DEF Evaluate, CInv, ColumnsExact
<1>2. CASE EvaluateEnds
  BY <1>2 DEF EvaluateEnds, CInv, ColumnsExact
<1>3. CASE FDJac
  BY <1>3 DEF FDJac, CInv, ColumnsExact, TInv, SInv, AtWork
<1>4. CASE FDJacEnds
  BY <1>4, ColumnsKept DEF FDJacEnds, CInv
\* In a full calculation no column is at work or has been calculated.
<1>5. ASSUME phase = "calc", phase' = phase, out' = out PROVE CInv'
  BY <1>5 DEF CInv, ColumnsExact
<1>6. ASSUME NEW t \in Threads, ThreadStep(t) PROVE CInv'
  <2>1. ASSUME NEW m \in Markets, CopyState(t, m) PROVE CInv'
    BY <2>1, CopyStateColumns
  <2>2. CASE SetPrice(t)
    BY <2>2, SetPriceColumns
  <2>3. CASE ColumnEnds(t)
    BY <2>3, ColumnEndsColumns
  <2>4. ASSUME NEW a \in Activities, Calculate(t, a) PROVE CInv'
    <3>1. phase = "calc" \/ phase = "columns"
      BY <2>4, ReadyIs DEF Calculate
    <3> QED BY <1>5, <2>4, <3>1, CalculateColumns DEF Calculate
  <2>5. CASE ReadTotal(t)
    <3>1. phase = "calc" \/ phase = "columns"
      BY <2>5, SlotOf DEF ReadTotal
    <3> QED BY <1>5, <2>5, <3>1, ReadTotalColumns DEF ReadTotal
  <2>6. CASE WriteTotal(t)
    <3>1. phase = "calc" \/ phase = "columns"
      BY <2>6, SlotOf DEF WriteTotal
    <3> QED BY <1>5, <2>6, <3>1, WriteTotalColumns DEF WriteTotal
  <2> QED BY <1>6, <2>1, <2>2, <2>3, <2>4, <2>5, <2>6 DEF ThreadStep
<1>7. CASE UNCHANGED vars
  <2>1. UNCHANGED <<mem, local, phase, col, left, act, sum, loaded, deriv, out>>
    BY <1>7 DEF vars, workVars
  <2>2. \A t \in Threads : (Copied(t) \/ Perturbed(t)) => Copied(t)' \/ Perturbed(t)'
    BY <2>1, Undisturbed
  <2>3. \A t \in Threads : AtWork(t)' => AtWork(t)
    BY <2>1 DEF AtWork
  <2> QED BY <2>1, <2>2, <2>3, ColumnsKept DEF CInv
<1> QED BY <1>1, <1>2, <1>3, <1>4, <1>6, <1>7 DEF Next

\* Whatever the activities and however many threads share the columns out, each
\* column of the Jacobian is the difference a full calculation at the changed
\* price would make, although a thread adds only differences to a copy and
\* calculates only what the price reaches (fdjac, LogEDFun, Value::getDiff),
\* as long as nothing the price reaches keeps silent about its result.
THEOREM ExactColumns ==
    ASSUME ResultsAreNumbers PROVE Spec => []ColumnsExact
<1>1. Init => CInv
  BY DEF Init, CInv, ColumnsExact
<1>2. TInv /\ BInv /\ CInv /\ [Next]_vars => CInv'
  BY ColumnsStep
<1>3. CInv => ColumnsExact
  BY DEF CInv
<1> QED BY <1>1, <1>2, <1>3, BaseInvariant, PTL DEF Spec

=============================================================================
