------------------------- MODULE RedisJobStoreKeys --------------------------
(***************************************************************************)
(* What the operators that the Lua scripts are made of do to the keys of   *)
(* the store, for every value of the constants.                            *)
(*                                                                         *)
(* The keys are Right when every zset, counter and index says of a job, a  *)
(* row or a dedup key what its hash says; they are RightBut(id) when only  *)
(* the place of job id is out: a script has taken it from one zset and not *)
(* put it into the next yet.  Each helper has one lemma, <Helper>Is, that  *)
(* says which of the two it needs and which it leaves, and what it does    *)
(* not touch.                                                              *)
(***************************************************************************)
EXTENDS RedisJobStore, FiniteSetTheorems, WellFoundedInduction, TLAPS

-----------------------------------------------------------------------------
(* Folds over the members of a set                                         *)

Less == {p \in Nat \X Nat : p[1] < p[2]}

LEMMA LeastNumber ==
    ASSUME NEW T \in SUBSET Nat, T # {}
    PROVE  \E n \in T : \A m \in T : n <= m
<1>1. IsWellFoundedOn(Less, Nat)
  BY NatLessThanWellFounded, Zenon DEF OpToRel, Less
<1>2. \E x \in T : \A y \in T : ~ (<<y, x>> \in Less)
  BY <1>1, WFMin
<1>3. \A m, n \in Nat : m < n => <<m, n>> \in Less
  BY DEF Less
<1>4. PICK n \in T : \A m \in T : <<m, n>> \notin Less
  BY <1>2
<1>5. ASSUME NEW m \in T PROVE n <= m
  <2>1. m \in Nat /\ n \in Nat /\ <<m, n>> \notin Less
    BY <1>4
  <2>2. ~ (m < n)
    BY <1>3, <2>1
  <2> QED
    BY <2>1, <2>2
<1> QED
  BY <1>4, <1>5

LEMMA SubsetsFinite ==
    ASSUME NEW S, IsFiniteSet(S), NEW s \in SUBSET S
    PROVE  /\ IsFiniteSet(s) /\ Cardinality(s) \in Nat
           /\ Cardinality(s) = 0 <=> s = {}
           /\ \A x \in s : Cardinality(s \ {x}) = Cardinality(s) - 1
<1>1. IsFiniteSet(s)
  BY FS_Subset
<1>2. Cardinality(s) \in Nat /\ (Cardinality(s) = 0 <=> s = {})
  BY <1>1, FS_CardinalityType, FS_EmptySet
<1>3. ASSUME NEW x \in s PROVE Cardinality(s \ {x}) = Cardinality(s) - 1
  BY <1>1, FS_RemoveElement
<1> QED
  BY <1>1, <1>2, <1>3

\* The element a fold takes first.
First(s) == CHOOSE x \in s : TRUE

LEMMA FirstIn == ASSUME NEW s, s # {} PROVE First(s) \in s
BY DEF First

(* What holds of the empty set, and of a set whenever it holds without the *)
(* set's first element, holds of every subset of a finite set.             *)
LEMMA FoldInduction ==
    ASSUME NEW S, IsFiniteSet(S), NEW T, {} \in T,
           \A s \in SUBSET S : s # {} /\ s \ {First(s)} \in T => s \in T
    PROVE  \A s \in SUBSET S : s \in T
<1> DEFINE Bad == {s \in SUBSET S : s \notin T}
           Sizes == {Cardinality(s) : s \in Bad}
<1> SUFFICES ASSUME Bad # {} PROVE FALSE
  OBVIOUS
<1>1. \A s \in SUBSET S : Cardinality(s) \in Nat
  BY SubsetsFinite
<1>2. Sizes \in SUBSET Nat /\ Sizes # {}
  BY <1>1
<1>3. PICK s \in Bad : \A u \in Bad : Cardinality(s) <= Cardinality(u)
  <2>1. PICK n \in Sizes : \A m \in Sizes : n <= m
    <3> HIDE DEF Sizes
    <3> QED
      BY <1>2, LeastNumber
  <2>2. PICK s \in Bad : n = Cardinality(s)
    OBVIOUS
  <2>3. \A u \in Bad : Cardinality(u) \in Sizes
    OBVIOUS
  <2> QED
    BY <2>1, <2>2, <2>3
<1>4. s # {} /\ First(s) \in s /\ s \in SUBSET S
  BY FirstIn
<1>5. s \ {First(s)} \in SUBSET S /\ s \ {First(s)} \in Bad
  BY <1>4
<1>6. Cardinality(s) \in Nat /\ Cardinality(s \ {First(s)}) = Cardinality(s) - 1
  BY <1>4, SubsetsFinite
<1>7. Cardinality(s) <= Cardinality(s \ {First(s)})
  BY <1>3, <1>5
<1> QED
  BY <1>6, <1>7

\* it is the recursive function by which a fold over S is defined.
FoldOf(it, S, base, G) ==
    \A s \in SUBSET S : it[s] = IF s = {} THEN base
                                ELSE G[<<First(s), it[s \ {First(s)}]>>]

LEMMA FoldExists ==
    ASSUME NEW S, IsFiniteSet(S), NEW X, NEW base \in X,
           NEW G \in [S \X X -> X]
    PROVE  \E it \in [SUBSET S -> X] : FoldOf(it, S, base, G)
<1> DEFINE Small(n) == {s \in SUBSET S : Cardinality(s) <= n}
           Upto(n, it) == \A s \in Small(n) :
                it[s] = IF s = {} THEN base
                        ELSE G[<<First(s), it[s \ {First(s)}]>>]
           T == {n \in Nat : \E it \in [Small(n) -> X] : Upto(n, it)}
<1>0. \A s \in SUBSET S : /\ Cardinality(s) \in Nat
                          /\ Cardinality(s) = 0 <=> s = {}
                          /\ \A x \in s : Cardinality(s \ {x}) = Cardinality(s) - 1
  BY SubsetsFinite
<1>1. 0 \in T
  <2>1. Small(0) = {{}}
    BY <1>0
  <2>2. [s \in Small(0) |-> base] \in [Small(0) -> X]
    OBVIOUS
  <2>3. Upto(0, [s \in Small(0) |-> base])
    BY <2>1
  <2> QED
    BY <2>2, <2>3
<1>2. ASSUME NEW n \in T PROVE n + 1 \in T
  <2>1. n \in Nat /\ n + 1 \in Nat
    OBVIOUS
  <2>2. PICK it \in [Small(n) -> X] : Upto(n, it)
    OBVIOUS
  <2> DEFINE it2 == [s \in Small(n + 1) |->
                       IF s = {} THEN base
                       ELSE G[<<First(s), it[s \ {First(s)}]>>]]
  <2>3. ASSUME NEW s \in Small(n + 1), s # {}
        PROVE  s \ {First(s)} \in Small(n) /\ First(s) \in S
    <3>1. First(s) \in s
      BY <2>3, FirstIn
    <3>2. Cardinality(s \ {First(s)}) = Cardinality(s) - 1 /\ Cardinality(s) \in Nat
      BY <1>0, <3>1
    <3> QED
      BY <2>1, <3>1, <3>2
  <2>4. ASSUME NEW s \in Small(n + 1)
        PROVE  (IF s = {} THEN base ELSE G[<<First(s), it[s \ {First(s)}]>>]) \in X
    <3>1. CASE s = {}
      BY <3>1
    <3>2. CASE s # {}
      <4>1. it[s \ {First(s)}] \in X /\ First(s) \in S
        BY <2>2, <2>3, <3>2
      <4> QED
        BY <3>2, <4>1
    <3> QED
      BY <3>1, <3>2
  <2>5. it2 \in [Small(n + 1) -> X]
    BY <2>4
  <2>6. ASSUME NEW s \in Small(n) PROVE it2[s] = it[s]
    <3>1. s \in Small(n + 1)
      BY <1>0, <2>1
    <3> QED
      BY <2>2, <3>1
  <2>7. Upto(n + 1, it2)
    <3> SUFFICES ASSUME NEW s \in Small(n + 1)
                 PROVE  it2[s] = IF s = {} THEN base
                                 ELSE G[<<First(s), it2[s \ {First(s)}]>>]
      OBVIOUS
    <3>1. CASE s = {}
      BY <3>1
    <3>2. CASE s # {}
      <4>1. s \ {First(s)} \in Small(n)
        BY <2>3, <3>2
      <4>2. it2[s \ {First(s)}] = it[s \ {First(s)}]
        BY <2>6, <4>1
      <4> QED
        BY <3>2, <4>2
    <3> QED
      BY <3>1, <3>2
  <2> HIDE DEF Upto, it2
  <2> QED
    BY <2>1, <2>5, <2>7
<1>3. T = Nat
  <2> DEFINE Bad == Nat \ T
  <2> SUFFICES ASSUME Bad # {} PROVE FALSE
    OBVIOUS
  <2> HIDE DEF T
  <2>1. PICK n \in Bad : \A m \in Bad : n <= m
    BY LeastNumber
  <2>2. n \in Nat /\ n # 0
    BY <1>1
  <2>3. n - 1 \in Nat /\ ~ (n <= n - 1)
    BY <2>2
  <2>4. n - 1 \in T
    BY <2>1, <2>3
  <2>5. (n - 1) + 1 \in T
    BY <1>2, <2>4
  <2> QED
    BY <2>2, <2>5
<1>4. Cardinality(S) \in T
  <2> HIDE DEF T
  <2> QED
    BY <1>3, <1>0
<1>5. PICK it \in [Small(Cardinality(S)) -> X] : Upto(Cardinality(S), it)
  <2> HIDE DEF Upto
  <2> QED
    BY <1>4
<1>6. Small(Cardinality(S)) = SUBSET S
  <2>1. ASSUME NEW s \in SUBSET S PROVE Cardinality(s) <= Cardinality(S)
    BY FS_Subset
  <2> QED
    BY <2>1
<1> QED
  BY <1>5, <1>6 DEF FoldOf

(* A fold stays within F, where F[s] is what may be reached by the members *)
(* of s: the recursive function exists, and so do the values it takes.     *)
LEMMA FoldWithin ==
    ASSUME NEW S, IsFiniteSet(S), NEW X, NEW F \in [SUBSET S -> SUBSET X],
           NEW base \in F[{}], NEW Op,
           \A s \in SUBSET S : \A x \in S \ s : \A d \in F[s] :
               Op[<<x, d>>] \in F[s \cup {x}]
    PROVE  \E it \in [SUBSET S -> X] :
             /\ FoldOf(it, S, base, Op)
             /\ \A s \in SUBSET S : it[s] \in F[s]
<1> DEFINE G == [p \in S \X X |-> IF Op[p] \in X THEN Op[p] ELSE base]
<1>1. base \in X /\ G \in [S \X X -> X]
  OBVIOUS
<1>2. \A p \in S \X X : Op[p] \in X => G[p] = Op[p]
  OBVIOUS
<1> HIDE DEF G
<1>3. PICK it \in [SUBSET S -> X] : FoldOf(it, S, base, G)
  BY <1>1, FoldExists
<1> DEFINE T == {s \in SUBSET S : it[s] \in F[s]}
<1>4. ASSUME NEW s \in SUBSET S, s # {}, s \ {First(s)} \in T
      PROVE  /\ it[s] = Op[<<First(s), it[s \ {First(s)}]>>]
             /\ it[s] \in F[s]
  <2> DEFINE u == s \ {First(s)}
  <2>1. First(s) \in S \ u /\ u \in SUBSET S /\ u \cup {First(s)} = s
    BY <1>4, FirstIn
  <2>2. it[s] = G[<<First(s), it[u]>>]
    BY <1>3, <1>4 DEF FoldOf
  <2>3. it[u] \in F[u]
    BY <1>4
  <2> HIDE DEF u
  <2>4. Op[<<First(s), it[u]>>] \in F[u \cup {First(s)}]
    BY <2>1, <2>3
  <2>5. Op[<<First(s), it[u]>>] \in F[s] /\ F[s] \in SUBSET X
    BY <2>1, <2>4
  <2>6. <<First(s), it[u]>> \in S \X X
    BY <2>1, <1>3
  <2>7. G[<<First(s), it[u]>>] = Op[<<First(s), it[u]>>]
    BY <1>2, <2>5, <2>6
  <2> QED
    BY <2>2, <2>5, <2>7 DEF u
<1>5. \A s \in SUBSET S : s \in T
  <2>1. {} \in T
    BY <1>3 DEF FoldOf
  <2>2. \A s \in SUBSET S : s # {} /\ s \ {First(s)} \in T => s \in T
    BY <1>4
  <2> HIDE DEF T
  <2> QED
    BY <2>1, <2>2, FoldInduction
<1>6. FoldOf(it, S, base, Op)
  <2> SUFFICES ASSUME NEW s \in SUBSET S
               PROVE  it[s] = IF s = {} THEN base
                              ELSE Op[<<First(s), it[s \ {First(s)}]>>]
    BY DEF FoldOf
  <2>1. CASE s = {}
    BY <1>3, <2>1 DEF FoldOf
  <2>2. CASE s # {}
    <3>1. s \ {First(s)} \in SUBSET S
      OBVIOUS
    <3>2. s \ {First(s)} \in T
      BY <1>5, <3>1
    <3> HIDE DEF T
    <3> QED
      BY <1>4, <2>2, <3>2
  <2> QED
    BY <2>1, <2>2
<1> QED
  BY <1>5, <1>6
-----------------------------------------------------------------------------
(* The keys and their types                                                *)

Zset(S, V) == UNION {[D -> V] : D \in SUBSET S}
Groups == Names \X TerminalStates
Counters == Queues \X JobStates
DedupeMapKeys == Names \X DedupeKeys
Rows == JobIds \X ChildKeys

Keys ==
    [job : [JobIds -> Opt(JobHash)],
     all : Zset(JobIds, Nat),
     byname : [Names -> Zset(JobIds, Nat)],
     byqueue : [Queues -> Zset(JobIds, Nat)],
     waiting : [Queues -> Zset(Nat \X JobIds, Int)],
     delayed : [Queues -> Zset(JobIds, Nat)],
     active : Zset(JobIds, Nat),
     finished : [TerminalStates -> Zset(JobIds, Nat)],
     terminal : [Groups -> Zset(JobIds, Nat)],
     counts : [Counters -> Int],
     dedupe : [DedupeMapKeys -> Opt(Mem!DedupeEntry)],
     dedupes : Zset(DedupeMapKeys, Opt(Nat)),
     flowchild : [Rows -> Opt(Mem!MemFlowChild)],
     flowchildren : [JobIds -> SUBSET ChildKeys],
     flowpending : Zset(Rows, Nat),
     flowcascade : SUBSET Rows,
     outbox : SUBSET OutboxEntry, outboxSeq : Nat, paused : SUBSET Queues,
     seq : Nat]

LEMMA ZsetIs ==
    ASSUME NEW S, NEW V, NEW z
    PROVE  z \in Zset(S, V) <=> DOMAIN z \subseteq S /\ z \in [DOMAIN z -> V]
BY DEF Zset

(* ZADD and ZREM keep a zset a zset, and touch only the members named.     *)
LEMMA ZAddAllIs ==
    ASSUME NEW S, NEW V, NEW z \in Zset(S, V), NEW ms \in SUBSET S, NEW v \in V
    PROVE  /\ ZAddAll(z, ms, v) \in Zset(S, V)
           /\ \A m : m \in DOMAIN ZAddAll(z, ms, v) <=> m \in DOMAIN z \/ m \in ms
           /\ \A m \in ms : ZAddAll(z, ms, v)[m] = v
           /\ \A m \in DOMAIN z : m \notin ms => ZAddAll(z, ms, v)[m] = z[m]
<1>1. DOMAIN z \subseteq S /\ z \in [DOMAIN z -> V]
  BY ZsetIs
<1> DEFINE y == ZAddAll(z, ms, v)
<1>2. /\ DOMAIN y = DOMAIN z \cup ms
      /\ \A m \in ms : y[m] = v
      /\ \A m \in DOMAIN z \ ms : y[m] = z[m]
      /\ y = [m \in DOMAIN y |-> y[m]]
  BY DEF ZAddAll, Members
<1>3. y \in [DOMAIN y -> V] /\ DOMAIN y \subseteq S
  <2>1. \A m \in DOMAIN y : y[m] \in V
    BY <1>1, <1>2
  <2> HIDE DEF y
  <2> QED
    BY <1>1, <1>2, <2>1
<1> HIDE DEF y
<1>4. y \in Zset(S, V)
  BY <1>3, ZsetIs
<1> QED
  BY <1>2, <1>4 DEF y

LEMMA ZAddIs ==
    ASSUME NEW S, NEW V, NEW z \in Zset(S, V), NEW m \in S, NEW v \in V
    PROVE  /\ ZAdd(z, m, v) \in Zset(S, V)
           /\ \A n : n \in DOMAIN ZAdd(z, m, v) <=> n \in DOMAIN z \/ n = m
           /\ ZAdd(z, m, v)[m] = v
           /\ \A n \in DOMAIN z : n # m => ZAdd(z, m, v)[n] = z[n]
<1> DEFINE ms == {m}
<1>1. ms \in SUBSET S /\ \A n : n \in ms <=> n = m
  OBVIOUS
<1>2. ZAdd(z, m, v) = ZAddAll(z, ms, v)
  BY DEF ZAdd
<1> HIDE DEF ms
<1>3. /\ ZAddAll(z, ms, v) \in Zset(S, V)
      /\ \A n : n \in DOMAIN ZAddAll(z, ms, v) <=> n \in DOMAIN z \/ n \in ms
      /\ \A n \in ms : ZAddAll(z, ms, v)[n] = v
      /\ \A n \in DOMAIN z : n \notin ms => ZAddAll(z, ms, v)[n] = z[n]
  BY <1>1, ZAddAllIs
<1> QED
  BY <1>1, <1>2, <1>3

LEMMA ZRemIs ==
    ASSUME NEW S, NEW V, NEW z \in Zset(S, V), NEW ms
    PROVE  /\ ZRem(z, ms) \in Zset(S, V)
           /\ \A m : m \in DOMAIN ZRem(z, ms) <=> m \in DOMAIN z /\ m \notin ms
           /\ \A m \in DOMAIN z : m \notin ms => ZRem(z, ms)[m] = z[m]
<1>1. DOMAIN z \subseteq S /\ z \in [DOMAIN z -> V]
  BY ZsetIs
<1> DEFINE y == ZRem(z, ms)
<1>2. /\ DOMAIN y = DOMAIN z \ ms
      /\ \A m \in DOMAIN z \ ms : y[m] = z[m]
      /\ y = [m \in DOMAIN y |-> y[m]]
  BY DEF ZRem, Members, Restrict
<1>3. y \in [DOMAIN y -> V] /\ DOMAIN y \subseteq S
  <2>1. \A m \in DOMAIN y : y[m] \in V
    BY <1>1, <1>2
  <2> HIDE DEF y
  <2> QED
    BY <1>1, <1>2, <2>1
<1> HIDE DEF y
<1>4. y \in Zset(S, V)
  BY <1>3, ZsetIs
<1> QED
  BY <1>2, <1>4 DEF y

LEMMA ZRem1Is ==
    ASSUME NEW S, NEW V, NEW z \in Zset(S, V), NEW x
    PROVE  /\ ZRem(z, {x}) \in Zset(S, V)
           /\ \A m : m \in DOMAIN ZRem(z, {x}) <=> m \in DOMAIN z /\ m # x
           /\ \A m \in DOMAIN z : m # x => ZRem(z, {x})[m] = z[m]
<1> DEFINE ms == {x}
<1>1. \A m : m \in ms <=> m = x
  OBVIOUS
<1> HIDE DEF ms
<1>2. /\ ZRem(z, ms) \in Zset(S, V)
      /\ \A m : m \in DOMAIN ZRem(z, ms) <=> m \in DOMAIN z /\ m # x
      /\ \A m \in DOMAIN z : m # x => ZRem(z, ms)[m] = z[m]
  BY <1>1, ZRemIs
<1> QED
  BY <1>2 DEF ms
-----------------------------------------------------------------------------
(* Where the lifecycle zsets have a job                                    *)

WaitingZsets == [Queues -> Zset(Nat \X JobIds, Int)]
DelayedZsets == [Queues -> Zset(JobIds, Nat)]
ActiveZset == Zset(JobIds, Nat)
FinishedZsets == [TerminalStates -> Zset(JobIds, Nat)]
TerminalZsets == [Groups -> Zset(JobIds, Nat)]
JobMap == [JobIds -> Opt(JobHash)]

At(j, s) == j # None /\ j.state = s

\* The zsets have id where the hash j says; j = None: nowhere.
InWaiting(W, id, j) ==
    \A q \in Queues, n \in Nat :
        /\ <<n, id>> \in DOMAIN W[q] <=>
              At(j, "waiting") /\ j.queue = q /\ j.seq = n
        /\ <<n, id>> \in DOMAIN W[q] => W[q][<<n, id>>] = -j.priority
InDelayed(D, id, j) ==
    \A q \in Queues :
        /\ id \in DOMAIN D[q] <=> At(j, "delayed") /\ j.queue = q
        /\ id \in DOMAIN D[q] => D[q][id] = j.runAt
InActive(A, id, j) ==
    /\ id \in DOMAIN A <=> At(j, "active")
    /\ id \in DOMAIN A => A[id] = j.lockExpiresAt
InFinished(F, id, j) ==
    \A s \in TerminalStates :
        /\ id \in DOMAIN F[s] <=> At(j, s)
        /\ id \in DOMAIN F[s] => F[s][id] = j.finishedAt
InTerminal(T, id, j) ==
    \A n \in Names, s \in TerminalStates :
        /\ id \in DOMAIN T[<<n, s>>] <=> At(j, s) /\ j.name = n
        /\ id \in DOMAIN T[<<n, s>>] => T[<<n, s>>][id] = j.finishedAt

Where(db, id, j) ==
    /\ InWaiting(db.waiting, id, j) /\ InDelayed(db.delayed, id, j)
    /\ InActive(db.active, id, j)
    /\ InFinished(db.finished, id, j) /\ InTerminal(db.terminal, id, j)

LEMMA JobIs ==
    ASSUME NEW j \in JobHash
    PROVE  /\ j # None /\ j.queue \in Queues /\ j.name \in Names
           /\ j.state \in JobStates /\ j.seq \in Nat /\ j.priority \in Int
           /\ -j.priority \in Int /\ j.runAt \in Nat
           /\ j.finishedAt \in Opt(Nat) /\ j.lockExpiresAt \in Opt(Nat)
<1>1. j # None
  BY NoneAssumption
<1> QED
  BY <1>1 DEF JobHash

LEMMA WaitingAdd ==
    ASSUME NEW W \in WaitingZsets, NEW id \in JobIds, NEW j \in JobHash,
           j.state = "waiting", NEW W2,
           W2[j.queue] = ZAdd(W[j.queue], <<j.seq, id>>, -j.priority),
           \A q \in Queues : q # j.queue => W2[q] = W[q]
    PROVE  /\ \A q \in Queues : W2[q] \in Zset(Nat \X JobIds, Int)
           /\ \A x \in JobIds : \A i : x # id /\ InWaiting(W, x, i) => InWaiting(W2, x, i)
           /\ InWaiting(W, id, None) => InWaiting(W2, id, j)
<1> USE JobIs
<1>1. \A q \in Queues : W[q] \in Zset(Nat \X JobIds, Int)
  BY DEF WaitingZsets
<1>2. <<j.seq, id>> \in Nat \X JobIds
  OBVIOUS
<1>3. /\ W2[j.queue] \in Zset(Nat \X JobIds, Int)
      /\ \A m : m \in DOMAIN W2[j.queue] <=>
                   m \in DOMAIN W[j.queue] \/ m = <<j.seq, id>>
      /\ W2[j.queue][<<j.seq, id>>] = -j.priority
      /\ \A m \in DOMAIN W[j.queue] : m # <<j.seq, id>> =>
            W2[j.queue][m] = W[j.queue][m]
  <2> DEFINE z == W[j.queue]  m == <<j.seq, id>>
  <2>1. z \in Zset(Nat \X JobIds, Int) /\ m \in Nat \X JobIds
    BY <1>1, <1>2
  <2>2. W2[j.queue] = ZAdd(z, m, -j.priority)
    OBVIOUS
  <2> HIDE DEF z, m
  <2>3. /\ ZAdd(z, m, -j.priority) \in Zset(Nat \X JobIds, Int)
        /\ \A n : n \in DOMAIN ZAdd(z, m, -j.priority) <=> n \in DOMAIN z \/ n = m
        /\ ZAdd(z, m, -j.priority)[m] = -j.priority
        /\ \A n \in DOMAIN z : n # m => ZAdd(z, m, -j.priority)[n] = z[n]
    BY <2>1, ZAddIs
  <2> QED
    BY <2>2, <2>3 DEF z, m
<1>4. ASSUME NEW x \in JobIds, NEW i, x # id, InWaiting(W, x, i)
      PROVE  InWaiting(W2, x, i)
  BY <1>3, <1>4 DEF InWaiting
<1>5. ASSUME InWaiting(W, id, None) PROVE InWaiting(W2, id, j)
  BY <1>3, <1>5 DEF InWaiting, At
<1> QED
  BY <1>1, <1>3, <1>4, <1>5

LEMMA WaitingRem ==
    ASSUME NEW W \in WaitingZsets, NEW id \in JobIds, NEW j \in JobHash, NEW W2,
           W2[j.queue] = ZRem(W[j.queue], {<<j.seq, id>>}),
           \A q \in Queues : q # j.queue => W2[q] = W[q]
    PROVE  /\ \A q \in Queues : W2[q] \in Zset(Nat \X JobIds, Int)
           /\ \A x \in JobIds : \A i : x # id /\ InWaiting(W, x, i) => InWaiting(W2, x, i)
           /\ InWaiting(W, id, j) => InWaiting(W2, id, None)
           /\ InWaiting(W, id, None) => InWaiting(W2, id, None)
<1> USE JobIs
<1>1. \A q \in Queues : W[q] \in Zset(Nat \X JobIds, Int)
  BY DEF WaitingZsets
<1>3. /\ W2[j.queue] \in Zset(Nat \X JobIds, Int)
      /\ \A m : m \in DOMAIN W2[j.queue] <=>
                   m \in DOMAIN W[j.queue] /\ m # <<j.seq, id>>
      /\ \A m \in DOMAIN W[j.queue] : m # <<j.seq, id>> =>
            W2[j.queue][m] = W[j.queue][m]
  <2> DEFINE z == W[j.queue]  m == <<j.seq, id>>
  <2>1. z \in Zset(Nat \X JobIds, Int)
    BY <1>1
  <2>2. W2[j.queue] = ZRem(z, {m})
    OBVIOUS
  <2> HIDE DEF z, m
  <2>3. /\ ZRem(z, {m}) \in Zset(Nat \X JobIds, Int)
        /\ \A n : n \in DOMAIN ZRem(z, {m}) <=> n \in DOMAIN z /\ n # m
        /\ \A n \in DOMAIN z : n # m => ZRem(z, {m})[n] = z[n]
    BY <2>1, ZRem1Is
  <2> QED
    BY <2>2, <2>3 DEF z, m
<1>4. ASSUME NEW x \in JobIds, NEW i, x # id, InWaiting(W, x, i)
      PROVE  InWaiting(W2, x, i)
  <2>1. ASSUME NEW q \in Queues, NEW n \in Nat
        PROVE  /\ <<n, x>> \in DOMAIN W2[q] <=> <<n, x>> \in DOMAIN W[q]
               /\ <<n, x>> \in DOMAIN W[q] => W2[q][<<n, x>>] = W[q][<<n, x>>]
    <3>1. <<n, x>> # <<j.seq, id>>
      BY <1>4
    <3> QED
      BY <1>3, <3>1
  <2> QED
    BY <1>4, <2>1 DEF InWaiting
<1>5. ASSUME InWaiting(W, id, j) PROVE InWaiting(W2, id, None)
  BY <1>3, <1>5 DEF InWaiting, At
<1>6. ASSUME InWaiting(W, id, None) PROVE InWaiting(W2, id, None)
  BY <1>3, <1>6 DEF InWaiting, At
<1> QED
  BY <1>1, <1>3, <1>4, <1>5, <1>6

LEMMA DelayedPut ==
    ASSUME NEW D \in DelayedZsets, NEW id \in JobIds, NEW j \in JobHash,
           j.state = "delayed", NEW D2, D2[j.queue] = ZAdd(D[j.queue], id, j.runAt),
           \A q \in Queues : q # j.queue => D2[q] = D[q]
    PROVE  /\ \A q \in Queues : D2[q] \in Zset(JobIds, Nat)
           /\ \A x \in JobIds : \A i : x # id /\ InDelayed(D, x, i) => InDelayed(D2, x, i)
           /\ InDelayed(D, id, None) => InDelayed(D2, id, j)
           /\ \A i : InDelayed(D, id, i) /\ i.queue = j.queue => InDelayed(D2, id, j)
<1> USE JobIs
<1>1. \A q \in Queues : D[q] \in Zset(JobIds, Nat)
  BY DEF DelayedZsets
<1>3. /\ D2[j.queue] \in Zset(JobIds, Nat)
      /\ \A m : m \in DOMAIN D2[j.queue] <=> m \in DOMAIN D[j.queue] \/ m = id
      /\ D2[j.queue][id] = j.runAt
      /\ \A m \in DOMAIN D[j.queue] : m # id => D2[j.queue][m] = D[j.queue][m]
  BY <1>1, ZAddIs
<1>4. ASSUME NEW x \in JobIds, NEW i, x # id, InDelayed(D, x, i)
      PROVE  InDelayed(D2, x, i)
  BY <1>3, <1>4 DEF InDelayed
<1>5. ASSUME InDelayed(D, id, None) PROVE InDelayed(D2, id, j)
  BY <1>3, <1>5 DEF InDelayed, At
<1>6. ASSUME NEW i, InDelayed(D, id, i), i.queue = j.queue
      PROVE  InDelayed(D2, id, j)
  BY <1>3, <1>6 DEF InDelayed, At
<1> QED
  BY <1>1, <1>3, <1>4, <1>5, <1>6

LEMMA DelayedRem ==
    ASSUME NEW D \in DelayedZsets, NEW id \in JobIds, NEW j \in JobHash, NEW D2,
           D2[j.queue] = ZRem(D[j.queue], {id}),
           \A q \in Queues : q # j.queue => D2[q] = D[q]
    PROVE  /\ \A q \in Queues : D2[q] \in Zset(JobIds, Nat)
           /\ \A x \in JobIds : \A i : x # id /\ InDelayed(D, x, i) => InDelayed(D2, x, i)
           /\ InDelayed(D, id, j) => InDelayed(D2, id, None)
           /\ InDelayed(D, id, None) => InDelayed(D2, id, None)
<1> USE JobIs
<1>1. \A q \in Queues : D[q] \in Zset(JobIds, Nat)
  BY DEF DelayedZsets
<1>3. /\ D2[j.queue] \in Zset(JobIds, Nat)
      /\ \A m : m \in DOMAIN D2[j.queue] <=> m \in DOMAIN D[j.queue] /\ m # id
      /\ \A m \in DOMAIN D[j.queue] : m # id => D2[j.queue][m] = D[j.queue][m]
  <2> DEFINE z == D[j.queue]
  <2>1. z \in Zset(JobIds, Nat)
    BY <1>1
  <2>2. D2[j.queue] = ZRem(z, {id})
    OBVIOUS
  <2> HIDE DEF z
  <2>3. /\ ZRem(z, {id}) \in Zset(JobIds, Nat)
        /\ \A n : n \in DOMAIN ZRem(z, {id}) <=> n \in DOMAIN z /\ n # id
        /\ \A n \in DOMAIN z : n # id => ZRem(z, {id})[n] = z[n]
    BY <2>1, ZRem1Is
  <2> QED
    BY <2>2, <2>3 DEF z
<1>4. ASSUME NEW x \in JobIds, NEW i, x # id, InDelayed(D, x, i)
      PROVE  InDelayed(D2, x, i)
  <2> SUFFICES ASSUME NEW q \in Queues
               PROVE  /\ x \in DOMAIN D2[q] <=> x \in DOMAIN D[q]
                      /\ x \in DOMAIN D[q] => D2[q][x] = D[q][x]
    BY <1>4 DEF InDelayed
  <2>1. CASE q = j.queue
    BY <1>3, <1>4, <2>1
  <2>2. CASE q # j.queue
    BY <2>2
  <2> QED
    BY <2>1, <2>2
<1>5. ASSUME InDelayed(D, id, j) PROVE InDelayed(D2, id, None)
  BY <1>3, <1>5 DEF InDelayed, At
<1>6. ASSUME InDelayed(D, id, None) PROVE InDelayed(D2, id, None)
  BY <1>3, <1>6 DEF InDelayed, At
<1> QED
  BY <1>1, <1>3, <1>4, <1>5, <1>6

LEMMA ActivePut ==
    ASSUME NEW A \in ActiveZset, NEW id \in JobIds, NEW t \in Nat
    PROVE  /\ ZAdd(A, id, t) \in ActiveZset
           /\ \A x \in JobIds : \A i :
                 x # id /\ InActive(A, x, i) => InActive(ZAdd(A, id, t), x, i)
           /\ \A j : At(j, "active") /\ j.lockExpiresAt = t =>
                        InActive(ZAdd(A, id, t), id, j)
<1>1. /\ ZAdd(A, id, t) \in Zset(JobIds, Nat)
      /\ \A m : m \in DOMAIN ZAdd(A, id, t) <=> m \in DOMAIN A \/ m = id
      /\ ZAdd(A, id, t)[id] = t
      /\ \A m \in DOMAIN A : m # id => ZAdd(A, id, t)[m] = A[m]
  BY ZAddIs DEF ActiveZset
<1> QED
  BY <1>1 DEF InActive, ActiveZset

LEMMA ActiveRem ==
    ASSUME NEW A \in ActiveZset, NEW id \in JobIds
    PROVE  /\ ZRem(A, {id}) \in ActiveZset
           /\ \A x \in JobIds : \A i :
                 x # id /\ InActive(A, x, i) => InActive(ZRem(A, {id}), x, i)
           /\ InActive(ZRem(A, {id}), id, None)
<1>1. /\ ZRem(A, {id}) \in Zset(JobIds, Nat)
      /\ \A m : m \in DOMAIN ZRem(A, {id}) <=> m \in DOMAIN A /\ m # id
      /\ \A m \in DOMAIN A : m # id => ZRem(A, {id})[m] = A[m]
  BY ZRem1Is DEF ActiveZset
<1> DEFINE A2 == ZRem(A, {id})
<1> HIDE DEF A2
<1>2. /\ \A x \in JobIds : \A i : x # id /\ InActive(A, x, i) => InActive(A2, x, i)
      /\ InActive(A2, id, None)
  BY <1>1 DEF InActive, At, A2
<1> QED
  BY <1>1, <1>2 DEF A2, ActiveZset

LEMMA FinishedPut ==
    ASSUME NEW F \in FinishedZsets, NEW id \in JobIds, NEW j \in JobHash,
           j.state \in TerminalStates, j.finishedAt \in Nat, NEW F2,
           F2[j.state] = ZAdd(F[j.state], id, j.finishedAt),
           \A s \in TerminalStates : s # j.state => F2[s] = F[s]
    PROVE  /\ \A s \in TerminalStates : F2[s] \in Zset(JobIds, Nat)
           /\ \A x \in JobIds : \A i : x # id /\ InFinished(F, x, i) => InFinished(F2, x, i)
           /\ InFinished(F, id, None) => InFinished(F2, id, j)
<1> USE JobIs
<1>1. \A s \in TerminalStates : F[s] \in Zset(JobIds, Nat)
  BY DEF FinishedZsets
<1>3. /\ F2[j.state] \in Zset(JobIds, Nat)
      /\ \A m : m \in DOMAIN F2[j.state] <=> m \in DOMAIN F[j.state] \/ m = id
      /\ F2[j.state][id] = j.finishedAt
      /\ \A m \in DOMAIN F[j.state] : m # id => F2[j.state][m] = F[j.state][m]
  BY <1>1, ZAddIs
<1>4. ASSUME NEW x \in JobIds, NEW i, x # id, InFinished(F, x, i)
      PROVE  InFinished(F2, x, i)
  BY <1>3, <1>4 DEF InFinished
<1>5. ASSUME InFinished(F, id, None) PROVE InFinished(F2, id, j)
  BY <1>3, <1>5 DEF InFinished, At
<1> QED
  BY <1>1, <1>3, <1>4, <1>5

LEMMA FinishedRem ==
    ASSUME NEW F \in FinishedZsets, NEW id \in JobIds, NEW j \in JobHash, NEW F2,
           j.state \in TerminalStates => F2[j.state] = ZRem(F[j.state], {id}),
           \A s \in TerminalStates : s # j.state => F2[s] = F[s]
    PROVE  /\ \A s \in TerminalStates : F2[s] \in Zset(JobIds, Nat)
           /\ \A x \in JobIds : \A i : x # id /\ InFinished(F, x, i) => InFinished(F2, x, i)
           /\ InFinished(F, id, j) => InFinished(F2, id, None)
<1> USE JobIs
<1>1. \A s \in TerminalStates : F[s] \in Zset(JobIds, Nat)
  BY DEF FinishedZsets
<1>2. ASSUME NEW s \in TerminalStates
      PROVE  /\ F2[s] \in Zset(JobIds, Nat)
             /\ \A m \in JobIds : m # id =>
                   /\ m \in DOMAIN F2[s] <=> m \in DOMAIN F[s]
                   /\ m \in DOMAIN F[s] => F2[s][m] = F[s][m]
             /\ id \in DOMAIN F2[s] => s # j.state /\ id \in DOMAIN F[s]
  <2>1. CASE s # j.state
    BY <1>1, <2>1
  <2>2. CASE s = j.state
    <3> DEFINE z == F[s]
    <3>1. z \in Zset(JobIds, Nat) /\ F2[s] = ZRem(z, {id})
      BY <1>1, <2>2
    <3> HIDE DEF z
    <3>2. /\ ZRem(z, {id}) \in Zset(JobIds, Nat)
          /\ \A n : n \in DOMAIN ZRem(z, {id}) <=> n \in DOMAIN z /\ n # id
          /\ \A n \in DOMAIN z : n # id => ZRem(z, {id})[n] = z[n]
      BY <3>1, ZRem1Is
    <3> QED
      BY <3>1, <3>2 DEF z
  <2> QED
    BY <2>1, <2>2
<1>4. ASSUME NEW x \in JobIds, NEW i, x # id, InFinished(F, x, i)
      PROVE  InFinished(F2, x, i)
  BY <1>2, <1>4 DEF InFinished
<1>5. ASSUME InFinished(F, id, j) PROVE InFinished(F2, id, None)
  BY <1>2, <1>5 DEF InFinished, At
<1> QED
  BY <1>2, <1>4, <1>5

LEMMA TerminalPut ==
    ASSUME NEW T \in TerminalZsets, NEW id \in JobIds, NEW j \in JobHash,
           j.state \in TerminalStates, j.finishedAt \in Nat, NEW T2,
           T2[<<j.name, j.state>>] =
               ZAdd(T[<<j.name, j.state>>], id, j.finishedAt),
           \A n \in Names, s \in TerminalStates :
              n # j.name \/ s # j.state => T2[<<n, s>>] = T[<<n, s>>]
    PROVE  /\ \A n \in Names, s \in TerminalStates : T2[<<n, s>>] \in Zset(JobIds, Nat)
           /\ \A x \in JobIds : \A i : x # id /\ InTerminal(T, x, i) => InTerminal(T2, x, i)
           /\ InTerminal(T, id, None) => InTerminal(T2, id, j)
<1> USE JobIs
<1>1. \A n \in Names, s \in TerminalStates : T[<<n, s>>] \in Zset(JobIds, Nat)
  BY DEF TerminalZsets, Groups
<1> DEFINE z == T[<<j.name, j.state>>]  z2 == T2[<<j.name, j.state>>]
<1>2. z \in Zset(JobIds, Nat) /\ z2 = ZAdd(z, id, j.finishedAt)
  BY <1>1
<1> HIDE DEF z, z2
<1>3. /\ z2 \in Zset(JobIds, Nat)
      /\ \A m : m \in DOMAIN z2 <=> m \in DOMAIN z \/ m = id
      /\ z2[id] = j.finishedAt
      /\ \A m \in DOMAIN z : m # id => z2[m] = z[m]
  BY <1>2, ZAddIs
<1>4. ASSUME NEW x \in JobIds, NEW i, x # id, InTerminal(T, x, i)
      PROVE  InTerminal(T2, x, i)
  <2> SUFFICES ASSUME NEW k \in Names, NEW s \in TerminalStates
               PROVE  /\ x \in DOMAIN T2[<<k, s>>] <=> At(i, s) /\ i.name = k
                      /\ x \in DOMAIN T2[<<k, s>>] =>
                            T2[<<k, s>>][x] = i.finishedAt
    BY DEF InTerminal
  <2>1. /\ x \in DOMAIN T[<<k, s>>] <=> At(i, s) /\ i.name = k
        /\ x \in DOMAIN T[<<k, s>>] => T[<<k, s>>][x] = i.finishedAt
    BY <1>4 DEF InTerminal
  <2>2. CASE k # j.name \/ s # j.state
    BY <2>1, <2>2
  <2>3. CASE k = j.name /\ s = j.state
    BY <1>3, <1>4, <2>1, <2>3 DEF z, z2
  <2> QED
    BY <2>2, <2>3
<1>5. ASSUME InTerminal(T, id, None) PROVE InTerminal(T2, id, j)
  BY <1>3, <1>5 DEF InTerminal, At, z, z2
<1> QED
  BY <1>1, <1>3, <1>4, <1>5 DEF z2

LEMMA TerminalRem ==
    ASSUME NEW T \in TerminalZsets, NEW id \in JobIds, NEW j \in JobHash, NEW T2,
           j.state \in TerminalStates =>
               T2[<<j.name, j.state>>] = ZRem(T[<<j.name, j.state>>], {id}),
           \A n \in Names, s \in TerminalStates :
              n # j.name \/ s # j.state => T2[<<n, s>>] = T[<<n, s>>]
    PROVE  /\ \A n \in Names, s \in TerminalStates : T2[<<n, s>>] \in Zset(JobIds, Nat)
           /\ \A x \in JobIds : \A i : x # id /\ InTerminal(T, x, i) => InTerminal(T2, x, i)
           /\ InTerminal(T, id, j) => InTerminal(T2, id, None)
<1> USE JobIs
<1>1. \A n \in Names, s \in TerminalStates : T[<<n, s>>] \in Zset(JobIds, Nat)
  BY DEF TerminalZsets, Groups
<1>2. ASSUME NEW k \in Names, NEW s \in TerminalStates
      PROVE  /\ T2[<<k, s>>] \in Zset(JobIds, Nat)
             /\ \A m \in JobIds : m # id =>
                   /\ m \in DOMAIN T2[<<k, s>>] <=> m \in DOMAIN T[<<k, s>>]
                   /\ m \in DOMAIN T[<<k, s>>] => T2[<<k, s>>][m] = T[<<k, s>>][m]
             /\ id \in DOMAIN T2[<<k, s>>] =>
                   ~ (k = j.name /\ s = j.state) /\ id \in DOMAIN T[<<k, s>>]
  <2>1. CASE k # j.name \/ s # j.state
    BY <1>1, <2>1
  <2>2. CASE k = j.name /\ s = j.state
    <3> DEFINE z == T[<<k, s>>]
    <3>1. z \in Zset(JobIds, Nat) /\ T2[<<k, s>>] = ZRem(z, {id})
      BY <1>1, <2>2
    <3> HIDE DEF z
    <3>2. /\ ZRem(z, {id}) \in Zset(JobIds, Nat)
          /\ \A n : n \in DOMAIN ZRem(z, {id}) <=> n \in DOMAIN z /\ n # id
          /\ \A n \in DOMAIN z : n # id => ZRem(z, {id})[n] = z[n]
      BY <3>1, ZRem1Is
    <3> QED
      BY <3>1, <3>2, <2>2 DEF z
  <2> QED
    BY <2>1, <2>2
<1>4. ASSUME NEW x \in JobIds, NEW i, x # id, InTerminal(T, x, i)
      PROVE  InTerminal(T2, x, i)
  <2> SUFFICES ASSUME NEW k \in Names, NEW s \in TerminalStates
               PROVE  /\ x \in DOMAIN T2[<<k, s>>] <=> At(i, s) /\ i.name = k
                      /\ x \in DOMAIN T2[<<k, s>>] =>
                            T2[<<k, s>>][x] = i.finishedAt
    BY DEF InTerminal
  <2>1. /\ x \in DOMAIN T[<<k, s>>] <=> At(i, s) /\ i.name = k
        /\ x \in DOMAIN T[<<k, s>>] => T[<<k, s>>][x] = i.finishedAt
    BY <1>4 DEF InTerminal
  <2> QED
    BY <1>2, <1>4, <2>1
<1>5. ASSUME InTerminal(T, id, j) PROVE InTerminal(T2, id, None)
  <2> SUFFICES ASSUME NEW k \in Names, NEW s \in TerminalStates
               PROVE  id \notin DOMAIN T2[<<k, s>>]
    BY DEF InTerminal, At
  <2>1. id \in DOMAIN T[<<k, s>>] => j.state = s /\ j.name = k
    BY <1>5 DEF InTerminal, At
  <2> QED
    BY <1>2, <2>1
<1> QED
  BY <1>2, <1>4, <1>5

(* A job that waits for its children has no place; one that is in a zset   *)
(* is in no other.                                                         *)
LEMMA PlaceByState ==
    ASSUME NEW id \in JobIds, NEW j \in JobHash
    PROVE  /\ \A W : j.state # "waiting" => (InWaiting(W, id, j) <=> InWaiting(W, id, None))
           /\ \A D : j.state # "delayed" => (InDelayed(D, id, j) <=> InDelayed(D, id, None))
           /\ \A A : j.state # "active" => (InActive(A, id, j) <=> InActive(A, id, None))
           /\ \A F : j.state \notin TerminalStates =>
                        (InFinished(F, id, j) <=> InFinished(F, id, None))
           /\ \A T : j.state \notin TerminalStates =>
                        (InTerminal(T, id, j) <=> InTerminal(T, id, None))
<1>1. ASSUME j.state # "waiting"
      PROVE  \A W : InWaiting(W, id, j) <=> InWaiting(W, id, None)
  BY <1>1 DEF InWaiting, At
<1>2. ASSUME j.state # "delayed"
      PROVE  \A D : InDelayed(D, id, j) <=> InDelayed(D, id, None)
  BY <1>2 DEF InDelayed, At
<1>3. ASSUME j.state # "active"
      PROVE  \A A : InActive(A, id, j) <=> InActive(A, id, None)
  BY <1>3 DEF InActive, At
<1>4. ASSUME j.state \notin TerminalStates
      PROVE  \A F : InFinished(F, id, j) <=> InFinished(F, id, None)
  BY <1>4 DEF InFinished, At
<1>5. ASSUME j.state \notin TerminalStates
      PROVE  \A T : InTerminal(T, id, j) <=> InTerminal(T, id, None)
  BY <1>5 DEF InTerminal, At
<1> QED
  BY <1>1, <1>2, <1>3, <1>4, <1>5

-----------------------------------------------------------------------------
(* Counters                                                                *)

InState(h, q, s) ==
    {x \in JobIds : h[x] # None /\ h[x].queue = q /\ h[x].state = s}

CountsRight(c, h) ==
    \A q \in Queues, s \in JobStates : c[<<q, s>>] = Cardinality(InState(h, q, s))

LEMMA OneMore ==
    ASSUME NEW A, NEW x \in JobIds, NEW B, A \subseteq JobIds, x \notin A,
           \A y : y \in B <=> y \in A \/ y = x
    PROVE  Cardinality(B) = Cardinality(A) + 1 /\ Cardinality(A) \in Nat
<1>1. IsFiniteSet(A)
  BY ConstantsAssumption, FS_Subset
<1>2. B = A \cup {x}
  OBVIOUS
<1> QED
  BY <1>1, <1>2, FS_AddElement, FS_CardinalityType

\* Off id the two maps of hashes are the same.
OnlyAt(h, h2, id) == \A x \in JobIds : x # id => h2[x] = h[x]

LEMMA CountMoved ==
    ASSUME NEW c \in [Counters -> Int], NEW h, NEW h2, NEW id \in JobIds,
           OnlyAt(h, h2, id), CountsRight(c, h), h[id] \in JobHash,
           h2[id] \in JobHash, h2[id].queue = h[id].queue
    PROVE  LET c2 == CountsMove(c, h2[id].queue, h[id].state, h2[id].state)
           IN  c2 \in [Counters -> Int] /\ CountsRight(c2, h2)
<1> DEFINE k == h[id].queue  a == h[id].state  b == h2[id].state
           c2 == CountsMove(c, k, a, b)
<1>1. k \in Queues /\ a \in JobStates /\ b \in JobStates
  BY JobIs
<1>2. <<k, a>> \in Counters /\ <<k, b>> \in Counters
  BY <1>1 DEF Counters
<1>3. c2 \in [Counters -> Int]
  BY <1>2 DEF CountsMove
<1>4. ASSUME NEW q \in Queues, NEW s \in JobStates
      PROVE  c2[<<q, s>>] = c[<<q, s>>]
                 + (IF q = k /\ s = b THEN 1 ELSE 0)
                 - (IF q = k /\ s = a THEN 1 ELSE 0)
  <2> DEFINE p == <<q, s>>  u == <<k, a>>  v == <<k, b>>
  <2>1. /\ p \in Counters /\ u \in Counters /\ v \in Counters
        /\ p = u <=> q = k /\ s = a
        /\ p = v <=> q = k /\ s = b
    BY <1>2 DEF Counters
  <2>2. c2 = [c EXCEPT ![u] = @ - 1, ![v] = @ + 1]
    BY DEF CountsMove
  <2> HIDE DEF p, u, v, c2
  <2>3. c2[p] = c[p] + (IF p = v THEN 1 ELSE 0) - (IF p = u THEN 1 ELSE 0)
    BY <2>1, <2>2
  <2> QED
    BY <2>1, <2>3 DEF p
<1>5. h[id] # None /\ h2[id] # None
  BY JobIs
<1>6. ASSUME NEW q \in Queues, NEW s \in JobStates
      PROVE  c2[<<q, s>>] = Cardinality(InState(h2, q, s))
  <2> DEFINE A == InState(h, q, s)  B == InState(h2, q, s)
  <2>1. /\ A \subseteq JobIds /\ B \subseteq JobIds
        /\ \A y \in JobIds : y # id => (y \in A <=> y \in B)
        /\ id \in A <=> q = k /\ s = a
        /\ id \in B <=> q = k /\ s = b
    BY <1>5 DEF InState, OnlyAt
  <2>2. c[<<q, s>>] = Cardinality(A) /\ c[<<q, s>>] \in Int
    BY DEF CountsRight, Counters
  <2> HIDE DEF A, B, c2
  <2>3. CASE id \in A /\ id \notin B
    <3>1. \A y : y \in A <=> y \in B \/ y = id
      BY <2>1, <2>3
    <3>2. Cardinality(A) = Cardinality(B) + 1 /\ Cardinality(B) \in Nat
      BY <2>1, <2>3, <3>1, OneMore
    <3>3. c2[<<q, s>>] = c[<<q, s>>] - 1
      BY <1>4, <2>1, <2>2, <2>3
    <3> QED
      BY <2>2, <3>2, <3>3 DEF B
  <2>4. CASE id \in B /\ id \notin A
    <3>1. \A y : y \in B <=> y \in A \/ y = id
      BY <2>1, <2>4
    <3>2. Cardinality(B) = Cardinality(A) + 1 /\ Cardinality(A) \in Nat
      BY <2>1, <2>4, <3>1, OneMore
    <3>3. c2[<<q, s>>] = c[<<q, s>>] + 1
      BY <1>4, <2>1, <2>2, <2>4
    <3> QED
      BY <2>2, <3>2, <3>3 DEF B
  <2>5. CASE id \in A <=> id \in B
    <3>1. A = B
      BY <2>1, <2>5
    <3>2. c2[<<q, s>>] = c[<<q, s>>]
      BY <1>4, <2>1, <2>2, <2>5
    <3> QED
      BY <2>2, <3>1, <3>2 DEF B
  <2> QED
    BY <2>3, <2>4, <2>5
<1> QED
  BY <1>3, <1>6 DEF CountsRight

LEMMA CountAdded ==
    ASSUME NEW c \in [Counters -> Int], NEW h, NEW h2, NEW id \in JobIds,
           OnlyAt(h, h2, id), CountsRight(c, h), h[id] = None, h2[id] \in JobHash,
           NEW c2, c2[<<h2[id].queue, h2[id].state>>] =
                       c[<<h2[id].queue, h2[id].state>>] + 1,
           \A q \in Queues, s \in JobStates :
              q # h2[id].queue \/ s # h2[id].state => c2[<<q, s>>] = c[<<q, s>>]
    PROVE  CountsRight(c2, h2)
<1> SUFFICES ASSUME NEW q \in Queues, NEW s \in JobStates
             PROVE  c2[<<q, s>>] = Cardinality(InState(h2, q, s))
  BY DEF CountsRight
<1> DEFINE A == InState(h, q, s)  B == InState(h2, q, s)
<1>1. h2[id] # None
  BY JobIs
<1>2. /\ A \subseteq JobIds /\ B \subseteq JobIds
      /\ \A y \in JobIds : y # id => (y \in A <=> y \in B)
      /\ id \notin A
      /\ id \in B <=> q = h2[id].queue /\ s = h2[id].state
  BY <1>1 DEF InState, OnlyAt
<1>3. c[<<q, s>>] = Cardinality(A)
  BY DEF CountsRight
<1> HIDE DEF A, B
<1>4. CASE id \in B
  <2>1. \A y : y \in B <=> y \in A \/ y = id
    BY <1>2, <1>4
  <2>2. Cardinality(B) = Cardinality(A) + 1
    BY <1>2, <2>1, OneMore
  <2> QED
    BY <1>2, <1>3, <1>4, <2>2 DEF B
<1>5. CASE id \notin B
  <2>1. A = B
    <3>1. \A y : y \in A <=> y \in B
      BY <1>2, <1>5
    <3> QED
      BY <3>1
  <2> QED
    BY <1>2, <1>3, <1>5, <2>1 DEF B
<1> QED
  BY <1>4, <1>5

LEMMA CountRemoved ==
    ASSUME NEW c \in [Counters -> Int], NEW h, NEW h2, NEW id \in JobIds,
           OnlyAt(h, h2, id), CountsRight(c, h), h2[id] = None, h[id] \in JobHash,
           NEW c2, c2[<<h[id].queue, h[id].state>>] =
                       c[<<h[id].queue, h[id].state>>] - 1,
           \A q \in Queues, s \in JobStates :
              q # h[id].queue \/ s # h[id].state => c2[<<q, s>>] = c[<<q, s>>]
    PROVE  CountsRight(c2, h2)
<1> SUFFICES ASSUME NEW q \in Queues, NEW s \in JobStates
             PROVE  c2[<<q, s>>] = Cardinality(InState(h2, q, s))
  BY DEF CountsRight
<1> DEFINE A == InState(h, q, s)  B == InState(h2, q, s)
<1>1. h[id] # None
  BY JobIs
<1>2. /\ A \subseteq JobIds /\ B \subseteq JobIds
      /\ \A y \in JobIds : y # id => (y \in A <=> y \in B)
      /\ id \notin B
      /\ id \in A <=> q = h[id].queue /\ s = h[id].state
  BY <1>1 DEF InState, OnlyAt
<1>3. c[<<q, s>>] = Cardinality(A)
  BY DEF CountsRight
<1> HIDE DEF A, B
<1>4. CASE id \in A
  <2>1. \A y : y \in A <=> y \in B \/ y = id
    BY <1>2, <1>4
  <2>2. Cardinality(A) = Cardinality(B) + 1 /\ Cardinality(B) \in Nat
    BY <1>2, <2>1, OneMore
  <2> QED
    BY <1>2, <1>3, <1>4, <2>2 DEF B
<1>5. CASE id \notin A
  <2>1. A = B
    <3>1. \A y : y \in A <=> y \in B
      BY <1>2, <1>5
    <3> QED
      BY <3>1
  <2> QED
    BY <1>2, <1>3, <1>5, <2>1 DEF B
<1> QED
  BY <1>4, <1>5

(* The same hashes as far as the counters go.                              *)
LEMMA CountKept ==
    ASSUME NEW c, NEW h, NEW h2, NEW id \in JobIds, OnlyAt(h, h2, id),
           CountsRight(c, h), h[id] \in JobHash, h2[id] \in JobHash,
           h2[id].queue = h[id].queue, h2[id].state = h[id].state
    PROVE  CountsRight(c, h2)
<1>1. h[id] # None /\ h2[id] # None
  BY JobIs
<1>2. ASSUME NEW q \in Queues, NEW s \in JobStates
      PROVE  InState(h2, q, s) = InState(h, q, s)
  BY <1>1 DEF InState, OnlyAt
<1> QED
  BY <1>2 DEF CountsRight

-----------------------------------------------------------------------------
(* What agrees with what, for any keys db                                  *)

ListedAs(db, x, j) ==
    /\ x \in DOMAIN db.all <=> j # None
    /\ \A n \in Names :
        /\ x \in DOMAIN db.byname[n] <=> j # None /\ j.name = n
        /\ x \in DOMAIN db.byname[n] => db.byname[n][x] = db.all[x]
    /\ \A q \in Queues :
        /\ x \in DOMAIN db.byqueue[q] <=> j # None /\ j.queue = q
        /\ x \in DOMAIN db.byqueue[q] => db.byqueue[q][x] = db.all[x]

Listed(db) == \A x \in JobIds : ListedAs(db, x, db.job[x])
Settled(db) == \A x \in JobIds : Where(db, x, db.job[x])

\* A script has taken id out of its zset and not put it into the next yet.
Loose(db, id) ==
    /\ \A x \in JobIds : x # id => Where(db, x, db.job[x])
    /\ Where(db, id, None)

DedupesRight(db) ==
    \A k \in DedupeMapKeys :
        /\ k \in DOMAIN db.dedupes <=> db.dedupe[k] # None
        /\ k \in DOMAIN db.dedupes => db.dedupes[k] = db.dedupe[k].expiresAt

RowRight(db, id, k) ==
    LET r == <<id, k>>
        row == db.flowchild[r]
    IN  /\ row # None <=> k \in db.flowchildren[id]
        /\ r \in DOMAIN db.flowpending <=> row # None /\ row.status = "pending"
        /\ r \in DOMAIN db.flowpending => db.flowpending[r] >= row.pendingSince
        /\ r \in db.flowcascade <=>
              row # None /\ row.status = "cancelled" /\ ~row.cascaded

FlowsRight(db) == \A id \in JobIds, k \in ChildKeys : RowRight(db, id, k)

JobsRight(db) == Settled(db) /\ Listed(db) /\ CountsRight(db.counts, db.job)
JobsLoose(db, id) ==
    Loose(db, id) /\ Listed(db) /\ CountsRight(db.counts, db.job)

\* The keys are right; they are but for the place of id.
Right(db) == db \in Keys /\ JobsRight(db) /\ DedupesRight(db) /\ FlowsRight(db)
RightBut(db, id) ==
    db \in Keys /\ JobsLoose(db, id) /\ DedupesRight(db) /\ FlowsRight(db)

SamePlaces(a, b) ==
    /\ b.waiting = a.waiting /\ b.delayed = a.delayed /\ b.active = a.active
    /\ b.finished = a.finished /\ b.terminal = a.terminal
SameLists(a, b) == b.all = a.all /\ b.byname = a.byname /\ b.byqueue = a.byqueue
SameDedupes(a, b) == b.dedupe = a.dedupe /\ b.dedupes = a.dedupes
SameFlows(a, b) ==
    /\ b.flowchild = a.flowchild /\ b.flowchildren = a.flowchildren
    /\ b.flowpending = a.flowpending /\ b.flowcascade = a.flowcascade

\* The other jobs have the places they had.
Elsewhere(a, b, id) ==
    \A x \in JobIds : \A i : x # id /\ Where(a, x, i) => Where(b, x, i)

LEMMA KeysAre ==
    ASSUME NEW db \in Keys
    PROVE  /\ db.job \in [JobIds -> Opt(JobHash)]
           /\ db.all \in Zset(JobIds, Nat)
           /\ db.byname \in [Names -> Zset(JobIds, Nat)]
           /\ db.byqueue \in [Queues -> Zset(JobIds, Nat)]
           /\ db.waiting \in WaitingZsets /\ db.delayed \in DelayedZsets
           /\ db.active \in ActiveZset /\ db.finished \in FinishedZsets
           /\ db.terminal \in TerminalZsets
           /\ db.counts \in [Counters -> Int]
           /\ db.dedupe \in [DedupeMapKeys -> Opt(Mem!DedupeEntry)]
           /\ db.dedupes \in Zset(DedupeMapKeys, Opt(Nat))
           /\ db.flowchild \in [Rows -> Opt(Mem!MemFlowChild)]
           /\ db.flowchildren \in [JobIds -> SUBSET ChildKeys]
           /\ db.flowpending \in Zset(Rows, Nat)
           /\ db.flowcascade \in SUBSET Rows
           /\ db.outbox \in SUBSET OutboxEntry /\ db.outboxSeq \in Nat
           /\ db.paused \in SUBSET Queues /\ db.seq \in Nat
BY DEF Keys, WaitingZsets, DelayedZsets, ActiveZset, FinishedZsets, TerminalZsets

LEMMA HashOf ==
    ASSUME NEW db \in Keys, NEW id \in JobIds, db.job[id] # None
    PROVE  db.job[id] \in JobHash
BY KeysAre DEF Opt

LEMMA PlacesKept ==
    ASSUME NEW a, NEW b, NEW id, SamePlaces(a, b)
    PROVE  /\ Elsewhere(a, b, id)
           /\ \A x, i : Where(a, x, i) => Where(b, x, i)
BY DEF SamePlaces, Elsewhere, Where

LEMMA ListsKept ==
    ASSUME NEW a, NEW b, NEW id \in JobIds, SameLists(a, b), Listed(a),
           OnlyAt(a.job, b.job, id), a.job[id] \in JobHash, b.job[id] \in JobHash,
           b.job[id].queue = a.job[id].queue, b.job[id].name = a.job[id].name
    PROVE  Listed(b)
<1> SUFFICES ASSUME NEW x \in JobIds PROVE ListedAs(b, x, b.job[x])
  BY DEF Listed
<1>1. ListedAs(a, x, a.job[x])
  BY DEF Listed
<1>2. a.job[id] # None /\ b.job[id] # None
  BY JobIs
<1> QED
  BY <1>1, <1>2 DEF OnlyAt, SameLists, ListedAs

LEMMA FlowsKept ==
    ASSUME NEW a, NEW b, SameFlows(a, b), FlowsRight(a) PROVE FlowsRight(b)
BY DEF SameFlows, FlowsRight, RowRight

LEMMA DedupesKept ==
    ASSUME NEW a, NEW b, SameDedupes(a, b), DedupesRight(a) PROVE DedupesRight(b)
BY DEF SameDedupes, DedupesRight

(* A job that leaves its place, and a job that gets one.                   *)
LEMMA Leaves ==
    ASSUME NEW a, NEW b, NEW id \in JobIds, Settled(a) \/ Loose(a, id),
           OnlyAt(a.job, b.job, id), Elsewhere(a, b, id), Where(b, id, None)
    PROVE  Loose(b, id)
BY DEF Settled, Loose, OnlyAt, Elsewhere

LEMMA Arrives ==
    ASSUME NEW a, NEW b, NEW id \in JobIds, Settled(a) \/ Loose(a, id),
           OnlyAt(a.job, b.job, id), Elsewhere(a, b, id), Where(b, id, b.job[id])
    PROVE  Settled(b)
BY DEF Settled, Loose, OnlyAt, Elsewhere

(* A job that waits for its children has no place to leave.                *)
LEMMA Parked ==
    ASSUME NEW db, NEW id \in JobIds, NEW j \in JobHash,
           j.state = "waiting-children"
    PROVE  Where(db, id, j) <=> Where(db, id, None)
<1>1. j.state \notin TerminalStates /\ j.state \notin {"waiting", "delayed", "active"}
  BY DEF TerminalStates
<1> QED
  BY <1>1, PlaceByState DEF Where

-----------------------------------------------------------------------------
(* The helpers prepended to every script                                   *)

(* PutJob: a job off its place gets a new state and its counters move.     *)
LEMMA PutJobIs ==
    ASSUME NEW db, NEW id \in JobIds, NEW j \in JobHash, RightBut(db, id),
           db.job[id] # None, j.queue = db.job[id].queue, j.name = db.job[id].name,
           NEW d, d = PutJob(db, id, j)
    PROVE  /\ RightBut(d, id) /\ OnlyAt(db.job, d.job, id) /\ d.job[id] = j
           /\ SamePlaces(db, d) /\ SameFlows(db, d) /\ SameDedupes(db, d)
           /\ d.seq = db.seq /\ d.outbox = db.outbox /\ d.outboxSeq = db.outboxSeq
           /\ d.paused = db.paused
<1>0. db \in Keys
  BY DEF RightBut
<1> DEFINE h2 == [db.job EXCEPT ![id] = j]
           c2 == CountsMove(db.counts, j.queue, db.job[id].state, j.state)
<1>1. h2 \in [JobIds -> Opt(JobHash)] /\ h2[id] = j /\ OnlyAt(db.job, h2, id)
  BY <1>0, KeysAre DEF Opt, OnlyAt
<1>2. c2 \in [Counters -> Int] /\ CountsRight(c2, h2)
  <2>1. db.counts \in [Counters -> Int] /\ CountsRight(db.counts, db.job)
    BY <1>0, KeysAre DEF RightBut, JobsLoose
  <2>2. db.job[id] \in JobHash
    BY <1>0, HashOf
  <2> HIDE DEF h2
  <2> QED
    BY <1>1, <2>1, <2>2, CountMoved
<1>3. /\ d.job = h2 /\ d.counts = c2
      /\ SamePlaces(db, d) /\ SameFlows(db, d) /\ SameDedupes(db, d)
      /\ SameLists(db, d)
      /\ d.seq = db.seq /\ d.outbox = db.outbox /\ d.outboxSeq = db.outboxSeq
      /\ d.paused = db.paused
  <2> HIDE DEF c2
  <2> QED
    BY <1>0 DEF PutJob, Keys, SamePlaces, SameFlows, SameDedupes, SameLists, c2
<1>4. d \in Keys
  <2> HIDE DEF c2, h2
  <2>1. d = [db EXCEPT !.job = h2, !.counts = c2]
    BY DEF PutJob, c2, h2
  <2> QED
    BY <1>0, <1>1, <1>2, <2>1 DEF Keys
<1> HIDE DEF h2, c2
<1>5. Listed(d)
  <2>1. db.job[id] \in JobHash /\ Listed(db)
    BY <1>0, HashOf DEF RightBut, JobsLoose
  <2> QED
    BY <1>1, <1>3, <2>1, ListsKept
<1>6. Loose(d, id)
  <2>1. Loose(db, id) /\ Where(db, id, None)
    BY DEF RightBut, JobsLoose, Loose
  <2>2. Elsewhere(db, d, id) /\ Where(d, id, None)
    BY <1>3, <2>1, PlacesKept
  <2>3. OnlyAt(db.job, d.job, id)
    BY <1>1, <1>3
  <2> QED
    BY <2>1, <2>2, <2>3, Leaves
<1> QED
  BY <1>1, <1>2, <1>3, <1>4, <1>5, <1>6, FlowsKept, DedupesKept
  DEF RightBut, JobsLoose

(* AddWaiting: a waiting job gets its place.                               *)
LEMMA AddWaitingIs ==
    ASSUME NEW db, NEW id \in JobIds, RightBut(db, id), At(db.job[id], "waiting"),
           NEW d, d = AddWaiting(db, id)
    PROVE  /\ Right(d) /\ d.job = db.job
           /\ SameFlows(db, d) /\ SameDedupes(db, d)
           /\ d.seq = db.seq /\ d.outbox = db.outbox /\ d.outboxSeq = db.outboxSeq
           /\ d.paused = db.paused
<1>0. db \in Keys
  BY DEF RightBut
<1> DEFINE j == db.job[id]
           w2 == [db.waiting EXCEPT ![j.queue] = ZAdd(@, <<j.seq, id>>, -j.priority)]
<1>1. j \in JobHash /\ j.state = "waiting" /\ j.queue \in Queues
  BY <1>0, HashOf, JobIs DEF At
<1>2. db.waiting \in WaitingZsets
  BY <1>0, KeysAre
<1>3. /\ w2[j.queue] = ZAdd(db.waiting[j.queue], <<j.seq, id>>, -j.priority)
      /\ \A q \in Queues : q # j.queue => w2[q] = db.waiting[q]
      /\ w2 = [q \in Queues |-> w2[q]]
  BY <1>1, <1>2 DEF WaitingZsets
<1>4. d = [db EXCEPT !.waiting = w2]
  BY DEF AddWaiting, WaitingMember
<1> HIDE DEF j, w2
<1>5. /\ \A q \in Queues : w2[q] \in Zset(Nat \X JobIds, Int)
      /\ \A x \in JobIds : \A i : x # id /\ InWaiting(db.waiting, x, i) => InWaiting(w2, x, i)
      /\ InWaiting(db.waiting, id, None) => InWaiting(w2, id, j)
  BY <1>1, <1>2, <1>3, WaitingAdd
<1>6. w2 \in [Queues -> Zset(Nat \X JobIds, Int)]
  BY <1>3, <1>5
<1>7. d \in Keys
  BY <1>0, <1>4, <1>6 DEF Keys
<1>8. /\ d.waiting = w2 /\ d.delayed = db.delayed /\ d.active = db.active
      /\ d.finished = db.finished /\ d.terminal = db.terminal
      /\ d.job = db.job /\ d.counts = db.counts
      /\ SameFlows(db, d) /\ SameDedupes(db, d) /\ SameLists(db, d)
      /\ d.seq = db.seq /\ d.outbox = db.outbox /\ d.outboxSeq = db.outboxSeq
      /\ d.paused = db.paused
  BY <1>0, <1>4 DEF Keys, SameFlows, SameDedupes, SameLists
<1>9. Elsewhere(db, d, id)
  BY <1>5, <1>8 DEF Elsewhere, Where
<1>10. Where(d, id, j)
  <2>1. Where(db, id, None)
    BY DEF RightBut, JobsLoose, Loose
  <2>2. j.state \notin TerminalStates /\ j.state # "delayed" /\ j.state # "active"
    BY <1>1 DEF TerminalStates
  <2> QED
    BY <1>1, <1>5, <1>8, <2>1, <2>2, PlaceByState DEF Where
<1>11. Settled(d)
  BY <1>8, <1>9, <1>10, Arrives DEF OnlyAt, RightBut, JobsLoose, j
<1>12. Listed(d)
  BY <1>8 DEF RightBut, JobsLoose, Listed, SameLists, ListedAs
<1> QED
  BY <1>7, <1>8, <1>11, <1>12, FlowsKept, DedupesKept
  DEF RightBut, JobsLoose, Right, JobsRight

(* ... and a delayed one.                                                  *)
LEMMA AddDelayedIs ==
    ASSUME NEW db, NEW id \in JobIds, RightBut(db, id), At(db.job[id], "delayed"),
           NEW d, d = [db EXCEPT !.delayed[db.job[id].queue] =
                                    ZAdd(@, id, db.job[id].runAt)]
    PROVE  /\ Right(d) /\ d.job = db.job
           /\ SameFlows(db, d) /\ SameDedupes(db, d)
           /\ d.seq = db.seq /\ d.outbox = db.outbox /\ d.outboxSeq = db.outboxSeq
           /\ d.paused = db.paused
<1>0. db \in Keys
  BY DEF RightBut
<1> DEFINE j == db.job[id]
           d2 == [db.delayed EXCEPT ![j.queue] = ZAdd(@, id, j.runAt)]
<1>1. j \in JobHash /\ j.state = "delayed" /\ j.queue \in Queues
  BY <1>0, HashOf, JobIs DEF At
<1>2. db.delayed \in DelayedZsets
  BY <1>0, KeysAre
<1>3. /\ d2[j.queue] = ZAdd(db.delayed[j.queue], id, j.runAt)
      /\ \A q \in Queues : q # j.queue => d2[q] = db.delayed[q]
      /\ d2 = [q \in Queues |-> d2[q]]
  BY <1>1, <1>2 DEF DelayedZsets
<1>4. d = [db EXCEPT !.delayed = d2]
  OBVIOUS
<1> HIDE DEF j, d2
<1>5. /\ \A q \in Queues : d2[q] \in Zset(JobIds, Nat)
      /\ \A x \in JobIds : \A i : x # id /\ InDelayed(db.delayed, x, i) => InDelayed(d2, x, i)
      /\ InDelayed(db.delayed, id, None) => InDelayed(d2, id, j)
  BY <1>1, <1>2, <1>3, DelayedPut
<1>6. d2 \in [Queues -> Zset(JobIds, Nat)]
  BY <1>3, <1>5
<1>7. d \in Keys
  BY <1>0, <1>4, <1>6 DEF Keys
<1>8. /\ d.waiting = db.waiting /\ d.delayed = d2 /\ d.active = db.active
      /\ d.finished = db.finished /\ d.terminal = db.terminal
      /\ d.job = db.job /\ d.counts = db.counts
      /\ SameFlows(db, d) /\ SameDedupes(db, d) /\ SameLists(db, d)
      /\ d.seq = db.seq /\ d.outbox = db.outbox /\ d.outboxSeq = db.outboxSeq
      /\ d.paused = db.paused
  BY <1>0, <1>4 DEF Keys, SameFlows, SameDedupes, SameLists
<1>9. Elsewhere(db, d, id)
  BY <1>5, <1>8 DEF Elsewhere, Where
<1>10. Where(d, id, j)
  <2>1. Where(db, id, None)
    BY DEF RightBut, JobsLoose, Loose
  <2>2. j.state \notin TerminalStates /\ j.state # "waiting" /\ j.state # "active"
    BY <1>1 DEF TerminalStates
  <2> QED
    BY <1>1, <1>5, <1>8, <2>1, <2>2, PlaceByState DEF Where
<1>11. Settled(d)
  BY <1>8, <1>9, <1>10, Arrives DEF OnlyAt, RightBut, JobsLoose, j
<1>12. Listed(d)
  BY <1>8 DEF RightBut, JobsLoose, Listed, SameLists, ListedAs
<1> QED
  BY <1>7, <1>8, <1>11, <1>12, FlowsKept, DedupesKept
  DEF RightBut, JobsLoose, Right, JobsRight

(* Enter: a job off its place becomes waiting or delayed.                  *)
LEMMA EnterIs ==
    ASSUME NEW db, NEW id \in JobIds, NEW j \in JobHash, RightBut(db, id),
           db.job[id] # None, j.queue = db.job[id].queue, j.name = db.job[id].name,
           j.state \in {"waiting", "delayed"}, NEW d, d = Enter(db, id, j)
    PROVE  /\ Right(d) /\ OnlyAt(db.job, d.job, id) /\ d.job[id] = j
           /\ SameFlows(db, d) /\ SameDedupes(db, d)
           /\ d.seq = db.seq /\ d.outbox = db.outbox /\ d.outboxSeq = db.outboxSeq
           /\ d.paused = db.paused
<1> DEFINE e == PutJob(db, id, j)
<1>1. /\ RightBut(e, id) /\ OnlyAt(db.job, e.job, id) /\ e.job[id] = j
      /\ SameFlows(db, e) /\ SameDedupes(db, e)
      /\ e.seq = db.seq /\ e.outbox = db.outbox /\ e.outboxSeq = db.outboxSeq
      /\ e.paused = db.paused
  BY PutJobIs
<1>2. At(e.job[id], j.state)
  BY <1>1, JobIs DEF At
<1>3. d = IF j.state = "waiting" THEN AddWaiting(e, id)
          ELSE [e EXCEPT !.delayed[j.queue] = ZAdd(@, id, j.runAt)]
  BY DEF Enter
<1> HIDE DEF e
<1>4. /\ Right(d) /\ d.job = e.job /\ SameFlows(e, d) /\ SameDedupes(e, d)
      /\ d.seq = e.seq /\ d.outbox = e.outbox /\ d.outboxSeq = e.outboxSeq
      /\ d.paused = e.paused
  <2>1. CASE j.state = "waiting"
    BY <1>1, <1>2, <1>3, <2>1, AddWaitingIs
  <2>2. CASE j.state = "delayed"
    <3>1. d = [e EXCEPT !.delayed[e.job[id].queue] = ZAdd(@, id, e.job[id].runAt)]
      BY <1>1, <1>3, <2>2
    <3> QED
      BY <1>1, <1>2, <2>2, <3>1, AddDelayedIs
  <2> QED
    BY <2>1, <2>2
<1> QED
  BY <1>1, <1>4 DEF SameFlows, SameDedupes

(* AppendOutbox, of a job that has ended.                                  *)
LEMMA AppendOutboxIs ==
    ASSUME NEW db \in Keys, NEW id \in JobIds, db.job[id] # None,
           db.job[id].state \in TerminalStates, NEW d, d = AppendOutbox(db, id)
    PROVE  /\ d \in Keys /\ d.job = db.job /\ d.counts = db.counts
           /\ SamePlaces(db, d) /\ SameLists(db, d)
           /\ SameFlows(db, d) /\ SameDedupes(db, d)
           /\ d.seq = db.seq /\ d.paused = db.paused
<1> DEFINE j == db.job[id]
           e == [stamp |-> db.outboxSeq + 1, flowId |-> j.parent.flowId,
                 childKey |-> j.parent.childKey, outcome |-> j.state,
                 exit |-> j.exit, failedReason |-> j.failedReason]
<1>1. j \in JobHash
  BY HashOf
<1>2. CASE j.parent = None
  BY <1>2 DEF AppendOutbox, SamePlaces, SameLists, SameFlows, SameDedupes
<1>3. CASE j.parent # None
  <2>1. j.parent \in Envelopes /\ j.exit \in BOOLEAN /\ j.failedReason \in BOOLEAN
    BY <1>1, <1>3 DEF JobHash, Opt
  <2>2. db.outboxSeq + 1 \in Nat
    BY KeysAre
  <2>3. e \in OutboxEntry
    <3>1. /\ j.parent.flowId \in {v.flowId : v \in Envelopes}
          /\ j.parent.childKey \in {v.childKey : v \in Envelopes}
      BY <2>1
    <3> QED
      BY <2>1, <2>2, <3>1 DEF OutboxEntry
  <2>4. d = [db EXCEPT !.outboxSeq = @ + 1, !.outbox = @ \cup {e}]
    BY <1>3 DEF AppendOutbox
  <2> HIDE DEF e, j
  <2>5. db.outbox \cup {e} \in SUBSET OutboxEntry
    BY <2>3, KeysAre
  <2> QED
    BY <2>2, <2>4, <2>5 DEF Keys, SamePlaces, SameLists, SameFlows, SameDedupes
<1> QED
  BY <1>2, <1>3

(* ReleaseDedupe: a key that is freed leaves the index with its entry.     *)
LEMMA ReleaseDedupeIs ==
    ASSUME NEW db \in Keys, NEW id \in JobIds, db.job[id] # None,
           DedupesRight(db), NEW t, NEW d, d = ReleaseDedupe(db, id, t)
    PROVE  /\ d \in Keys /\ d.job = db.job /\ d.counts = db.counts
           /\ SamePlaces(db, d) /\ SameLists(db, d)
           /\ SameFlows(db, d) /\ DedupesRight(d)
           /\ d.seq = db.seq /\ d.paused = db.paused
           /\ d.outbox = db.outbox /\ d.outboxSeq = db.outboxSeq
<1> DEFINE k == <<db.job[id].name, db.job[id].dedupeKey>>
<1>1. CASE d = db
  BY <1>1 DEF SamePlaces, SameLists, SameFlows
<1>2. CASE d # db
  <2>1. /\ d = [db EXCEPT !.dedupe[k] = None, !.dedupes = ZRem(@, {k})]
        /\ db.job[id].dedupeKey # None
    BY <1>2 DEF ReleaseDedupe
  <2>2. k \in DedupeMapKeys
    <3>1. db.job[id] \in JobHash
      BY HashOf
    <3> QED
      BY <2>1, <3>1 DEF JobHash, Opt, DedupeMapKeys
  <2> DEFINE e == [db.dedupe EXCEPT ![k] = None]  z == ZRem(db.dedupes, {k})
  <2>3. /\ e \in [DedupeMapKeys -> Opt(Mem!DedupeEntry)] /\ e[k] = None
        /\ \A m \in DedupeMapKeys : m # k => e[m] = db.dedupe[m]
    BY <2>2, KeysAre DEF Opt
  <2>4. d = [db EXCEPT !.dedupe = e, !.dedupes = z]
    BY <2>1
  <2> HIDE DEF k, e, z
  <2>5. /\ z \in Zset(DedupeMapKeys, Opt(Nat))
        /\ \A m : m \in DOMAIN z <=> m \in DOMAIN db.dedupes /\ m # k
        /\ \A m \in DOMAIN db.dedupes : m # k => z[m] = db.dedupes[m]
    <3>1. db.dedupes \in Zset(DedupeMapKeys, Opt(Nat))
      BY KeysAre
    <3> QED
      BY <3>1, ZRem1Is DEF z
  <2>6. d.dedupe = e /\ d.dedupes = z
    BY <2>4 DEF Keys
  <2>7. DedupesRight(d)
    BY <2>3, <2>5, <2>6 DEF DedupesRight
  <2> QED
    BY <2>3, <2>4, <2>5, <2>7 DEF Keys, SamePlaces, SameLists, SameFlows
<1> QED
  BY <1>1, <1>2

\* What FinishJob leaves of the hash j of a job that ends with state at t.
Ended(j, state, t) ==
    AppendAttempt([ClearLock(j) EXCEPT !.state = state, !.finishedAt = t,
                                       !.cancelRequested = FALSE], state)

LEMMA EndedIs ==
    ASSUME NEW j \in JobHash, NEW state \in TerminalStates, NEW t \in Nat
    PROVE  /\ Ended(j, state, t) \in JobHash
           /\ Ended(j, state, t).state = state /\ Ended(j, state, t).finishedAt = t
           /\ Ended(j, state, t).queue = j.queue /\ Ended(j, state, t).name = j.name
<1> DEFINE i == [ClearLock(j) EXCEPT !.state = state, !.finishedAt = t,
                                     !.cancelRequested = FALSE]
<1> DEFINE c == ClearLock(j)
<1>1. /\ i \in JobHash /\ i.state = state /\ i.finishedAt = t
      /\ i.queue = j.queue /\ i.name = j.name /\ i.attempts = j.attempts
  <2>1. c \in JobHash
    BY DEF JobHash, ClearLock, Opt
  <2>2. c.queue = j.queue /\ c.name = j.name /\ c.attempts = j.attempts
    BY DEF JobHash, ClearLock
  <2> HIDE DEF c
  <2>3. i = [c EXCEPT !.state = state, !.finishedAt = t, !.cancelRequested = FALSE]
    BY DEF c
  <2> HIDE DEF i
  <2>4. state \in JobStates /\ t \in Opt(Nat)
    BY DEF JobStates, Opt
  <2>5. i \in JobHash
    BY <2>1, <2>3, <2>4 DEF JobHash
  <2>6. /\ i.state = state /\ i.finishedAt = t
        /\ i.queue = c.queue /\ i.name = c.name /\ i.attempts = c.attempts
    BY <2>1, <2>3 DEF JobHash
  <2> QED
    BY <2>2, <2>5, <2>6
<1>2. Append(j.attempts, state) \in Seq(Mem!AttemptOutcomes)
  <2>1. j.attempts \in Seq(Mem!AttemptOutcomes) /\ state \in Mem!AttemptOutcomes
    BY DEF JobHash, Mem!AttemptOutcomes, TerminalStates
  <2> QED
    BY <2>1
<1>3. Ended(j, state, t) = [i EXCEPT !.attempts = Append(@, state)]
  BY DEF Ended, AppendAttempt
<1> HIDE DEF i
<1> QED
  BY <1>1, <1>2, <1>3 DEF JobHash

Filed(db, id, name, state, t) ==
    [db EXCEPT !.finished[state] = ZAdd(@, id, t),
               !.terminal[<<name, state>>] = ZAdd(@, id, t)]

(* A job that has ended gets its places: in the history of its state and   *)
(* in that of its name and state.                                          *)
LEMMA AddFinishedIs ==
    ASSUME NEW db, NEW id \in JobIds, RightBut(db, id), db.job[id] # None,
           NEW state \in TerminalStates, NEW t \in Nat, NEW name,
           db.job[id].state = state, db.job[id].finishedAt = t,
           db.job[id].name = name, NEW d,
           d = Filed(db, id, name, state, t)
    PROVE  /\ Right(d) /\ d.job = db.job
           /\ SameFlows(db, d) /\ SameDedupes(db, d)
           /\ d.seq = db.seq /\ d.outbox = db.outbox /\ d.outboxSeq = db.outboxSeq
           /\ d.paused = db.paused
<1>0. db \in Keys
  BY DEF RightBut
<1> DEFINE j == db.job[id]
           f2 == [db.finished EXCEPT ![state] = ZAdd(@, id, t)]
           t2 == [db.terminal EXCEPT ![<<name, state>>] = ZAdd(@, id, t)]
<1>1. /\ j \in JobHash /\ j.state = state /\ j.finishedAt = t /\ j.name = name
      /\ name \in Names
  BY <1>0, HashOf, JobIs
<1>2. db.finished \in FinishedZsets /\ db.terminal \in TerminalZsets
  BY <1>0, KeysAre
<1>3. /\ f2[j.state] = ZAdd(db.finished[j.state], id, j.finishedAt)
      /\ \A s \in TerminalStates : s # j.state => f2[s] = db.finished[s]
      /\ f2 = [s \in TerminalStates |-> f2[s]]
  BY <1>1, <1>2 DEF FinishedZsets
<1>4. /\ t2[<<j.name, j.state>>] =
              ZAdd(db.terminal[<<j.name, j.state>>], id, j.finishedAt)
      /\ \A n \in Names, s \in TerminalStates :
            n # j.name \/ s # j.state => t2[<<n, s>>] = db.terminal[<<n, s>>]
      /\ t2 = [g \in Groups |-> t2[g]]
  BY <1>1, <1>2 DEF TerminalZsets, Groups
<1>5. d = [db EXCEPT !.finished = f2, !.terminal = t2]
  BY DEF Filed
<1> HIDE DEF j, f2, t2
<1>6. /\ \A s \in TerminalStates : f2[s] \in Zset(JobIds, Nat)
      /\ \A x \in JobIds : \A i :
            x # id /\ InFinished(db.finished, x, i) => InFinished(f2, x, i)
      /\ InFinished(db.finished, id, None) => InFinished(f2, id, j)
  BY <1>1, <1>2, <1>3, FinishedPut
<1>7. /\ \A n \in Names, s \in TerminalStates : t2[<<n, s>>] \in Zset(JobIds, Nat)
      /\ \A x \in JobIds : \A i :
            x # id /\ InTerminal(db.terminal, x, i) => InTerminal(t2, x, i)
      /\ InTerminal(db.terminal, id, None) => InTerminal(t2, id, j)
  <2>1. j.state \in TerminalStates /\ j.finishedAt \in Nat
    BY <1>1
  <2> DEFINE T == db.terminal
  <2>2. T \in TerminalZsets
    BY <1>2
  <2>3. /\ t2[<<j.name, j.state>>] =
                ZAdd(T[<<j.name, j.state>>], id, j.finishedAt)
        /\ \A n \in Names, s \in TerminalStates :
              n # j.name \/ s # j.state => t2[<<n, s>>] = T[<<n, s>>]
    BY <1>4
  <2> HIDE DEF T
  <2> QED
    BY <1>1, <2>1, <2>2, <2>3, TerminalPut DEF T
<1>8. f2 \in [TerminalStates -> Zset(JobIds, Nat)] /\ t2 \in [Groups -> Zset(JobIds, Nat)]
  <2>1. \A g \in Groups : t2[g] \in Zset(JobIds, Nat)
    BY <1>7 DEF Groups
  <2> QED
    BY <1>3, <1>4, <1>6, <2>1
<1>9. d \in Keys
  BY <1>0, <1>5, <1>8 DEF Keys
<1>10. /\ d.waiting = db.waiting /\ d.delayed = db.delayed /\ d.active = db.active
       /\ d.finished = f2 /\ d.terminal = t2
       /\ d.job = db.job /\ d.counts = db.counts
       /\ SameFlows(db, d) /\ SameDedupes(db, d) /\ SameLists(db, d)
       /\ d.seq = db.seq /\ d.outbox = db.outbox /\ d.outboxSeq = db.outboxSeq
       /\ d.paused = db.paused
  BY <1>0, <1>5 DEF Keys, SameFlows, SameDedupes, SameLists
<1>11. Elsewhere(db, d, id)
  BY <1>6, <1>7, <1>10 DEF Elsewhere, Where
<1>12. Where(d, id, j)
  <2>1. Where(db, id, None)
    BY DEF RightBut, JobsLoose, Loose
  <2>2. j.state \notin {"waiting", "delayed", "active"}
    BY <1>1 DEF TerminalStates
  <2> QED
    BY <1>1, <1>6, <1>7, <1>10, <2>1, <2>2, PlaceByState DEF Where
<1>13. Settled(d)
  BY <1>10, <1>11, <1>12, Arrives DEF OnlyAt, RightBut, JobsLoose, j
<1>14. Listed(d)
  BY <1>10 DEF RightBut, JobsLoose, Listed, SameLists, ListedAs
<1> QED
  BY <1>9, <1>10, <1>13, <1>14, FlowsKept, DedupesKept
  DEF RightBut, JobsLoose, Right, JobsRight

(* A job that ends is in the history of its state, its report in the       *)
(* outbox, its key free if it may be.                                      *)
LEMMA EndIs ==
    ASSUME NEW db, NEW id \in JobIds, NEW done \in JobHash, RightBut(db, id),
           db.job[id] # None, NEW name, name = db.job[id].name,
           done.queue = db.job[id].queue, done.name = name,
           NEW state \in TerminalStates, NEW t \in Nat,
           done.state = state, done.finishedAt = t,
           NEW d, d = ReleaseDedupe(AppendOutbox(Filed(PutJob(db, id, done),
                          id, name, state, t), id), id, t)
    PROVE  /\ Right(d) /\ OnlyAt(db.job, d.job, id) /\ d.job[id] = done
           /\ SameFlows(db, d) /\ d.seq = db.seq /\ d.paused = db.paused
<1> DEFINE d1 == PutJob(db, id, done)
           d2 == Filed(d1, id, name, state, t)
           d3 == AppendOutbox(d2, id)
<1>1. /\ done \in JobHash /\ done.state = state /\ done.finishedAt = t
      /\ done.queue = db.job[id].queue /\ done.name = name /\ done # None
  BY JobIs
<1>2. d = ReleaseDedupe(d3, id, t)
  OBVIOUS
<1>3. /\ RightBut(d1, id) /\ OnlyAt(db.job, d1.job, id) /\ d1.job[id] = done
      /\ SameFlows(db, d1) /\ d1.seq = db.seq /\ d1.paused = db.paused
  BY <1>1, PutJobIs
<1> HIDE DEF d1
<1>4. /\ Right(d2) /\ d2.job = d1.job /\ SameFlows(d1, d2)
      /\ d2.seq = d1.seq /\ d2.paused = d1.paused
  <2>1. d1.job[id] # None /\ d1.job[id].state = state
        /\ d1.job[id].finishedAt = t /\ d1.job[id].name = name
    BY <1>1, <1>3, JobIs
  <2> QED
    BY <1>3, <2>1, AddFinishedIs
<1> HIDE DEF d2
<1>5. d2 \in Keys /\ d2.job[id] # None /\ d2.job[id].state \in TerminalStates
  BY <1>1, <1>3, <1>4, JobIs DEF Right
<1>6. /\ d3 \in Keys /\ d3.job = d2.job /\ d3.counts = d2.counts
      /\ SamePlaces(d2, d3) /\ SameLists(d2, d3)
      /\ SameFlows(d2, d3) /\ SameDedupes(d2, d3)
      /\ d3.seq = d2.seq /\ d3.paused = d2.paused
  BY <1>5, AppendOutboxIs
<1> HIDE DEF d3
<1>7. DedupesRight(d3)
  BY <1>4, <1>6, DedupesKept DEF Right
<1>8. /\ d \in Keys /\ d.job = d3.job /\ d.counts = d3.counts
      /\ SamePlaces(d3, d) /\ SameLists(d3, d)
      /\ SameFlows(d3, d) /\ DedupesRight(d)
      /\ d.seq = d3.seq /\ d.paused = d3.paused
  BY <1>2, <1>5, <1>6, <1>7, ReleaseDedupeIs
<1>9. /\ d.job = d2.job /\ d.counts = d2.counts /\ SamePlaces(d2, d)
      /\ SameLists(d2, d) /\ SameFlows(d2, d)
  BY <1>6, <1>8 DEF SamePlaces, SameLists, SameFlows
<1>10. JobsRight(d)
  <2>0. \A x, i : Where(d2, x, i) => Where(d, x, i)
    BY <1>9, PlacesKept
  <2>1. Settled(d)
    BY <1>4, <1>9, <2>0 DEF Right, JobsRight, Settled
  <2>2. Listed(d)
    BY <1>4, <1>9 DEF Right, JobsRight, Listed, ListedAs, SameLists
  <2> QED
    BY <1>4, <1>9, <2>1, <2>2 DEF Right, JobsRight
<1>11. FlowsRight(d)
  BY <1>4, <1>9, FlowsKept DEF Right
<1>12. SameFlows(db, d)
  BY <1>3, <1>4, <1>9 DEF SameFlows
<1> QED
  BY <1>3, <1>4, <1>6, <1>8, <1>9, <1>10, <1>11, <1>12 DEF Right

(* FinishJob.                                                              *)
LEMMA FinishJobIs ==
    ASSUME NEW db, NEW id \in JobIds, NEW j \in JobHash, RightBut(db, id),
           db.job[id] # None, j.queue = db.job[id].queue, j.name = db.job[id].name,
           NEW state \in TerminalStates, NEW t \in Nat,
           NEW d, d = FinishJob(db, id, j, state, t)
    PROVE  /\ Right(d) /\ OnlyAt(db.job, d.job, id)
           /\ d.job[id] = Ended(j, state, t)
           /\ SameFlows(db, d) /\ d.seq = db.seq /\ d.paused = db.paused
<1> DEFINE done == Ended(j, state, t)  name == j.name
<1>1. /\ done \in JobHash /\ done.state = state /\ done.finishedAt = t
      /\ done.queue = db.job[id].queue /\ done.name = name
      /\ name = db.job[id].name
  BY EndedIs
<1>2. d = ReleaseDedupe(AppendOutbox(Filed(PutJob(db, id, done),
                          id, name, state, t), id), id, t)
  BY DEF FinishJob, Ended, Filed
<1> HIDE DEF done, name
<1>3. /\ Right(d) /\ OnlyAt(db.job, d.job, id) /\ d.job[id] = done
      /\ SameFlows(db, d) /\ d.seq = db.seq /\ d.paused = db.paused
  BY <1>1, <1>2, EndIs
<1> QED
  BY <1>3 DEF done

-----------------------------------------------------------------------------
(* Dependency rows                                                         *)

SameJobs(a, b) ==
    SamePlaces(a, b) /\ SameLists(a, b) /\ b.job = a.job /\ b.counts = a.counts

NoNewRows(a, b) == \A r \in Rows : a.flowchild[r] = None => b.flowchild[r] = None

LEMMA JobsKept ==
    ASSUME NEW a, NEW b, SameJobs(a, b)
    PROVE  /\ JobsRight(a) => JobsRight(b)
           /\ \A id : JobsLoose(a, id) => JobsLoose(b, id)
<1>1. \A x, i : Where(a, x, i) => Where(b, x, i)
  BY PlacesKept DEF SameJobs
<1>2. Listed(a) => Listed(b)
  BY DEF SameJobs, SameLists, Listed, ListedAs
<1> QED
  BY <1>1, <1>2 DEF SameJobs, JobsRight, JobsLoose, Settled, Loose

LEMMA RowKeysAre ==
    ASSUME NEW id \in JobIds, NEW keys \in SUBSET ChildKeys
    PROVE  /\ RowKeys(id, keys) \in SUBSET Rows
           /\ \A x \in JobIds, k \in ChildKeys :
                 <<x, k>> \in RowKeys(id, keys) <=> x = id /\ k \in keys
BY DEF RowKeys, Rows

WithRows(db, c, s, p, a) ==
    [db EXCEPT !.flowchild = c, !.flowchildren = s, !.flowpending = p,
               !.flowcascade = a]

LEMMA RowKeysSet ==
    ASSUME NEW db \in Keys, NEW c \in [Rows -> Opt(Mem!MemFlowChild)],
           NEW s \in [JobIds -> SUBSET ChildKeys], NEW p \in Zset(Rows, Nat),
           NEW a \in SUBSET Rows
    PROVE  WithRows(db, c, s, p, a) \in Keys
<1> DEFINE f == [db EXCEPT !.flowchild = c]  g == [f EXCEPT !.flowchildren = s]
           h == [g EXCEPT !.flowpending = p]
<1>1. WithRows(db, c, s, p, a) = [h EXCEPT !.flowcascade = a]
  BY DEF WithRows
<1>2. f \in Keys
  BY DEF Keys
<1> HIDE DEF f
<1>3. g \in Keys
  BY <1>2 DEF Keys
<1> HIDE DEF g
<1>4. h \in Keys
  BY <1>3 DEF Keys
<1> HIDE DEF h
<1> QED
  BY <1>1, <1>4 DEF Keys

(* DropRows: the rows leave the indexes with their hashes.                 *)
LEMMA DropRowsIs ==
    ASSUME NEW db \in Keys, NEW id \in JobIds, NEW keys \in SUBSET ChildKeys,
           FlowsRight(db), NEW d, d = DropRows(db, id, keys)
    PROVE  /\ d \in Keys /\ SameJobs(db, d) /\ SameDedupes(db, d) /\ FlowsRight(d)
           /\ NoNewRows(db, d)
           /\ \A k \in keys : d.flowchild[<<id, k>>] = None
           /\ \A x \in JobIds, k \in ChildKeys : x # id \/ k \notin keys =>
                 /\ d.flowchild[<<x, k>>] = db.flowchild[<<x, k>>]
                 /\ <<x, k>> \in DOMAIN d.flowpending <=>
                       <<x, k>> \in DOMAIN db.flowpending
                 /\ <<x, k>> \in DOMAIN db.flowpending =>
                       d.flowpending[<<x, k>>] = db.flowpending[<<x, k>>]
<1> DEFINE rows == RowKeys(id, keys)
           c2 == [r \in DOMAIN db.flowchild |->
                     IF r \in rows THEN None ELSE db.flowchild[r]]
           s2 == [db.flowchildren EXCEPT ![id] = @ \ keys]
           p2 == ZRem(db.flowpending, rows)
           a2 == db.flowcascade \ rows
<1>1. /\ rows \in SUBSET Rows
      /\ \A x \in JobIds, k \in ChildKeys : <<x, k>> \in rows <=> x = id /\ k \in keys
  BY RowKeysAre
<1>2. d = [db EXCEPT !.flowchild = c2, !.flowchildren = s2,
                     !.flowpending = p2, !.flowcascade = a2]
  BY DEF DropRows
<1>3. /\ db.flowchild \in [Rows -> Opt(Mem!MemFlowChild)]
      /\ db.flowchildren \in [JobIds -> SUBSET ChildKeys]
      /\ db.flowpending \in Zset(Rows, Nat)
      /\ db.flowcascade \in SUBSET Rows
  BY KeysAre
<1> HIDE DEF rows
<1>4. /\ c2 \in [Rows -> Opt(Mem!MemFlowChild)]
      /\ \A r \in Rows : c2[r] = IF r \in rows THEN None ELSE db.flowchild[r]
  BY <1>3 DEF Opt
<1>5. /\ s2 \in [JobIds -> SUBSET ChildKeys]
      /\ \A x \in JobIds, k \in ChildKeys :
            k \in s2[x] <=> k \in db.flowchildren[x] /\ ~ (x = id /\ k \in keys)
  BY <1>3
<1>6. /\ p2 \in Zset(Rows, Nat)
      /\ \A r : r \in DOMAIN p2 <=> r \in DOMAIN db.flowpending /\ r \notin rows
      /\ \A r \in DOMAIN db.flowpending : r \notin rows => p2[r] = db.flowpending[r]
  BY <1>3, ZRemIs
<1>7. a2 \in SUBSET Rows /\ \A r : r \in a2 <=> r \in db.flowcascade /\ r \notin rows
  BY <1>3
<1> HIDE DEF c2, s2, p2, a2
<1>8. d \in Keys
  <2>1. /\ c2 \in [Rows -> Opt(Mem!MemFlowChild)]
        /\ s2 \in [JobIds -> SUBSET ChildKeys] /\ p2 \in Zset(Rows, Nat)
        /\ a2 \in SUBSET Rows
    BY <1>4, <1>5, <1>6, <1>7
  <2>2. d = WithRows(db, c2, s2, p2, a2)
    BY <1>2 DEF WithRows
  <2> QED
    BY <2>1, <2>2, RowKeysSet
<1>9. /\ d.flowchild = c2 /\ d.flowchildren = s2 /\ d.flowpending = p2
      /\ d.flowcascade = a2 /\ SameJobs(db, d) /\ SameDedupes(db, d)
  BY <1>2 DEF Keys, SameJobs, SamePlaces, SameLists, SameDedupes
<1>10. ASSUME NEW x \in JobIds, NEW k \in ChildKeys PROVE RowRight(d, x, k)
  <2>1. RowRight(db, x, k) /\ <<x, k>> \in Rows
    BY DEF FlowsRight, Rows
  <2>2. CASE x = id /\ k \in keys
    BY <1>1, <1>4, <1>5, <1>6, <1>7, <1>9, <2>1, <2>2 DEF RowRight
  <2>3. CASE ~ (x = id /\ k \in keys)
    <3>1. <<x, k>> \notin rows
      BY <1>1, <2>3
    <3> QED
      BY <1>4, <1>5, <1>6, <1>7, <1>9, <2>1, <2>3, <3>1 DEF RowRight
  <2> QED
    BY <2>2, <2>3
<1>11. \A x \in JobIds, k \in ChildKeys : <<x, k>> \in Rows
  BY DEF Rows
<1> QED
  BY <1>1, <1>4, <1>6, <1>8, <1>9, <1>10, <1>11 DEF FlowsRight, NoNewRows

Staged(r, rows, old, t) ==
    IF r \in rows THEN [status |-> "pending", cascaded |-> FALSE, pendingSince |-> t]
    ELSE old

(* Stage: new rows come into the indexes with their hashes.  A row that    *)
(* some script settled before would stay in p:flowcascade: rows must be    *)
(* new, which is what the driver's bookkeeping of an ack sees to.          *)
MayStage(db, id, keys, first) ==
    ~first /\ ~HasManifest(db, id) =>
        \A k \in keys : db.flowchild[<<id, k>>] = None

LEMMA PendingSet ==
    ASSUME NEW h \in Keys, NEW p \in Zset(Rows, Nat),
           NEW d, d = [h EXCEPT !.flowpending = p]
    PROVE  d \in Keys
BY DEF Keys

StagedWell(db, d, id, keys, first) ==
    /\ Right(d) /\ d.job = db.job
    /\ \A x \in JobIds, k \in ChildKeys :
          /\ x # id \/ k \notin keys
          /\ db.flowchild[<<x, k>>] = None
          => d.flowchild[<<x, k>>] = None
    /\ first /\ ~HasManifest(db, id) =>
          \A k \in ChildKeys \ keys : d.flowchild[<<id, k>>] = None

LEMMA StageIs ==
    ASSUME NEW db, Right(db), NEW id \in JobIds, NEW keys \in SUBSET ChildKeys,
           NEW first, NEW t \in Nat, MayStage(db, id, keys, first),
           NEW d, d = Stage(db, id, keys, first, t)
    PROVE  StagedWell(db, d, id, keys, first)
<1>1. CASE HasManifest(db, id)
  BY <1>1 DEF Stage, StagedWell
<1>2. CASE ~HasManifest(db, id)
  <2> DEFINE e == IF first THEN DropRows(db, id, db.flowchildren[id]) ELSE db
             rows == RowKeys(id, keys)
             c2 == [r \in DOMAIN e.flowchild |-> Staged(r, rows, e.flowchild[r], t)]
             s2 == [e.flowchildren EXCEPT ![id] = @ \cup keys]
             p2 == ZAddAll(e.flowpending, rows, t)
  <2>0. db \in Keys /\ FlowsRight(db) /\ JobsRight(db) /\ DedupesRight(db)
    BY DEF Right
  <2>1. /\ e \in Keys /\ SameJobs(db, e) /\ SameDedupes(db, e) /\ FlowsRight(e)
        /\ NoNewRows(db, e)
        /\ \A k \in keys : e.flowchild[<<id, k>>] = None
        /\ first => \A k \in ChildKeys : e.flowchild[<<id, k>>] = None
    <3>1. CASE ~first
      BY <1>2, <2>0, <3>1
      DEF MayStage, SameJobs, SamePlaces, SameLists, SameDedupes, NoNewRows
    <3>2. CASE first
      <4>1. db.flowchildren[id] \in SUBSET ChildKeys
        BY <2>0, KeysAre
      <4> DEFINE old == db.flowchildren[id]
      <4>2. /\ e \in Keys /\ SameJobs(db, e) /\ SameDedupes(db, e) /\ FlowsRight(e)
            /\ NoNewRows(db, e) /\ \A k \in old : e.flowchild[<<id, k>>] = None
        <5> HIDE DEF old
        <5>1. e = DropRows(db, id, old) /\ old \in SUBSET ChildKeys
          BY <3>2, <4>1 DEF old
        <5> HIDE DEF e
        <5> QED
          BY <2>0, <5>1, DropRowsIs
      <4>3. ASSUME NEW k \in ChildKeys, k \notin old
            PROVE  db.flowchild[<<id, k>>] = None /\ <<id, k>> \in Rows
        BY <2>0, <4>3 DEF FlowsRight, RowRight, Rows
      <4> HIDE DEF old, e
      <4> QED
        BY <4>2, <4>3 DEF NoNewRows
    <3> QED
      BY <3>1, <3>2
  <2>2. d = [e EXCEPT !.flowchild = c2, !.flowchildren = s2, !.flowpending = p2]
    BY <1>2 DEF Stage, Staged
  <2> HIDE DEF e
  <2>3. /\ rows \in SUBSET Rows
        /\ \A x \in JobIds, k \in ChildKeys : <<x, k>> \in rows <=> x = id /\ k \in keys
    BY RowKeysAre
  <2>4. /\ e.flowchild \in [Rows -> Opt(Mem!MemFlowChild)]
        /\ e.flowchildren \in [JobIds -> SUBSET ChildKeys]
        /\ e.flowpending \in Zset(Rows, Nat)
    BY <2>1, KeysAre
  <2> HIDE DEF rows
  <2>5. \A r, old : old \in Opt(Mem!MemFlowChild) =>
            Staged(r, rows, old, t) \in Opt(Mem!MemFlowChild)
    BY DEF Staged, Opt, Mem!MemFlowChild
  <2>6. /\ c2 \in [Rows -> Opt(Mem!MemFlowChild)]
        /\ \A r \in Rows : c2[r] = Staged(r, rows, e.flowchild[r], t)
    BY <2>4, <2>5
  <2>7. /\ s2 \in [JobIds -> SUBSET ChildKeys]
        /\ \A x \in JobIds, k \in ChildKeys :
              k \in s2[x] <=> k \in e.flowchildren[x] \/ (x = id /\ k \in keys)
    BY <2>4
  <2>8. /\ p2 \in Zset(Rows, Nat)
        /\ \A r : r \in DOMAIN p2 <=> r \in DOMAIN e.flowpending \/ r \in rows
        /\ \A r \in rows : p2[r] = t
        /\ \A r \in DOMAIN e.flowpending : r \notin rows => p2[r] = e.flowpending[r]
    BY <2>3, <2>4, ZAddAllIs
  <2> HIDE DEF c2, s2, p2
  <2>9. d \in Keys
    <3> DEFINE g == [e EXCEPT !.flowchild = c2]
               h == [g EXCEPT !.flowchildren = s2]
    <3>1. g \in Keys
      BY <2>1, <2>6 DEF Keys
    <3>2. d = [h EXCEPT !.flowpending = p2]
      BY <2>2
    <3> HIDE DEF g
    <3>3. h \in Keys
      BY <2>7, <3>1 DEF Keys
    <3>4. p2 \in Zset(Rows, Nat)
      BY <2>8
    <3> HIDE DEF h
    <3> QED
      BY <3>2, <3>3, <3>4, PendingSet
  <2>10. /\ d.flowchild = c2 /\ d.flowchildren = s2 /\ d.flowpending = p2
         /\ d.flowcascade = e.flowcascade /\ SameJobs(e, d) /\ SameDedupes(e, d)
    BY <2>1, <2>2 DEF Keys, SameJobs, SamePlaces, SameLists, SameDedupes
  <2>11. ASSUME NEW x \in JobIds, NEW k \in ChildKeys PROVE RowRight(d, x, k)
    <3>1. RowRight(e, x, k) /\ <<x, k>> \in Rows
      BY <2>1 DEF FlowsRight, Rows
    <3>2. CASE x = id /\ k \in keys
      <4> DEFINE row == [status |-> "pending", cascaded |-> FALSE, pendingSince |-> t]
      <4>1. <<x, k>> \in rows /\ d.flowchild[<<x, k>>] = row
        BY <2>3, <2>6, <2>10, <3>1, <3>2 DEF Staged
      <4>2. row \in Mem!MemFlowChild
        BY DEF Mem!MemFlowChild
      <4>3. row # None /\ row.status = "pending" /\ row.pendingSince = t
        BY <4>2, NoneAssumption
      <4>4. <<x, k>> \notin d.flowcascade
        BY <2>1, <2>10, <3>1, <3>2 DEF RowRight
      <4> HIDE DEF row
      <4> QED
        BY <2>7, <2>8, <2>10, <3>2, <4>1, <4>3, <4>4 DEF RowRight
    <3>3. CASE ~ (x = id /\ k \in keys)
      <4>1. <<x, k>> \notin rows
        BY <2>3, <3>3
      <4>2. d.flowchild[<<x, k>>] = e.flowchild[<<x, k>>]
        BY <2>6, <2>10, <3>1, <4>1 DEF Staged
      <4> QED
        BY <2>7, <2>8, <2>10, <3>1, <3>3, <4>1, <4>2 DEF RowRight
    <3> QED
      BY <3>2, <3>3
  <2>12. ASSUME NEW x \in JobIds, NEW k \in ChildKeys, x # id \/ k \notin keys
         PROVE  d.flowchild[<<x, k>>] = e.flowchild[<<x, k>>] /\ <<x, k>> \in Rows
    <3>1. <<x, k>> \notin rows /\ <<x, k>> \in Rows
      BY <2>3, <2>12 DEF Rows
    <3> QED
      BY <2>6, <2>10, <3>1 DEF Staged
  <2>13. Right(d) /\ d.job = db.job
    <3>1. JobsRight(d) /\ d.job = db.job
      BY <2>0, <2>1, <2>10, JobsKept DEF SameJobs
    <3>2. DedupesRight(d)
      BY <2>0, <2>1, <2>10, DedupesKept
    <3> QED
      BY <2>9, <2>11, <3>1, <3>2 DEF Right, FlowsRight
  <2> QED
    BY <2>1, <2>12, <2>13 DEF NoNewRows, StagedWell
<1> QED
  BY <1>1, <1>2

\* Two hashes of a job that have it in the same places.
SameLook(i, j) ==
    /\ j.queue = i.queue /\ j.name = i.name /\ j.state = i.state
    /\ j.seq = i.seq /\ j.priority = i.priority /\ j.runAt = i.runAt
    /\ j.lockExpiresAt = i.lockExpiresAt /\ j.finishedAt = i.finishedAt

LEMMA LookKept ==
    ASSUME NEW db, NEW id \in JobIds, NEW i \in JobHash, NEW j \in JobHash,
           SameLook(i, j), Where(db, id, i)
    PROVE  Where(db, id, j)
<1>1. i # None /\ j # None
  BY JobIs
<1>2. InWaiting(db.waiting, id, j)
  BY <1>1 DEF Where, SameLook, InWaiting, At
<1>3. InDelayed(db.delayed, id, j)
  BY <1>1 DEF Where, SameLook, InDelayed, At
<1>4. InActive(db.active, id, j)
  BY <1>1 DEF Where, SameLook, InActive, At
<1>5. InFinished(db.finished, id, j)
  BY <1>1 DEF Where, SameLook, InFinished, At
<1>6. InTerminal(db.terminal, id, j)
  BY <1>1 DEF Where, SameLook, InTerminal, At
<1> QED
  BY <1>2, <1>3, <1>4, <1>5, <1>6 DEF Where

(* A job whose hash changes in what no index says.                         *)
LEMMA HashChanged ==
    ASSUME NEW a, NEW b, NEW id \in JobIds, SamePlaces(a, b), SameLists(a, b),
           b.counts = a.counts, OnlyAt(a.job, b.job, id),
           a.job[id] \in JobHash, b.job[id] \in JobHash,
           SameLook(a.job[id], b.job[id])
    PROVE  /\ JobsRight(a) => JobsRight(b)
           /\ JobsLoose(a, id) => JobsLoose(b, id)
<1>1. Elsewhere(a, b, id) /\ \A x, i : Where(a, x, i) => Where(b, x, i)
  BY PlacesKept
<1>2. ASSUME Settled(a) PROVE Settled(b)
  <2>1. Where(b, id, a.job[id])
    BY <1>1, <1>2 DEF Settled
  <2>2. Where(b, id, b.job[id])
    BY <2>1, LookKept
  <2> QED
    BY <1>1, <1>2, <2>2, Arrives
<1>3. ASSUME Loose(a, id) PROVE Loose(b, id)
  <2>1. Where(b, id, None)
    BY <1>1, <1>3 DEF Loose
  <2> QED
    BY <1>1, <1>3, <2>1, Leaves
<1>4. ASSUME Listed(a) PROVE Listed(b)
  BY <1>4, ListsKept DEF SameLook
<1>5. ASSUME CountsRight(a.counts, a.job) PROVE CountsRight(b.counts, b.job)
  BY <1>5, CountKept DEF SameLook
<1> QED
  BY <1>2, <1>3, <1>4, <1>5 DEF JobsRight, JobsLoose

LEMMA PendingRowsAre ==
    ASSUME NEW db \in Keys, FlowsRight(db), NEW id \in JobIds
    PROVE  /\ PendingRows(db, id) \in SUBSET Rows
           /\ Cardinality(PendingRows(db, id)) \in Nat
           /\ \A x \in JobIds, k \in ChildKeys :
                 <<x, k>> \in PendingRows(db, id) <=>
                    /\ x = id /\ db.flowchild[<<x, k>>] # None
                    /\ db.flowchild[<<x, k>>].status = "pending"
<1> DEFINE keys == db.flowchildren[id]
<1>1. keys \in SUBSET ChildKeys
  BY KeysAre
<1>2. /\ RowKeys(id, keys) \in SUBSET Rows
      /\ \A x \in JobIds, k \in ChildKeys :
            <<x, k>> \in RowKeys(id, keys) <=> x = id /\ k \in keys
  <2> HIDE DEF keys
  <2> QED
    BY <1>1, RowKeysAre
<1>3. Cardinality(PendingRows(db, id)) \in Nat
  <2>1. IsFiniteSet(Rows)
    BY ConstantsAssumption, FS_Product DEF Rows
  <2>2. PendingRows(db, id) \in SUBSET Rows
    BY <1>2 DEF PendingRows
  <2> QED
    BY <2>1, <2>2, FS_Subset, FS_CardinalityType
<1>4. PendingRows(db, id) \in SUBSET Rows
  BY <1>2 DEF PendingRows
<1>5. ASSUME NEW x \in JobIds, NEW k \in ChildKeys
      PROVE  <<x, k>> \in PendingRows(db, id) <=>
                    /\ x = id /\ db.flowchild[<<x, k>>] # None
                    /\ db.flowchild[<<x, k>>].status = "pending"
  <2>1. RowRight(db, x, k)
    BY DEF FlowsRight
  <2>2. db.flowchild[<<x, k>>] # None <=> k \in db.flowchildren[x]
    BY <2>1 DEF RowRight
  <2> QED
    BY <1>2, <2>2 DEF PendingRows
<1> QED
  BY <1>3, <1>4, <1>5

Cancelled(r, marked, old) ==
    IF r \in marked THEN [old EXCEPT !.status = "cancelled", !.cascaded = FALSE]
    ELSE old

WithFlow(j, f) == [j EXCEPT !.flow = f]

LEMMA WithFlowIs ==
    ASSUME NEW j \in JobHash, NEW f \in Opt(Mem!FlowState)
    PROVE  /\ WithFlow(j, f) \in JobHash /\ SameLook(j, WithFlow(j, f))
           /\ WithFlow(j, f).flow = f /\ WithFlow(j, f).lockToken = j.lockToken
           /\ WithFlow(j, f).cancelRequested = j.cancelRequested
           /\ WithFlow(j, f).keep = j.keep
BY DEF WithFlow, JobHash, SameLook

(* SettleMarkRows: pending rows become cancelled ones that are owed.       *)
LEMMA SettleMarkRowsIs ==
    ASSUME NEW db \in Keys, FlowsRight(db), NEW id \in JobIds,
           NEW d, d = SettleMarkRows(db, id)
    PROVE  /\ d \in Keys /\ SamePlaces(db, d) /\ SameLists(db, d)
           /\ d.counts = db.counts /\ SameDedupes(db, d) /\ FlowsRight(d)
           /\ NoNewRows(db, d) /\ OnlyAt(db.job, d.job, id)
           /\ db.job[id] = None => d.job[id] = None
           /\ db.job[id] # None => \E f \in Opt(Mem!FlowState) :
                 /\ d.job[id] = WithFlow(db.job[id], f)
                 /\ db.job[id].flow # None => f # None
<1> DEFINE marked == PendingRows(db, id)
           c2 == [r \in DOMAIN db.flowchild |-> Cancelled(r, marked, db.flowchild[r])]
           p2 == ZRem(db.flowpending, marked)
           a2 == db.flowcascade \cup marked
           e == [db EXCEPT !.flowchild = c2, !.flowpending = p2, !.flowcascade = a2]
<1>1. /\ marked \in SUBSET Rows /\ Cardinality(marked) \in Nat
      /\ \A x \in JobIds, k \in ChildKeys :
            <<x, k>> \in marked <=> /\ x = id /\ db.flowchild[<<x, k>>] # None
                                    /\ db.flowchild[<<x, k>>].status = "pending"
  BY PendingRowsAre
<1>2. d = IF ~HasManifest(db, id) THEN e
          ELSE [e EXCEPT !.job[id].flow = CountMarked(@, Cardinality(marked))]
  BY DEF SettleMarkRows, HasManifest, Has, Cancelled
<1>3. /\ db.flowchild \in [Rows -> Opt(Mem!MemFlowChild)]
      /\ db.flowpending \in Zset(Rows, Nat)
      /\ db.flowcascade \in SUBSET Rows
  BY KeysAre
<1> HIDE DEF marked
<1>4. ASSUME NEW r \in Rows
      PROVE  /\ Cancelled(r, marked, db.flowchild[r]) \in Opt(Mem!MemFlowChild)
             /\ db.flowchild[r] = None => Cancelled(r, marked, db.flowchild[r]) = None
             /\ r \in marked => db.flowchild[r] # None
  <2>1. PICK x \in JobIds, k \in ChildKeys : r = <<x, k>>
    BY DEF Rows
  <2>2. r \in marked => db.flowchild[r] # None
    BY <1>1, <2>1
  <2>3. CASE r \in marked
    <3>1. db.flowchild[r] \in Mem!MemFlowChild
      BY <1>3, <2>2, <2>3 DEF Opt
    <3> QED
      BY <2>2, <2>3, <3>1 DEF Cancelled, Mem!MemFlowChild, Opt, Mem!TerminalStates
  <2>4. CASE r \notin marked
    BY <1>3, <2>4 DEF Cancelled
  <2> QED
    BY <2>2, <2>3, <2>4
<1>5. /\ c2 \in [Rows -> Opt(Mem!MemFlowChild)]
      /\ \A r \in Rows : c2[r] = Cancelled(r, marked, db.flowchild[r])
  BY <1>3, <1>4
<1>6. /\ p2 \in Zset(Rows, Nat)
      /\ \A r : r \in DOMAIN p2 <=> r \in DOMAIN db.flowpending /\ r \notin marked
      /\ \A r \in DOMAIN db.flowpending : r \notin marked => p2[r] = db.flowpending[r]
  BY <1>3, ZRemIs
<1>7. a2 \in SUBSET Rows /\ \A r : r \in a2 <=> r \in db.flowcascade \/ r \in marked
  BY <1>1, <1>3
<1> HIDE DEF c2, p2, a2
<1>8. e \in Keys
  BY <1>5, <1>6, <1>7 DEF Keys
<1>9. /\ e.flowchild = c2 /\ e.flowchildren = db.flowchildren
      /\ e.flowpending = p2 /\ e.flowcascade = a2
      /\ SameJobs(db, e) /\ SameDedupes(db, e)
  BY DEF Keys, SameJobs, SamePlaces, SameLists, SameDedupes
<1> HIDE DEF e
<1>10. ASSUME NEW x \in JobIds, NEW k \in ChildKeys PROVE RowRight(e, x, k)
  <2>1. RowRight(db, x, k) /\ <<x, k>> \in Rows
    BY DEF FlowsRight, Rows
  <2>2. CASE <<x, k>> \in marked
    <3>1. /\ db.flowchild[<<x, k>>] \in Mem!MemFlowChild
          /\ db.flowchild[<<x, k>>] # None
      BY <1>3, <1>4, <2>1, <2>2 DEF Opt
    <3>2. /\ e.flowchild[<<x, k>>] \in Mem!MemFlowChild
          /\ e.flowchild[<<x, k>>].status = "cancelled"
          /\ ~ e.flowchild[<<x, k>>].cascaded
      BY <1>5, <1>9, <2>1, <2>2, <3>1 DEF Cancelled, Mem!MemFlowChild, Mem!TerminalStates
    <3>3. e.flowchild[<<x, k>>] # None
      BY <3>2, NoneAssumption
    <3> QED
      BY <1>6, <1>7, <1>9, <2>1, <2>2, <3>1, <3>2, <3>3 DEF RowRight
  <2>3. CASE <<x, k>> \notin marked
    <3>1. e.flowchild[<<x, k>>] = db.flowchild[<<x, k>>]
      BY <1>5, <1>9, <2>1, <2>3 DEF Cancelled
    <3> QED
      BY <1>6, <1>7, <1>9, <2>1, <2>3, <3>1 DEF RowRight
  <2> QED
    BY <2>2, <2>3
<1>11. NoNewRows(db, e)
  BY <1>4, <1>5, <1>9 DEF NoNewRows
<1>12. CASE ~HasManifest(db, id)
  <2>1. d = e
    BY <1>2, <1>12
  <2>2. ASSUME db.job[id] # None PROVE db.job[id] = WithFlow(db.job[id], None)
    <3>1. db.job[id] \in JobHash /\ db.job[id].flow = None
      BY <1>12, <2>2, HashOf DEF HasManifest, Has
    <3> QED
      BY <3>1 DEF JobHash, WithFlow
  <2>3. db.job[id] # None => db.job[id].flow = None
    BY <1>12 DEF HasManifest, Has
  <2> QED
    BY <1>8, <1>9, <1>10, <1>11, <2>1, <2>2, <2>3
    DEF FlowsRight, SameJobs, OnlyAt, Opt
<1>13. CASE HasManifest(db, id)
  <2> DEFINE j == db.job[id]
             f == CountMarked(j.flow, Cardinality(marked))
             h2 == [db.job EXCEPT ![id] = WithFlow(j, f)]
  <2>1. j # None /\ j \in JobHash /\ j.flow # None /\ j.flow \in Mem!FlowState
    <3>1. j # None /\ j.flow # None
      BY <1>13 DEF HasManifest, Has
    <3>2. j \in JobHash
      BY <3>1, HashOf
    <3> QED
      BY <3>1, <3>2 DEF JobHash, Opt
  <2> DEFINE g == j.flow  n == g.cancelled + Cardinality(marked)
  <2>2. f \in Mem!FlowState
    <3>1. g \in Mem!FlowState
      BY <2>1
    <3>2. n \in Nat
      BY <1>1, <3>1 DEF Mem!FlowState
    <3>3. f = [g EXCEPT !.pending = 0, !.cancelled = n]
      BY <3>1 DEF Mem!FlowState, CountMarked
    <3> HIDE DEF g, n, f
    <3> QED
      BY <3>1, <3>2, <3>3 DEF Mem!FlowState
  <2>3. WithFlow(j, f) \in JobHash /\ f # None
    BY <2>1, <2>2, WithFlowIs, NoneAssumption DEF Opt
  <2>4. e.job = db.job /\ db.job \in [JobIds -> Opt(JobHash)]
    BY <1>9, KeysAre DEF SameJobs
  <2>5. d = [e EXCEPT !.job = h2]
    <3>0. d = [e EXCEPT !.job = [e.job EXCEPT ![id].flow =
                  CountMarked(@, Cardinality(marked))]]
      BY <1>2, <1>8, <1>13 DEF Keys
    <3>1. d = [e EXCEPT !.job = [db.job EXCEPT ![id].flow = f]]
      BY <2>4, <3>0
    <3> HIDE DEF f
    <3>2. [db.job EXCEPT ![id].flow = f] = h2
      BY <2>1, <2>4 DEF WithFlow, JobHash
    <3> QED
      BY <1>8, <2>4, <3>1, <3>2
  <2>6. h2 \in [JobIds -> Opt(JobHash)] /\ h2[id] = WithFlow(j, f) /\ OnlyAt(db.job, h2, id)
    BY <2>3, <2>4 DEF Opt, OnlyAt
  <2> HIDE DEF h2, f, j
  <2>7. d \in Keys
    BY <1>8, <2>5, <2>6 DEF Keys
  <2>8. /\ SamePlaces(e, d) /\ SameLists(e, d) /\ SameDedupes(e, d)
        /\ SameFlows(e, d) /\ d.counts = e.counts /\ d.job = h2
    BY <1>8, <2>5 DEF Keys, SamePlaces, SameLists, SameDedupes, SameFlows
  <2>9. /\ SamePlaces(db, d) /\ SameLists(db, d) /\ SameDedupes(db, d)
        /\ d.counts = db.counts
    BY <1>9, <2>8 DEF SameJobs, SamePlaces, SameLists, SameDedupes
  <2>10. FlowsRight(d) /\ NoNewRows(db, d)
    BY <1>10, <1>11, <2>8, FlowsKept DEF FlowsRight, NoNewRows, SameFlows
  <2> QED
    BY <2>1, <2>2, <2>3, <2>6, <2>7, <2>8, <2>9, <2>10 DEF j, Opt
<1> QED
  BY <1>12, <1>13

-----------------------------------------------------------------------------
(* Deletion                                                                *)

\* The lists without a member.
Unlisted(a, b, id, name, queue) ==
    /\ b.all = ZRem(a.all, {id})
    /\ b.byname[name] = ZRem(a.byname[name], {id})
    /\ \A n \in Names : n # name => b.byname[n] = a.byname[n]
    /\ b.byqueue[queue] = ZRem(a.byqueue[queue], {id})
    /\ \A q \in Queues : q # queue => b.byqueue[q] = a.byqueue[q]

LEMMA UnlistedIs ==
    ASSUME NEW a \in Keys, NEW b, NEW id \in JobIds, Listed(a),
           a.job[id] # None, b.job[id] = None, OnlyAt(a.job, b.job, id),
           NEW name \in Names, NEW queue \in Queues,
           a.job[id].name = name, a.job[id].queue = queue,
           Unlisted(a, b, id, name, queue)
    PROVE  /\ Listed(b) /\ b.all \in Zset(JobIds, Nat)
           /\ \A n \in Names : b.byname[n] \in Zset(JobIds, Nat)
           /\ \A q \in Queues : b.byqueue[q] \in Zset(JobIds, Nat)
<1>1. /\ a.all \in Zset(JobIds, Nat)
      /\ \A n \in Names : a.byname[n] \in Zset(JobIds, Nat)
      /\ \A q \in Queues : a.byqueue[q] \in Zset(JobIds, Nat)
  BY KeysAre
<1>2. /\ b.all \in Zset(JobIds, Nat)
      /\ \A m : m \in DOMAIN b.all <=> m \in DOMAIN a.all /\ m # id
      /\ \A m \in DOMAIN a.all : m # id => b.all[m] = a.all[m]
  <2> DEFINE z == a.all
  <2>1. z \in Zset(JobIds, Nat) /\ b.all = ZRem(z, {id})
    BY <1>1 DEF Unlisted
  <2> HIDE DEF z
  <2>2. /\ ZRem(z, {id}) \in Zset(JobIds, Nat)
        /\ \A n : n \in DOMAIN ZRem(z, {id}) <=> n \in DOMAIN z /\ n # id
        /\ \A n \in DOMAIN z : n # id => ZRem(z, {id})[n] = z[n]
    BY <2>1, ZRem1Is
  <2> QED
    BY <2>1, <2>2 DEF z
<1>3. /\ b.byname[name] \in Zset(JobIds, Nat)
      /\ \A m : m \in DOMAIN b.byname[name] <=> m \in DOMAIN a.byname[name] /\ m # id
      /\ \A m \in DOMAIN a.byname[name] :
            m # id => b.byname[name][m] = a.byname[name][m]
  <2> DEFINE z == a.byname[name]
  <2>1. z \in Zset(JobIds, Nat) /\ b.byname[name] = ZRem(z, {id})
    BY <1>1 DEF Unlisted
  <2> HIDE DEF z
  <2>2. /\ ZRem(z, {id}) \in Zset(JobIds, Nat)
        /\ \A n : n \in DOMAIN ZRem(z, {id}) <=> n \in DOMAIN z /\ n # id
        /\ \A n \in DOMAIN z : n # id => ZRem(z, {id})[n] = z[n]
    BY <2>1, ZRem1Is
  <2> QED
    BY <2>1, <2>2 DEF z
<1>4. /\ b.byqueue[queue] \in Zset(JobIds, Nat)
      /\ \A m : m \in DOMAIN b.byqueue[queue] <=> m \in DOMAIN a.byqueue[queue] /\ m # id
      /\ \A m \in DOMAIN a.byqueue[queue] :
            m # id => b.byqueue[queue][m] = a.byqueue[queue][m]
  <2> DEFINE z == a.byqueue[queue]
  <2>1. z \in Zset(JobIds, Nat) /\ b.byqueue[queue] = ZRem(z, {id})
    BY <1>1 DEF Unlisted
  <2> HIDE DEF z
  <2>2. /\ ZRem(z, {id}) \in Zset(JobIds, Nat)
        /\ \A n : n \in DOMAIN ZRem(z, {id}) <=> n \in DOMAIN z /\ n # id
        /\ \A n \in DOMAIN z : n # id => ZRem(z, {id})[n] = z[n]
    BY <2>1, ZRem1Is
  <2> QED
    BY <2>1, <2>2 DEF z
<1>5. ASSUME NEW x \in JobIds PROVE ListedAs(b, x, b.job[x])
  <2>1. ListedAs(a, x, a.job[x])
    BY DEF Listed
  <2>2. CASE x = id
    <3>1. x \notin DOMAIN b.all
      BY <1>2, <2>2
    <3>2. ASSUME NEW n \in Names PROVE x \notin DOMAIN b.byname[n]
      BY <1>3, <2>1, <2>2 DEF ListedAs, Unlisted
    <3>3. ASSUME NEW q \in Queues PROVE x \notin DOMAIN b.byqueue[q]
      BY <1>4, <2>1, <2>2 DEF ListedAs, Unlisted
    <3> QED
      BY <2>2, <3>1, <3>2, <3>3 DEF ListedAs
  <2>3. CASE x # id
    <3>1. b.job[x] = a.job[x]
      BY <2>3 DEF OnlyAt
    <3>2. /\ x \in DOMAIN b.all <=> x \in DOMAIN a.all
          /\ x \in DOMAIN a.all => b.all[x] = a.all[x]
      BY <1>2, <2>3
    <3>3. ASSUME NEW n \in Names
          PROVE  /\ x \in DOMAIN b.byname[n] <=> x \in DOMAIN a.byname[n]
                 /\ x \in DOMAIN a.byname[n] => b.byname[n][x] = a.byname[n][x]
      BY <1>3, <2>3 DEF Unlisted
    <3>4. ASSUME NEW q \in Queues
          PROVE  /\ x \in DOMAIN b.byqueue[q] <=> x \in DOMAIN a.byqueue[q]
                 /\ x \in DOMAIN a.byqueue[q] => b.byqueue[q][x] = a.byqueue[q][x]
      BY <1>4, <2>3 DEF Unlisted
    <3> QED
      BY <2>1, <3>1, <3>2, <3>3, <3>4 DEF ListedAs
  <2> QED
    BY <2>2, <2>3
<1> QED
  BY <1>1, <1>2, <1>3, <1>4, <1>5 DEF Listed, Unlisted

(* DeleteJob: no zset, list, counter or row remembers the job.             *)
LEMMA DeleteJobIs ==
    ASSUME NEW db, Right(db), NEW id \in JobIds, db.job[id] # None,
           NEW d, d = DeleteJob(id, db)
    PROVE  /\ Right(d) /\ OnlyAt(db.job, d.job, id) /\ d.job[id] = None
           /\ NoNewRows(db, d) /\ SameDedupes(db, d)
           /\ d.seq = db.seq /\ d.paused = db.paused
<1>0. db \in Keys /\ JobsRight(db) /\ FlowsRight(db) /\ DedupesRight(db)
  BY DEF Right
<1> DEFINE j == db.job[id]
           keys == db.flowchildren[id]
           w2 == [db.waiting EXCEPT ![j.queue] = ZRem(@, {<<j.seq, id>>})]
           e == [db EXCEPT !.waiting = w2]
           f == DropRows(e, id, keys)
<1>1. j \in JobHash /\ j.queue \in Queues /\ j.name \in Names /\ j.state \in JobStates
  BY <1>0, HashOf, JobIs
<1>2. /\ db.waiting \in WaitingZsets /\ db.delayed \in DelayedZsets
      /\ db.active \in ActiveZset /\ db.finished \in FinishedZsets
      /\ db.terminal \in TerminalZsets
      /\ keys \in SUBSET ChildKeys
  BY <1>0, KeysAre
<1>3. /\ w2[j.queue] = ZRem(db.waiting[j.queue], {<<j.seq, id>>})
      /\ \A q \in Queues : q # j.queue => w2[q] = db.waiting[q]
      /\ w2 = [q \in Queues |-> w2[q]]
  BY <1>1, <1>2 DEF WaitingZsets
<1> DEFINE Gone(z) == ZRem(z, {id})
           h2 == [f.job EXCEPT ![id] = None]
           c2 == [f.counts EXCEPT ![<<j.queue, j.state>>] = @ - 1]
           al2 == Gone(f.all)
           bn2 == [f.byname EXCEPT ![j.name] = Gone(@)]
           bq2 == [f.byqueue EXCEPT ![j.queue] = Gone(@)]
           f2 == [s \in TerminalStates |-> IF s = j.state THEN Gone(f.finished[s])
                                           ELSE f.finished[s]]
           t2 == [g \in DOMAIN f.terminal |->
                     IF g = <<j.name, j.state>> THEN Gone(f.terminal[g])
                     ELSE f.terminal[g]]
           a2 == Gone(f.active)
           d2 == [f.delayed EXCEPT ![j.queue] = Gone(@)]
<1>4. d = [f EXCEPT !.job = h2, !.counts = c2, !.all = al2, !.byname = bn2,
                    !.byqueue = bq2, !.finished = f2, !.terminal = t2,
                    !.active = a2, !.delayed = d2]
  <2>1. e = RemWaiting(db, id)
    BY DEF RemWaiting, WaitingMember
  <2>2. f = DropRows(RemWaiting(db, id), id, db.flowchildren[id])
    BY <2>1
  <2> HIDE DEF e, w2, f
  <2>3. d = [f EXCEPT
               !.job[id] = None, !.counts[<<j.queue, j.state>>] = @ - 1,
               !.all = Gone(@), !.byname[j.name] = Gone(@),
               !.byqueue[j.queue] = Gone(@),
               !.finished = [s \in TerminalStates |->
                                IF s = j.state THEN Gone(@[s]) ELSE @[s]],
               !.terminal = [g \in DOMAIN @ |->
                                IF g = <<j.name, j.state>> THEN Gone(@[g])
                                ELSE @[g]],
               !.active = Gone(@), !.delayed[j.queue] = Gone(@)]
    BY <2>2 DEF DeleteJob
  <2> HIDE DEF j
  <2> QED
    BY <2>3
<1> HIDE DEF w2, keys, j
<1>5. /\ \A q \in Queues : w2[q] \in Zset(Nat \X JobIds, Int)
      /\ \A x \in JobIds : \A i : x # id /\ InWaiting(db.waiting, x, i) => InWaiting(w2, x, i)
      /\ InWaiting(db.waiting, id, j) => InWaiting(w2, id, None)
  <2> DEFINE W == db.waiting
  <2>1. /\ W \in WaitingZsets
        /\ w2[j.queue] = ZRem(W[j.queue], {<<j.seq, id>>})
        /\ \A q \in Queues : q # j.queue => w2[q] = W[q]
    BY <1>2, <1>3
  <2> HIDE DEF W
  <2>2. /\ \A q \in Queues : w2[q] \in Zset(Nat \X JobIds, Int)
        /\ \A x \in JobIds : \A i : x # id /\ InWaiting(W, x, i) => InWaiting(w2, x, i)
        /\ InWaiting(W, id, j) => InWaiting(w2, id, None)
    BY <1>1, <2>1, WaitingRem
  <2> QED
    BY <2>2 DEF W
<1>6. /\ e \in Keys /\ FlowsRight(e) /\ e.waiting = w2 /\ e.job = db.job
      /\ e.delayed = db.delayed /\ e.active = db.active
      /\ e.finished = db.finished /\ e.terminal = db.terminal
      /\ e.counts = db.counts /\ SameLists(db, e) /\ SameDedupes(db, e)
      /\ SameFlows(db, e)
  <2>1. w2 \in [Queues -> Zset(Nat \X JobIds, Int)]
    BY <1>3, <1>5
  <2>2. e \in Keys
    BY <1>0, <2>1 DEF Keys
  <2>3. SameFlows(db, e)
    BY <1>0 DEF SameFlows, Keys
  <2> QED
    BY <1>0, <2>2, <2>3, FlowsKept DEF Keys, SameLists, SameDedupes
<1> DEFINE seqs == e.seq = db.seq /\ e.paused = db.paused
<1>7. seqs
  BY <1>0 DEF Keys
<1> HIDE DEF e
<1>8. /\ f \in Keys /\ SameJobs(e, f) /\ SameDedupes(e, f) /\ FlowsRight(f)
      /\ NoNewRows(e, f) /\ f.seq = e.seq /\ f.paused = e.paused
  <2>1. f.seq = e.seq /\ f.paused = e.paused
    BY <1>6 DEF DropRows, Keys
  <2> HIDE DEF f
  <2> QED
    BY <1>2, <1>6, <2>1, DropRowsIs DEF f
<1>9. /\ f.job = db.job /\ f.waiting = w2 /\ f.delayed = db.delayed
      /\ f.active = db.active /\ f.finished = db.finished /\ f.terminal = db.terminal
      /\ f.counts = db.counts /\ SameLists(db, f) /\ SameDedupes(db, f)
      /\ NoNewRows(db, f)
  BY <1>6, <1>8
  DEF SameJobs, SamePlaces, SameLists, SameDedupes, SameFlows, NoNewRows
<1> HIDE DEF f
<1>10. /\ h2 \in [JobIds -> Opt(JobHash)] /\ h2[id] = None /\ OnlyAt(db.job, h2, id)
  BY <1>0, <1>9, KeysAre DEF Opt, OnlyAt
<1>11. /\ c2 \in [Counters -> Int]
       /\ c2[<<j.queue, j.state>>] = f.counts[<<j.queue, j.state>>] - 1
       /\ \A q \in Queues, s \in JobStates :
             q # j.queue \/ s # j.state => c2[<<q, s>>] = f.counts[<<q, s>>]
  <2> DEFINE c == f.counts  p == <<j.queue, j.state>>
  <2>1. c \in [Counters -> Int] /\ p \in Counters
    BY <1>1, <1>8, KeysAre DEF Counters
  <2>2. c2 = [c EXCEPT ![p] = @ - 1]
    OBVIOUS
  <2> HIDE DEF c2
  <2>3. c2 \in [Counters -> Int] /\ c2[p] = c[p] - 1
    BY <2>1, <2>2
  <2>4. ASSUME NEW q \in Queues, NEW s \in JobStates, q # j.queue \/ s # j.state
        PROVE  c2[<<q, s>>] = c[<<q, s>>]
    <3>1. <<q, s>> \in Counters /\ <<q, s>> # p
      BY <2>4 DEF Counters
    <3> QED
      BY <2>1, <2>2, <3>1
  <2> QED
    BY <2>3, <2>4
<1>12. /\ \A q \in Queues : d2[q] \in Zset(JobIds, Nat)
       /\ d2 = [q \in Queues |-> d2[q]]
       /\ \A x \in JobIds : \A i : x # id /\ InDelayed(db.delayed, x, i) => InDelayed(d2, x, i)
       /\ InDelayed(db.delayed, id, j) => InDelayed(d2, id, None)
  <2>1. /\ d2[j.queue] = ZRem(db.delayed[j.queue], {id})
        /\ \A q \in Queues : q # j.queue => d2[q] = db.delayed[q]
        /\ d2 = [q \in Queues |-> d2[q]]
    BY <1>1, <1>2, <1>9 DEF DelayedZsets
  <2> HIDE DEF d2
  <2> DEFINE D == db.delayed
  <2>2. /\ D \in DelayedZsets /\ d2[j.queue] = ZRem(D[j.queue], {id})
        /\ \A q \in Queues : q # j.queue => d2[q] = D[q]
    BY <1>2, <2>1
  <2> HIDE DEF D
  <2>3. /\ \A q \in Queues : d2[q] \in Zset(JobIds, Nat)
        /\ \A x \in JobIds : \A i : x # id /\ InDelayed(D, x, i) => InDelayed(d2, x, i)
        /\ InDelayed(D, id, j) => InDelayed(d2, id, None)
    BY <1>1, <2>2, DelayedRem
  <2> QED
    BY <2>1, <2>3 DEF D
<1>13. /\ a2 \in ActiveZset
       /\ \A x \in JobIds : \A i : x # id /\ InActive(db.active, x, i) => InActive(a2, x, i)
       /\ InActive(a2, id, None)
  BY <1>2, <1>9, ActiveRem
<1>14. /\ \A s \in TerminalStates : f2[s] \in Zset(JobIds, Nat)
       /\ f2 = [s \in TerminalStates |-> f2[s]]
       /\ \A x \in JobIds : \A i : x # id /\ InFinished(db.finished, x, i) => InFinished(f2, x, i)
       /\ InFinished(db.finished, id, j) => InFinished(f2, id, None)
  <2>1. /\ j.state \in TerminalStates =>
               f2[j.state] = ZRem(db.finished[j.state], {id})
        /\ \A s \in TerminalStates : s # j.state => f2[s] = db.finished[s]
        /\ f2 = [s \in TerminalStates |-> f2[s]]
    BY <1>9
  <2> HIDE DEF f2
  <2> QED
    BY <1>1, <1>2, <2>1, FinishedRem
<1>15. /\ \A n \in Names, s \in TerminalStates : t2[<<n, s>>] \in Zset(JobIds, Nat)
       /\ t2 = [g \in Groups |-> t2[g]]
       /\ \A x \in JobIds : \A i : x # id /\ InTerminal(db.terminal, x, i) => InTerminal(t2, x, i)
       /\ InTerminal(db.terminal, id, j) => InTerminal(t2, id, None)
  <2>1. /\ DOMAIN f.terminal = Groups /\ t2 = [g \in Groups |-> t2[g]]
    BY <1>2, <1>9 DEF TerminalZsets
  <2>2. ASSUME NEW n \in Names, NEW s \in TerminalStates
        PROVE  t2[<<n, s>>] = IF n = j.name /\ s = j.state
                              THEN ZRem(db.terminal[<<n, s>>], {id})
                              ELSE db.terminal[<<n, s>>]
    <3>1. <<n, s>> \in Groups
      BY DEF Groups
    <3> QED
      BY <1>9, <2>1, <3>1
  <2> HIDE DEF t2
  <2>3. /\ j.state \in TerminalStates =>
               t2[<<j.name, j.state>>] = ZRem(db.terminal[<<j.name, j.state>>], {id})
        /\ \A n \in Names, s \in TerminalStates :
               n # j.name \/ s # j.state => t2[<<n, s>>] = db.terminal[<<n, s>>]
    BY <1>1, <2>2
  <2> DEFINE T == db.terminal
  <2>4. /\ T \in TerminalZsets
        /\ j.state \in TerminalStates =>
               t2[<<j.name, j.state>>] = ZRem(T[<<j.name, j.state>>], {id})
        /\ \A n \in Names, s \in TerminalStates :
               n # j.name \/ s # j.state => t2[<<n, s>>] = T[<<n, s>>]
    BY <1>2, <2>3
  <2> HIDE DEF T
  <2>5. /\ \A n \in Names, s \in TerminalStates : t2[<<n, s>>] \in Zset(JobIds, Nat)
        /\ \A x \in JobIds : \A i : x # id /\ InTerminal(T, x, i) => InTerminal(t2, x, i)
        /\ InTerminal(T, id, j) => InTerminal(t2, id, None)
    BY <1>1, <2>4, TerminalRem
  <2> QED
    BY <2>1, <2>5 DEF T
<1>16. /\ bn2 = [n \in Names |-> bn2[n]] /\ bq2 = [q \in Queues |-> bq2[q]]
       /\ al2 = ZRem(db.all, {id})
       /\ bn2[j.name] = ZRem(db.byname[j.name], {id})
       /\ \A n \in Names : n # j.name => bn2[n] = db.byname[n]
       /\ bq2[j.queue] = ZRem(db.byqueue[j.queue], {id})
       /\ \A q \in Queues : q # j.queue => bq2[q] = db.byqueue[q]
  BY <1>0, <1>1, <1>9, KeysAre DEF SameLists
<1> HIDE DEF h2, c2, al2, bn2, bq2, f2, t2, a2, d2
<1>17. /\ d.job = h2 /\ d.counts = c2 /\ d.all = al2 /\ d.byname = bn2
       /\ d.byqueue = bq2 /\ d.finished = f2 /\ d.terminal = t2 /\ d.active = a2
       /\ d.delayed = d2 /\ d.waiting = f.waiting
       /\ SameFlows(f, d) /\ SameDedupes(f, d) /\ d.seq = f.seq /\ d.paused = f.paused
  BY <1>4, <1>8 DEF Keys, SameFlows, SameDedupes
<1>18. Unlisted(db, d, id, j.name, j.queue)
  BY <1>16, <1>17 DEF Unlisted
<1>19. /\ Listed(d) /\ d.all \in Zset(JobIds, Nat)
       /\ \A n \in Names : d.byname[n] \in Zset(JobIds, Nat)
       /\ \A q \in Queues : d.byqueue[q] \in Zset(JobIds, Nat)
  BY <1>0, <1>1, <1>10, <1>17, <1>18, UnlistedIs DEF JobsRight, j
<1>20. d \in Keys
  <2>1. /\ bn2 \in [Names -> Zset(JobIds, Nat)] /\ bq2 \in [Queues -> Zset(JobIds, Nat)]
        /\ al2 \in Zset(JobIds, Nat)
    BY <1>16, <1>17, <1>19
  <2>2. d2 \in [Queues -> Zset(JobIds, Nat)] /\ a2 \in Zset(JobIds, Nat)
    BY <1>12, <1>13 DEF ActiveZset
  <2>3. f2 \in [TerminalStates -> Zset(JobIds, Nat)]
    BY <1>14
  <2>4. t2 \in [Groups -> Zset(JobIds, Nat)]
    <3>1. \A g \in Groups : t2[g] \in Zset(JobIds, Nat)
      BY <1>15 DEF Groups
    <3> QED
      BY <1>15, <3>1
  <2> DEFINE g == [f EXCEPT !.job = h2, !.counts = c2, !.all = al2,
                            !.byname = bn2, !.byqueue = bq2]
  <2>5. g \in Keys
    BY <1>8, <1>10, <1>11, <2>1 DEF Keys
  <2> DEFINE g1 == [g EXCEPT !.finished = f2, !.terminal = t2]
  <2>6. d = [g1 EXCEPT !.active = a2, !.delayed = d2]
    BY <1>4, <1>8 DEF Keys
  <2> HIDE DEF g
  <2>7. g1 \in Keys
    BY <2>3, <2>4, <2>5 DEF Keys
  <2> HIDE DEF g1
  <2> QED
    BY <2>2, <2>6, <2>7 DEF Keys
<1>21. Settled(d)
  <2>1. Where(db, id, j)
    BY <1>0 DEF JobsRight, Settled, j
  <2>2. Where(d, id, None)
    BY <1>5, <1>9, <1>12, <1>13, <1>14, <1>15, <1>17, <2>1 DEF Where
  <2>3. Elsewhere(db, d, id)
    BY <1>5, <1>9, <1>12, <1>13, <1>14, <1>15, <1>17 DEF Where, Elsewhere
  <2>4. Settled(db)
    BY <1>0 DEF JobsRight
  <2>5. OnlyAt(db.job, d.job, id) /\ d.job[id] = None
    BY <1>10, <1>17
  <2> QED
    BY <2>2, <2>3, <2>4, <2>5, Arrives
<1>22. CountsRight(d.counts, d.job)
  <2>1. CountsRight(db.counts, db.job) /\ db.counts \in [Counters -> Int]
    BY <1>0, KeysAre DEF JobsRight
  <2>2. db.job[id] = j
    BY DEF j
  <2> QED
    BY <1>1, <1>9, <1>10, <1>11, <1>17, <2>1, <2>2, CountRemoved
<1>23. DedupesRight(d) /\ SameDedupes(db, d)
  <2>1. SameDedupes(db, d)
    BY <1>9, <1>17 DEF SameDedupes
  <2> QED
    BY <1>0, <2>1, DedupesKept
<1>24. FlowsRight(d) /\ NoNewRows(db, d)
  BY <1>8, <1>9, <1>17, FlowsKept DEF NoNewRows, SameFlows
<1> QED
  BY <1>7, <1>8, <1>10, <1>17, <1>19, <1>20, <1>21, <1>22, <1>23, <1>24
  DEF Right, JobsRight

(* DeleteJobs: one after the other, each with all that refers to it.       *)
Deleted(a, b, ids) ==
    /\ Right(b) /\ NoNewRows(a, b) /\ SameDedupes(a, b)
    /\ b.seq = a.seq /\ b.paused = a.paused
    /\ \A x \in JobIds : b.job[x] = IF x \in ids THEN None ELSE a.job[x]

LEMMA DeletedOne ==
    ASSUME NEW db, NEW ids, NEW e, Deleted(db, e, ids),
           NEW id \in JobIds, id \notin ids, db.job[id] # None
    PROVE  Deleted(db, DeleteJob(id, e), ids \cup {id})
<1> DEFINE d == DeleteJob(id, e)
<1>1. Right(e) /\ e.job[id] # None
  BY DEF Deleted
<1>2. /\ Right(d) /\ OnlyAt(e.job, d.job, id) /\ d.job[id] = None
      /\ NoNewRows(e, d) /\ SameDedupes(e, d)
      /\ d.seq = e.seq /\ d.paused = e.paused
  BY <1>1, DeleteJobIs
<1> HIDE DEF d
<1>3. NoNewRows(db, d) /\ SameDedupes(db, d)
  BY <1>2 DEF Deleted, NoNewRows, SameDedupes
<1>4. ASSUME NEW x \in JobIds
      PROVE  d.job[x] = IF x \in ids \cup {id} THEN None ELSE db.job[x]
  BY <1>2 DEF Deleted, OnlyAt
<1> QED
  BY <1>2, <1>3, <1>4 DEF Deleted, d

LEMMA DeleteJobsIs ==
    ASSUME NEW db, Right(db), NEW ids \in SUBSET JobIds,
           \A x \in ids : db.job[x] # None, NEW d, d = DeleteJobs(db, ids)
    PROVE  Deleted(db, d, ids)
<1> DEFINE F == [s \in SUBSET ids |-> {e \in Keys : Deleted(db, e, s)}]
           Op == [p \in ids \X Keys |-> DeleteJob(p[1], p[2])]
           C == CHOOSE it : it = [s \in SUBSET ids |->
                    IF s = {} THEN db
                    ELSE DeleteJob(CHOOSE x \in s : TRUE,
                                   it[s \ {CHOOSE x \in s : TRUE}])]
<1>1. d = C[ids]
  BY DEF DeleteJobs, FoldSet, MapThenFoldSet
<1>2. IsFiniteSet(ids) /\ F \in [SUBSET ids -> SUBSET Keys]
  BY ConstantsAssumption, FS_Subset
<1>3. db \in F[{}]
  <2>1. db \in Keys /\ Deleted(db, db, {})
    BY DEF Right, Deleted, NoNewRows, SameDedupes
  <2> QED
    BY <2>1
<1>4. ASSUME NEW s \in SUBSET ids, NEW x \in ids \ s, NEW e \in F[s]
      PROVE  Op[<<x, e>>] \in F[s \cup {x}]
  <2>1. e \in Keys /\ Deleted(db, e, s) /\ x \in JobIds /\ x \notin s
    OBVIOUS
  <2>2. Deleted(db, DeleteJob(x, e), s \cup {x})
    BY <2>1, DeletedOne
  <2>3. DeleteJob(x, e) \in Keys
    BY <2>2 DEF Deleted, Right
  <2>4. Op[<<x, e>>] = DeleteJob(x, e) /\ s \cup {x} \in SUBSET ids
    BY <2>1
  <2> QED
    BY <2>2, <2>3, <2>4
<1>5. PICK it \in [SUBSET ids -> Keys] :
         FoldOf(it, ids, db, Op) /\ \A s \in SUBSET ids : it[s] \in F[s]
  <2> HIDE DEF F, Op
  <2> QED
    BY <1>2, <1>3, <1>4, FoldWithin
<1>6. ASSUME NEW s \in SUBSET ids, s # {}
      PROVE  /\ it[s] = DeleteJob(First(s), it[s \ {First(s)}])
             /\ s \ {First(s)} \in SUBSET ids
  <2>1. First(s) \in ids /\ s \ {First(s)} \in SUBSET ids
    BY <1>6, FirstIn
  <2>2. it[s] = Op[<<First(s), it[s \ {First(s)}]>>]
    BY <1>5, <1>6 DEF FoldOf
  <2> QED
    BY <2>1, <2>2
<1>7. it = [s \in SUBSET ids |->
               IF s = {} THEN db
               ELSE DeleteJob(CHOOSE x \in s : TRUE,
                              it[s \ {CHOOSE x \in s : TRUE}])]
  <2>1. it[{}] = db
    BY <1>5 DEF FoldOf
  <2> HIDE DEF F, Op
  <2> QED
    BY <1>5, <1>6, <2>1 DEF First
<1>8. C = [s \in SUBSET ids |->
               IF s = {} THEN db
               ELSE DeleteJob(CHOOSE x \in s : TRUE,
                              C[s \ {CHOOSE x \in s : TRUE}])]
  BY <1>7
<1> HIDE DEF C
<1> DEFINE T == {s \in SUBSET ids : C[s] = it[s]}
<1>9. {} \in T
  BY <1>7, <1>8
<1>10. ASSUME NEW s \in SUBSET ids, s # {}, s \ {First(s)} \in T PROVE s \in T
  <2>1. C[s] = DeleteJob(First(s), C[s \ {First(s)}])
    BY <1>8, <1>10 DEF First
  <2> QED
    BY <1>6, <1>10, <2>1
<1>11. ids \in T
  <2> HIDE DEF T
  <2> QED
    BY <1>2, <1>9, <1>10, FoldInduction
<1> QED
  BY <1>1, <1>5, <1>11

(* The members of the history zsets are jobs of the store.                 *)
LEMMA HistoryIs ==
    ASSUME NEW db, Right(db), NEW s \in TerminalStates
    PROVE  /\ \A x \in DOMAIN db.finished[s] : x \in JobIds /\ At(db.job[x], s)
           /\ \A n \in Names : \A x \in DOMAIN db.terminal[<<n, s>>] :
                 x \in JobIds /\ At(db.job[x], s)
<1>0. db \in Keys
  BY DEF Right
<1>1. db.finished[s] \in Zset(JobIds, Nat)
  BY <1>0, KeysAre DEF FinishedZsets
<1>2. \A x \in DOMAIN db.finished[s] : x \in JobIds
  BY <1>1 DEF Zset
<1>3. ASSUME NEW n \in Names, NEW x \in DOMAIN db.terminal[<<n, s>>]
      PROVE  x \in JobIds
  <2>1. db.terminal \in [Groups -> Zset(JobIds, Nat)] /\ <<n, s>> \in Groups
    BY <1>0, KeysAre DEF TerminalZsets, Groups
  <2>2. db.terminal[<<n, s>>] \in Zset(JobIds, Nat)
    BY <2>1
  <2> QED
    BY <2>2 DEF Zset
<1>4. \A x \in JobIds : Where(db, x, db.job[x])
  BY DEF Right, JobsRight, Settled
<1> QED
  BY <1>2, <1>3, <1>4 DEF Where, InFinished, InTerminal

\* Some jobs went, with all that refers to them.
Thinned(a, b) ==
    /\ Right(b) /\ NoNewRows(a, b) /\ SameDedupes(a, b)
    /\ b.seq = a.seq /\ b.paused = a.paused
    /\ \A x \in JobIds : \/ b.job[x] = a.job[x]
                         \/ b.job[x] = None /\ a.job[x].state \in TerminalStates

LEMMA DeletedThins ==
    ASSUME NEW a, NEW b, NEW ids, Deleted(a, b, ids),
           \A x \in ids : a.job[x].state \in TerminalStates
    PROVE  Thinned(a, b)
BY DEF Deleted, Thinned

LEMMA ThinnedTwice ==
    ASSUME NEW a, NEW b, NEW c, Thinned(a, b), Thinned(b, c) PROVE Thinned(a, c)
BY DEF Thinned, NoNewRows, SameDedupes

LEMMA NotThinned == ASSUME NEW db, Right(db) PROVE Thinned(db, db)
BY DEF Thinned, NoNewRows, SameDedupes

(* ApplyKeep: what it deletes are jobs of the group.                       *)
LEMMA ApplyKeepIs ==
    ASSUME NEW db, Right(db), NEW id \in JobIds, db.job[id] # None,
           db.job[id].state \in TerminalStates, NEW t,
           NEW d, d = ApplyKeep(db, id, t)
    PROVE  Thinned(db, d)
<1> DEFINE j == db.job[id]
           group == <<j.name, j.state>>
           policy == IF j.keep = None THEN None ELSE j.keep[j.state]
           Spared(db0, ids) == {p \in ids : ~OwesCascades(db0, p)}
           old == Spared(db, ZRangeByScore(db.terminal[group], t - policy.ageMs))
           db1 == IF policy = None \/ policy.ageMs = None THEN db
                  ELSE DeleteJobs(db, old)
           many == Spared(db1, BeyondCount(db1, db1.terminal[group], policy.count))
<1>1. d = IF policy = None \/ policy.count = None THEN db1
          ELSE DeleteJobs(db1, many)
  BY DEF ApplyKeep
<1>2. j.name \in Names /\ j.state \in TerminalStates
  BY HashOf, JobIs DEF Right
<1> HIDE DEF policy
<1>3. Thinned(db, db1)
  <2>1. /\ old \in SUBSET JobIds
        /\ \A x \in old : db.job[x] # None /\ db.job[x].state \in TerminalStates
    <3>1. \A x \in old : x \in DOMAIN db.terminal[group]
      BY DEF ZRangeByScore, Members
    <3>2. \A x \in DOMAIN db.terminal[group] : x \in JobIds /\ At(db.job[x], j.state)
      BY <1>2, HistoryIs
    <3> QED
      BY <1>2, <3>1, <3>2 DEF At
  <2> HIDE DEF old
  <2>2. Thinned(db, DeleteJobs(db, old))
    BY <2>1, DeleteJobsIs, DeletedThins
  <2> QED
    BY <2>2, NotThinned
<1> HIDE DEF db1
<1>4. Thinned(db1, DeleteJobs(db1, many))
  <2>0. Right(db1)
    BY <1>3 DEF Thinned
  <2>1. /\ many \in SUBSET JobIds
        /\ \A x \in many : db1.job[x] # None /\ db1.job[x].state \in TerminalStates
    <3>1. \A x \in many : x \in DOMAIN db1.terminal[group]
      BY DEF BeyondCount, Members
    <3>2. \A x \in DOMAIN db1.terminal[group] :
             x \in JobIds /\ At(db1.job[x], j.state)
      BY <1>2, <2>0, HistoryIs
    <3> QED
      BY <1>2, <3>1, <3>2 DEF At
  <2> HIDE DEF many
  <2> QED
    BY <2>0, <2>1, DeleteJobsIs, DeletedThins
<1> HIDE DEF many
<1> QED
  BY <1>1, <1>3, <1>4, ThinnedTwice

\* Whoever is active holds the same lock as before and kept its manifest,
\* and no flow has new rows.
Calm(a, b) ==
    /\ NoNewRows(a, b)
    /\ \A x \in JobIds : At(b.job[x], "active") =>
          /\ At(a.job[x], "active") /\ b.job[x].lockToken = a.job[x].lockToken
          /\ a.job[x].flow # None => b.job[x].flow # None

LEMMA CalmTwice ==
    ASSUME NEW a, NEW b, NEW c, Calm(a, b), Calm(b, c) PROVE Calm(a, c)
BY DEF Calm, NoNewRows

LEMMA ThinnedCalms == ASSUME NEW a, NEW b, Thinned(a, b) PROVE Calm(a, b)
BY DEF Thinned, Calm, At

LEMMA DeletedCalms ==
    ASSUME NEW a, NEW b, NEW ids, Deleted(a, b, ids) PROVE Calm(a, b)
BY DEF Deleted, Calm, At

(* A step of one job that is not active afterwards.                        *)
LEMMA OneCalms ==
    ASSUME NEW a, NEW b, NEW id \in JobIds, NoNewRows(a, b),
           OnlyAt(a.job, b.job, id), ~ At(b.job[id], "active")
    PROVE  Calm(a, b)
BY DEF Calm, OnlyAt, At

LEMMA SameFlowsNoNewRows ==
    ASSUME NEW a, NEW b, SameFlows(a, b) PROVE NoNewRows(a, b)
BY DEF SameFlows, NoNewRows

(* FinishAndKeep, of a job off its place.                                  *)
LEMMA FinishAndKeepIs ==
    ASSUME NEW db, NEW id \in JobIds, NEW j \in JobHash, RightBut(db, id),
           db.job[id] # None, j.queue = db.job[id].queue, j.name = db.job[id].name,
           NEW state \in TerminalStates, NEW t \in Nat,
           NEW d, d = FinishAndKeep(db, id, j, state, t)
    PROVE  /\ Right(d) /\ Calm(db, d) /\ d.seq = db.seq /\ d.paused = db.paused
           /\ d.job[id] = None \/ d.job[id].state = state
           /\ \A x \in JobIds : x # id /\ At(db.job[x], "active") =>
                                  d.job[x] = db.job[x]
<1> DEFINE e == FinishJob(db, id, j, state, t)
<1>1. /\ Right(e) /\ OnlyAt(db.job, e.job, id) /\ e.job[id] = Ended(j, state, t)
      /\ SameFlows(db, e) /\ e.seq = db.seq /\ e.paused = db.paused
  BY FinishJobIs
<1>2. d = ApplyKeep(e, id, t)
  BY DEF FinishAndKeep
<1> HIDE DEF e
<1>3. e.job[id] # None /\ e.job[id].state = state
  BY <1>1, EndedIs, JobIs
<1>4. Thinned(e, d)
  BY <1>1, <1>2, <1>3, ApplyKeepIs
<1>5. Calm(db, e)
  <2>1. ~ At(e.job[id], "active")
    BY <1>3 DEF At, TerminalStates
  <2> QED
    BY <1>1, <2>1, OneCalms, SameFlowsNoNewRows
<1>6. /\ Right(d) /\ d.seq = e.seq /\ d.paused = e.paused
      /\ d.job[id] = None \/ d.job[id] = e.job[id]
      /\ \A x \in JobIds : At(e.job[x], "active") => d.job[x] = e.job[x]
  BY <1>4 DEF Thinned, At, TerminalStates
<1>7. Calm(db, d)
  BY <1>4, <1>5, ThinnedCalms, CalmTwice
<1>8. ASSUME NEW x \in JobIds, x # id, At(db.job[x], "active")
      PROVE  d.job[x] = db.job[x]
  <2>1. e.job[x] = db.job[x]
    BY <1>1, <1>8 DEF OnlyAt
  <2> QED
    BY <1>6, <1>8, <2>1
<1>9. d.job[id] = None \/ d.job[id].state = state
  BY <1>3, <1>6
<1>10. Right(d) /\ d.seq = db.seq /\ d.paused = db.paused
  <2>1. e.seq = db.seq /\ e.paused = db.paused
    BY <1>1
  <2>2. Right(d) /\ d.seq = e.seq /\ d.paused = e.paused
    BY <1>4 DEF Thinned
  <2> QED
    BY <2>1, <2>2
<1> QED
  BY <1>7, <1>8, <1>9, <1>10

LEMMA FinishCancelledIs ==
    ASSUME NEW db, NEW id \in JobIds, RightBut(db, id), db.job[id] # None,
           NEW t \in Nat, NEW d, d = FinishCancelled(db, id, t)
    PROVE  /\ Right(d) /\ Calm(db, d) /\ d.seq = db.seq /\ d.paused = db.paused
           /\ d.job[id] = None \/ d.job[id].state = "cancelled"
           /\ \A x \in JobIds : x # id /\ At(db.job[x], "active") =>
                                  d.job[x] = db.job[x]
<1>1. db.job[id] \in JobHash
  BY HashOf DEF RightBut
<1>2. d = FinishAndKeep(db, id, db.job[id], "cancelled", t)
      /\ "cancelled" \in TerminalStates
  BY DEF FinishCancelled, TerminalStates
<1> QED
  BY <1>1, <1>2, FinishAndKeepIs

-----------------------------------------------------------------------------
(* Jobs that leave their place                                             *)

\* All that is neither a job nor what an index says of one.
SameRest(a, b) ==
    /\ SameFlows(a, b) /\ SameDedupes(a, b)
    /\ b.outbox = a.outbox /\ b.outboxSeq = a.outboxSeq /\ b.paused = a.paused

LEMMA LeftIs ==
    ASSUME NEW db, Right(db), NEW id \in JobIds, db.job[id] # None,
           NEW d \in Keys, NEW j \in JobHash, SameLook(db.job[id], j),
           d.job[id] = j, OnlyAt(db.job, d.job, id), Elsewhere(db, d, id),
           Where(d, id, None), SameLists(db, d), d.counts = db.counts,
           SameFlows(db, d), SameDedupes(db, d)
    PROVE  RightBut(d, id)
<1>1. db.job[id] \in JobHash
  BY HashOf DEF Right
<1>2. Loose(d, id)
  BY Leaves DEF Right, JobsRight
<1>3. Listed(d)
  BY <1>1, ListsKept DEF Right, JobsRight, SameLook
<1>4. CountsRight(d.counts, d.job)
  BY <1>1, CountKept DEF Right, JobsRight, SameLook
<1> QED
  BY <1>2, <1>3, <1>4, FlowsKept, DedupesKept DEF Right, RightBut, JobsLoose

(* From p:active.                                                          *)
Idle(db, id, j) ==
    [db EXCEPT !.job = [db.job EXCEPT ![id] = j], !.active = ZRem(@, {id})]

LEMMA LeaveActiveIs ==
    ASSUME NEW db, Right(db), NEW id \in JobIds, At(db.job[id], "active"),
           NEW j \in JobHash, SameLook(db.job[id], j),
           NEW d, d = Idle(db, id, j)
    PROVE  /\ RightBut(d, id) /\ d.job[id] = j /\ OnlyAt(db.job, d.job, id)
           /\ SameRest(db, d) /\ d.seq = db.seq
<1>0. db \in Keys /\ Settled(db) /\ db.job[id] # None
  BY DEF Right, JobsRight, At
<1> DEFINE h2 == [db.job EXCEPT ![id] = j]  a2 == ZRem(db.active, {id})
<1>1. h2 \in [JobIds -> Opt(JobHash)] /\ h2[id] = j /\ OnlyAt(db.job, h2, id)
  BY <1>0, KeysAre DEF Opt, OnlyAt
<1>2. /\ a2 \in ActiveZset
      /\ \A x \in JobIds : \A i : x # id /\ InActive(db.active, x, i) => InActive(a2, x, i)
      /\ InActive(a2, id, None)
  BY <1>0, KeysAre, ActiveRem
<1>3. d = [db EXCEPT !.job = h2, !.active = a2]
  BY DEF Idle
<1> HIDE DEF h2, a2
<1>4. d \in Keys
  BY <1>0, <1>1, <1>2, <1>3 DEF Keys, ActiveZset
<1>5. /\ d.job = h2 /\ d.active = a2 /\ d.waiting = db.waiting
      /\ d.delayed = db.delayed /\ d.finished = db.finished
      /\ d.terminal = db.terminal /\ d.counts = db.counts
      /\ SameLists(db, d) /\ SameRest(db, d) /\ d.seq = db.seq
  BY <1>0, <1>3 DEF Keys, SameLists, SameRest, SameFlows, SameDedupes
<1>6. Elsewhere(db, d, id)
  BY <1>2, <1>5 DEF Elsewhere, Where
<1>7. Where(d, id, None)
  <2>1. db.job[id] \in JobHash /\ db.job[id].state = "active"
    BY <1>0, HashOf DEF At
  <2>2. Where(db, id, db.job[id])
    BY <1>0 DEF Settled
  <2>3. db.job[id].state \notin TerminalStates
    BY <2>1 DEF TerminalStates
  <2> DEFINE i == db.job[id]
  <2> HIDE DEF i
  <2>4. /\ i \in JobHash /\ i.state = "active" /\ Where(db, id, i)
        /\ i.state \notin TerminalStates
    BY <2>1, <2>2, <2>3 DEF i
  <2> QED
    BY <1>2, <1>5, <2>4, PlaceByState DEF Where
<1> QED
  BY <1>0, <1>1, <1>4, <1>5, <1>6, <1>7, LeftIs DEF SameRest

(* From p:delayed:<queue>.                                                 *)
LEMMA LeaveDelayedIs ==
    ASSUME NEW db, Right(db), NEW id \in JobIds, At(db.job[id], "delayed"),
           NEW q, q = db.job[id].queue,
           NEW d, d = [db EXCEPT !.delayed[q] = ZRem(@, {id})]
    PROVE  /\ RightBut(d, id) /\ d.job = db.job
           /\ SameRest(db, d) /\ d.seq = db.seq
<1>0. db \in Keys /\ Settled(db) /\ db.job[id] # None
  BY DEF Right, JobsRight, At
<1> DEFINE i == db.job[id]  D == db.delayed  d2 == [D EXCEPT ![q] = ZRem(@, {id})]
<1>1. i \in JobHash /\ i.state = "delayed" /\ q = i.queue /\ q \in Queues
  BY <1>0, HashOf, JobIs DEF At
<1>2. D \in DelayedZsets
  BY <1>0, KeysAre
<1>3. /\ d2[i.queue] = ZRem(D[i.queue], {id})
      /\ \A r \in Queues : r # i.queue => d2[r] = D[r]
      /\ d2 = [r \in Queues |-> d2[r]]
  BY <1>1, <1>2 DEF DelayedZsets
<1>4. d = [db EXCEPT !.delayed = d2]
  OBVIOUS
<1>5. Where(db, id, i) /\ D = db.delayed /\ i = db.job[id]
  BY <1>0 DEF Settled
<1> HIDE DEF i, D, d2
<1>6. /\ \A r \in Queues : d2[r] \in Zset(JobIds, Nat)
      /\ \A x \in JobIds : \A k : x # id /\ InDelayed(D, x, k) => InDelayed(d2, x, k)
      /\ InDelayed(D, id, i) => InDelayed(d2, id, None)
  <2>1. i \in JobHash
    BY <1>1
  <2> QED
    BY <1>2, <1>3, <2>1, DelayedRem
<1>7. d \in Keys
  <2>1. d2 \in [Queues -> Zset(JobIds, Nat)]
    BY <1>3, <1>6
  <2> QED
    BY <1>0, <1>4, <2>1 DEF Keys
<1>8. /\ d.job = db.job /\ d.active = db.active /\ d.waiting = db.waiting
      /\ d.delayed = d2 /\ d.finished = db.finished
      /\ d.terminal = db.terminal /\ d.counts = db.counts
      /\ SameLists(db, d) /\ SameRest(db, d) /\ d.seq = db.seq
  BY <1>0, <1>4 DEF Keys, SameLists, SameRest, SameFlows, SameDedupes
<1>9. Elsewhere(db, d, id)
  BY <1>5, <1>6, <1>8 DEF Elsewhere, Where
<1>10. Where(d, id, None)
  <2>1. i.state \notin TerminalStates
    BY <1>1 DEF TerminalStates
  <2> QED
    BY <1>1, <1>5, <1>6, <1>8, <2>1, PlaceByState DEF Where
<1>11. SameLook(i, i) /\ OnlyAt(db.job, d.job, id)
  BY <1>8 DEF SameLook, OnlyAt
<1> QED
  BY <1>0, <1>1, <1>5, <1>7, <1>8, <1>9, <1>10, <1>11, LeftIs DEF SameRest

(* From p:waiting:<queue>.                                                 *)
Unplaced(db, q, m) ==
    [db EXCEPT !.waiting = [db.waiting EXCEPT ![q] = ZRem(@, {m})]]

LEMMA LeaveWaitingIs ==
    ASSUME NEW db, Right(db), NEW id \in JobIds, At(db.job[id], "waiting"),
           NEW q, q = db.job[id].queue, NEW m, m = <<db.job[id].seq, id>>,
           NEW d, d = Unplaced(db, q, m)
    PROVE  /\ RightBut(d, id) /\ d.job = db.job
           /\ SameRest(db, d) /\ d.seq = db.seq
<1>0. db \in Keys /\ Settled(db) /\ db.job[id] # None
  BY DEF Right, JobsRight, At
<1> DEFINE i == db.job[id]  W == db.waiting
           w2 == [W EXCEPT ![q] = ZRem(@, {m})]
<1>1. /\ i \in JobHash /\ i.state = "waiting" /\ q = i.queue /\ q \in Queues
      /\ m = <<i.seq, id>>
  BY <1>0, HashOf, JobIs DEF At
<1>2. W \in WaitingZsets
  BY <1>0, KeysAre
<1>3. /\ w2[i.queue] = ZRem(W[i.queue], {<<i.seq, id>>})
      /\ \A r \in Queues : r # i.queue => w2[r] = W[r]
      /\ w2 = [r \in Queues |-> w2[r]]
  BY <1>1, <1>2 DEF WaitingZsets
<1>4. d = [db EXCEPT !.waiting = w2]
  BY DEF Unplaced
<1>5. Where(db, id, i) /\ W = db.waiting /\ i = db.job[id]
  BY <1>0 DEF Settled
<1> HIDE DEF i, W, w2
<1>6. /\ \A r \in Queues : w2[r] \in Zset(Nat \X JobIds, Int)
      /\ \A x \in JobIds : \A k : x # id /\ InWaiting(W, x, k) => InWaiting(w2, x, k)
      /\ InWaiting(W, id, i) => InWaiting(w2, id, None)
  <2>1. i \in JobHash
    BY <1>1
  <2> QED
    BY <1>2, <1>3, <2>1, WaitingRem
<1>7. d \in Keys
  <2>1. w2 \in [Queues -> Zset(Nat \X JobIds, Int)]
    BY <1>3, <1>6
  <2> QED
    BY <1>0, <1>4, <2>1 DEF Keys
<1>8. /\ d.job = db.job /\ d.active = db.active /\ d.waiting = w2
      /\ d.delayed = db.delayed /\ d.finished = db.finished
      /\ d.terminal = db.terminal /\ d.counts = db.counts
      /\ SameLists(db, d) /\ SameRest(db, d) /\ d.seq = db.seq
  BY <1>0, <1>4 DEF Keys, SameLists, SameRest, SameFlows, SameDedupes
<1>9. Elsewhere(db, d, id)
  BY <1>5, <1>6, <1>8 DEF Elsewhere, Where
<1>10. Where(d, id, None)
  <2>1. i.state \notin TerminalStates
    BY <1>1 DEF TerminalStates
  <2> QED
    BY <1>1, <1>5, <1>6, <1>8, <2>1, PlaceByState DEF Where
<1>11. SameLook(i, i) /\ OnlyAt(db.job, d.job, id)
  BY <1>8 DEF SameLook, OnlyAt
<1> QED
  BY <1>0, <1>1, <1>5, <1>7, <1>8, <1>9, <1>10, <1>11, LeftIs DEF SameRest

(* From the history.                                                       *)
Unfailed(db, id, name) ==
    [db EXCEPT !.seq = @ + 1, !.finished["failed"] = ZRem(@, {id}),
               !.terminal[<<name, "failed">>] = ZRem(@, {id})]

LEMMA LeaveFailedIs ==
    ASSUME NEW db, Right(db), NEW id \in JobIds, At(db.job[id], "failed"),
           NEW name, name = db.job[id].name, NEW d, d = Unfailed(db, id, name)
    PROVE  /\ RightBut(d, id) /\ d.job = db.job
           /\ SameRest(db, d) /\ d.seq = db.seq + 1
<1>0. db \in Keys /\ Settled(db) /\ db.job[id] # None
  BY DEF Right, JobsRight, At
<1> DEFINE i == db.job[id]  T == db.terminal  G == db.finished
           f2 == [G EXCEPT !["failed"] = ZRem(@, {id})]
           t2 == [T EXCEPT ![<<name, "failed">>] = ZRem(@, {id})]
<1>1. /\ i \in JobHash /\ i.state = "failed" /\ name = i.name /\ name \in Names
      /\ i.state \in TerminalStates
  BY <1>0, HashOf, JobIs DEF At, TerminalStates
<1>2. T \in TerminalZsets /\ G \in FinishedZsets
  BY <1>0, KeysAre
<1>3. /\ f2[i.state] = ZRem(G[i.state], {id})
      /\ \A s \in TerminalStates : s # i.state => f2[s] = G[s]
      /\ f2 = [s \in TerminalStates |-> f2[s]]
  BY <1>1, <1>2 DEF FinishedZsets
<1>4. /\ t2[<<i.name, i.state>>] = ZRem(T[<<i.name, i.state>>], {id})
      /\ \A n \in Names, s \in TerminalStates :
            n # i.name \/ s # i.state => t2[<<n, s>>] = T[<<n, s>>]
      /\ t2 = [g \in Groups |-> t2[g]]
  <2> DEFINE p == <<name, "failed">>
  <2>1. p \in Groups /\ p = <<i.name, i.state>>
    BY <1>1 DEF Groups
  <2>2. t2 = [T EXCEPT ![p] = ZRem(T[p], {id})]
    OBVIOUS
  <2>3. \A n \in Names, s \in TerminalStates :
            /\ <<n, s>> \in Groups
            /\ n # i.name \/ s # i.state => <<n, s>> # p
    BY <2>1 DEF Groups
  <2> HIDE DEF p, t2
  <2>4. T \in [Groups -> Zset(JobIds, Nat)]
    BY <1>2 DEF TerminalZsets
  <2> QED
    BY <2>1, <2>2, <2>3, <2>4
<1>5. d = [db EXCEPT !.seq = @ + 1, !.finished = f2, !.terminal = t2]
  BY DEF Unfailed
<1>6. Where(db, id, i) /\ T = db.terminal /\ G = db.finished /\ i = db.job[id]
  BY <1>0 DEF Settled
<1> HIDE DEF i, T, G, f2, t2
<1>7. /\ \A s \in TerminalStates : f2[s] \in Zset(JobIds, Nat)
      /\ \A x \in JobIds : \A k : x # id /\ InFinished(G, x, k) => InFinished(f2, x, k)
      /\ InFinished(G, id, i) => InFinished(f2, id, None)
  BY <1>1, <1>2, <1>3, FinishedRem
<1>8. /\ \A n \in Names, s \in TerminalStates : t2[<<n, s>>] \in Zset(JobIds, Nat)
      /\ \A x \in JobIds : \A k : x # id /\ InTerminal(T, x, k) => InTerminal(t2, x, k)
      /\ InTerminal(T, id, i) => InTerminal(t2, id, None)
  BY <1>1, <1>2, <1>4, TerminalRem
<1>9. d \in Keys
  <2>1. f2 \in [TerminalStates -> Zset(JobIds, Nat)]
    BY <1>3, <1>7
  <2>2. \A g \in Groups : t2[g] \in Zset(JobIds, Nat)
    BY <1>8 DEF Groups
  <2>3. t2 \in [Groups -> Zset(JobIds, Nat)]
    BY <1>4, <2>2
  <2>4. db.seq + 1 \in Nat
    BY <1>0, KeysAre
  <2> DEFINE n == db.seq + 1  g == [db EXCEPT !.seq = n]
  <2>5. d = [g EXCEPT !.finished = f2, !.terminal = t2]
    BY <1>0, <1>5 DEF Keys
  <2> HIDE DEF n
  <2>6. g \in Keys
    BY <1>0, <2>4 DEF Keys, n
  <2> HIDE DEF g
  <2> DEFINE e == [g EXCEPT !.finished = f2]
  <2>7. e \in Keys
    BY <2>1, <2>6 DEF Keys
  <2>8. d = [e EXCEPT !.terminal = t2]
    BY <2>5
  <2> HIDE DEF e
  <2> QED
    BY <2>3, <2>7, <2>8 DEF Keys
<1>10. /\ d.job = db.job /\ d.active = db.active /\ d.waiting = db.waiting
       /\ d.delayed = db.delayed /\ d.finished = f2
       /\ d.terminal = t2 /\ d.counts = db.counts
       /\ SameLists(db, d) /\ SameRest(db, d) /\ d.seq = db.seq + 1
  BY <1>0, <1>5 DEF Keys, SameLists, SameRest, SameFlows, SameDedupes
<1>11. Elsewhere(db, d, id)
  BY <1>6, <1>7, <1>8, <1>10 DEF Elsewhere, Where
<1>12. Where(d, id, None)
  <2>1. i.state \notin {"waiting", "delayed", "active"}
    BY <1>1
  <2> QED
    BY <1>1, <1>6, <1>7, <1>8, <1>10, <2>1, PlaceByState DEF Where
<1>13. SameLook(i, i) /\ OnlyAt(db.job, d.job, id)
  BY <1>10 DEF SameLook, OnlyAt
<1> QED
  BY <1>0, <1>1, <1>6, <1>9, <1>10, <1>11, <1>12, <1>13, LeftIs DEF SameRest

-----------------------------------------------------------------------------
(* Jobs that get a place                                                   *)

\* Right, wherever id is.
NearlyRight(db, id) == Right(db) \/ RightBut(db, id)

\* What a script's new keys differ in from the old, off the job id.
LEMMA PutsIs ==
    ASSUME NEW db, NEW id \in JobIds, NEW d \in Keys, NEW j \in JobHash,
           NearlyRight(db, id), db.job[id] # None,
           j.queue = db.job[id].queue, j.name = db.job[id].name,
           j.state = db.job[id].state, d.job[id] = j,
           OnlyAt(db.job, d.job, id), Elsewhere(db, d, id), Where(d, id, j),
           SameLists(db, d), d.counts = db.counts,
           SameFlows(db, d), SameDedupes(db, d)
    PROVE  Right(d)
<1>1. db.job[id] \in JobHash
  BY HashOf DEF NearlyRight, Right, RightBut
<1>2. Settled(d)
  BY Arrives DEF NearlyRight, Right, JobsRight, RightBut, JobsLoose
<1>3. Listed(d)
  BY <1>1, ListsKept DEF NearlyRight, Right, JobsRight, RightBut, JobsLoose
<1>4. CountsRight(d.counts, d.job)
  BY <1>1, CountKept DEF NearlyRight, Right, JobsRight, RightBut, JobsLoose
<1> QED
  BY <1>2, <1>3, <1>4, FlowsKept, DedupesKept DEF NearlyRight, Right, RightBut, JobsRight

(* Into p:active, or to another place there.                               *)
Locked(db, id, j, t) ==
    [db EXCEPT !.job = [db.job EXCEPT ![id] = j], !.active = ZAdd(@, id, t)]

LEMMA PutActiveIs ==
    ASSUME NEW db, NEW id \in JobIds, At(db.job[id], "active"),
           NearlyRight(db, id),
           NEW j \in JobHash, j.state = "active", NEW t \in Nat,
           j.lockExpiresAt = t, j.queue = db.job[id].queue,
           j.name = db.job[id].name,
           NEW d, d = Locked(db, id, j, t)
    PROVE  /\ Right(d) /\ d.job[id] = j /\ OnlyAt(db.job, d.job, id)
           /\ SameRest(db, d) /\ d.seq = db.seq
<1>0. db \in Keys /\ db.job[id] # None /\ db.job[id].state = "active"
  BY DEF NearlyRight, Right, RightBut, At
<1> DEFINE h2 == [db.job EXCEPT ![id] = j]  a2 == ZAdd(db.active, id, t)
<1>1. h2 \in [JobIds -> Opt(JobHash)] /\ h2[id] = j /\ OnlyAt(db.job, h2, id)
  BY <1>0, KeysAre DEF Opt, OnlyAt
<1>2. /\ a2 \in ActiveZset
      /\ \A x \in JobIds : \A i : x # id /\ InActive(db.active, x, i) => InActive(a2, x, i)
      /\ InActive(a2, id, j)
  <2>1. db.active \in ActiveZset
    BY <1>0, KeysAre
  <2>2. At(j, "active") /\ j.lockExpiresAt = t
    BY JobIs DEF At
  <2> QED
    BY <2>1, <2>2, ActivePut
<1>3. d = [db EXCEPT !.job = h2, !.active = a2]
  BY DEF Locked
<1> HIDE DEF h2, a2
<1>4. d \in Keys
  BY <1>0, <1>1, <1>2, <1>3 DEF Keys, ActiveZset
<1>5. /\ d.job = h2 /\ d.active = a2 /\ d.waiting = db.waiting
      /\ d.delayed = db.delayed /\ d.finished = db.finished
      /\ d.terminal = db.terminal /\ d.counts = db.counts
      /\ SameLists(db, d) /\ SameRest(db, d) /\ d.seq = db.seq
  BY <1>0, <1>3 DEF Keys, SameLists, SameRest, SameFlows, SameDedupes
<1>6. Elsewhere(db, d, id)
  BY <1>2, <1>5 DEF Elsewhere, Where
<1>7. Where(d, id, j)
  <2> DEFINE i == db.job[id]
  <2>1. Where(db, id, i) \/ Where(db, id, None)
    BY DEF NearlyRight, Right, JobsRight, Settled, RightBut, JobsLoose, Loose
  <2>2. i \in JobHash /\ i.state = "active"
    BY <1>0, HashOf
  <2> HIDE DEF i
  <2>3. /\ InWaiting(db.waiting, id, None) /\ InDelayed(db.delayed, id, None)
        /\ InFinished(db.finished, id, None) /\ InTerminal(db.terminal, id, None)
    <3>1. i.state \notin TerminalStates
      BY <2>2 DEF TerminalStates
    <3> QED
      BY <2>1, <2>2, <3>1, PlaceByState DEF Where
  <2>4. j.state \notin TerminalStates
    BY DEF TerminalStates
  <2> QED
    BY <1>2, <1>5, <2>3, <2>4, PlaceByState DEF Where
<1>8. /\ d.job[id] = j /\ OnlyAt(db.job, d.job, id) /\ j.state = db.job[id].state
      /\ SameLists(db, d) /\ d.counts = db.counts
      /\ SameFlows(db, d) /\ SameDedupes(db, d)
  BY <1>0, <1>1, <1>5 DEF SameRest
<1>9. Right(d)
  <2>1. d \in Keys /\ db.job[id] # None /\ Where(d, id, j)
    BY <1>0, <1>4, <1>7
  <2> QED
    BY <1>6, <1>8, <2>1, PutsIs
<1> QED
  BY <1>5, <1>8, <1>9

(* To another place in p:delayed:<queue>.                                  *)
Deferred(db, id, j) ==
    [db EXCEPT !.job = [db.job EXCEPT ![id] = j],
               !.delayed[j.queue] = ZAdd(@, id, j.runAt)]

LEMMA PutDelayedIs ==
    ASSUME NEW db, Right(db), NEW id \in JobIds, At(db.job[id], "delayed"),
           NEW j \in JobHash, j.state = "delayed", j.queue = db.job[id].queue,
           j.name = db.job[id].name,
           NEW d, d = Deferred(db, id, j)
    PROVE  /\ Right(d) /\ d.job[id] = j /\ OnlyAt(db.job, d.job, id)
           /\ SameRest(db, d) /\ d.seq = db.seq
<1>0. /\ db \in Keys /\ db.job[id] # None /\ db.job[id].state = "delayed"
      /\ Settled(db)
  BY DEF Right, JobsRight, At
<1> DEFINE i == db.job[id]  D == db.delayed
           h2 == [db.job EXCEPT ![id] = j]
           d2 == [D EXCEPT ![j.queue] = ZAdd(@, id, j.runAt)]
<1>1. h2 \in [JobIds -> Opt(JobHash)] /\ h2[id] = j /\ OnlyAt(db.job, h2, id)
  BY <1>0, KeysAre DEF Opt, OnlyAt
<1>2. D \in DelayedZsets /\ j.queue \in Queues
  BY <1>0, KeysAre, JobIs
<1>3. /\ d2[j.queue] = ZAdd(D[j.queue], id, j.runAt)
      /\ \A r \in Queues : r # j.queue => d2[r] = D[r]
      /\ d2 = [r \in Queues |-> d2[r]]
  BY <1>2 DEF DelayedZsets
<1>4. d = [db EXCEPT !.job = h2, !.delayed = d2]
  BY DEF Deferred
<1>5. /\ Where(db, id, i) /\ i \in JobHash /\ i.state = "delayed"
      /\ i.queue = j.queue /\ D = db.delayed
  BY <1>0, HashOf DEF Settled
<1> HIDE DEF i, D, h2, d2
<1>6. /\ \A r \in Queues : d2[r] \in Zset(JobIds, Nat)
      /\ \A x \in JobIds : \A k : x # id /\ InDelayed(D, x, k) => InDelayed(d2, x, k)
      /\ \A k : InDelayed(D, id, k) /\ k.queue = j.queue => InDelayed(d2, id, j)
  BY <1>2, <1>3, DelayedPut
<1>7. d \in Keys
  <2>1. d2 \in [Queues -> Zset(JobIds, Nat)]
    BY <1>3, <1>6
  <2> DEFINE e == [db EXCEPT !.delayed = d2]
  <2>2. e \in Keys
    BY <1>0, <2>1 DEF Keys
  <2>3. d = [e EXCEPT !.job = h2]
    BY <1>0, <1>4 DEF Keys
  <2> HIDE DEF e
  <2> QED
    BY <1>1, <2>2, <2>3 DEF Keys
<1>8. /\ d.job = h2 /\ d.active = db.active /\ d.waiting = db.waiting
      /\ d.delayed = d2 /\ d.finished = db.finished
      /\ d.terminal = db.terminal /\ d.counts = db.counts
      /\ SameLists(db, d) /\ SameRest(db, d) /\ d.seq = db.seq
  BY <1>0, <1>4 DEF Keys, SameLists, SameRest, SameFlows, SameDedupes
<1>9. Elsewhere(db, d, id)
  BY <1>5, <1>6, <1>8 DEF Elsewhere, Where
<1>10. Where(d, id, j)
  <2>1. i.state \notin TerminalStates /\ j.state \notin TerminalStates
    BY <1>5 DEF TerminalStates
  <2> QED
    BY <1>5, <1>6, <1>8, <2>1, PlaceByState DEF Where
<1>11. /\ d.job[id] = j /\ OnlyAt(db.job, d.job, id) /\ j.state = db.job[id].state
       /\ SameLists(db, d) /\ d.counts = db.counts
       /\ SameFlows(db, d) /\ SameDedupes(db, d)
  BY <1>0, <1>1, <1>8 DEF SameRest
<1>12. Right(d)
  BY <1>0, <1>7, <1>9, <1>10, <1>11, PutsIs DEF NearlyRight
<1> QED
  BY <1>8, <1>11, <1>12

Unqueued(W, id, j) == [W EXCEPT ![j.queue] = ZRem(@, {<<j.seq, id>>})]
Undelayed(D, id, j) == [D EXCEPT ![j.queue] = ZRem(@, {id})]

LEMMA UnqueuedIs ==
    ASSUME NEW W \in WaitingZsets, NEW id \in JobIds, NEW j \in JobHash
    PROVE  /\ Unqueued(W, id, j) \in WaitingZsets
           /\ \A x \in JobIds : \A i :
                 x # id /\ InWaiting(W, x, i) => InWaiting(Unqueued(W, id, j), x, i)
           /\ InWaiting(W, id, j) => InWaiting(Unqueued(W, id, j), id, None)
<1> DEFINE w2 == Unqueued(W, id, j)
<1>1. j.queue \in Queues
  BY JobIs
<1>2. /\ w2[j.queue] = ZRem(W[j.queue], {<<j.seq, id>>})
      /\ \A r \in Queues : r # j.queue => w2[r] = W[r]
      /\ w2 = [r \in Queues |-> w2[r]]
  BY <1>1 DEF WaitingZsets, Unqueued
<1> HIDE DEF w2
<1>3. /\ \A r \in Queues : w2[r] \in Zset(Nat \X JobIds, Int)
      /\ \A x \in JobIds : \A i : x # id /\ InWaiting(W, x, i) => InWaiting(w2, x, i)
      /\ InWaiting(W, id, j) => InWaiting(w2, id, None)
  BY <1>2, WaitingRem
<1>4. w2 \in WaitingZsets
  BY <1>2, <1>3 DEF WaitingZsets
<1> QED
  BY <1>3, <1>4 DEF w2

LEMMA UndelayedIs ==
    ASSUME NEW D \in DelayedZsets, NEW id \in JobIds, NEW j \in JobHash
    PROVE  /\ Undelayed(D, id, j) \in DelayedZsets
           /\ \A x \in JobIds : \A i :
                 x # id /\ InDelayed(D, x, i) => InDelayed(Undelayed(D, id, j), x, i)
           /\ InDelayed(D, id, j) => InDelayed(Undelayed(D, id, j), id, None)
<1> DEFINE d2 == Undelayed(D, id, j)
<1>1. j.queue \in Queues
  BY JobIs
<1>2. /\ d2[j.queue] = ZRem(D[j.queue], {id})
      /\ \A r \in Queues : r # j.queue => d2[r] = D[r]
      /\ d2 = [r \in Queues |-> d2[r]]
  BY <1>1 DEF DelayedZsets, Undelayed
<1> HIDE DEF d2
<1>3. /\ \A r \in Queues : d2[r] \in Zset(JobIds, Nat)
      /\ \A x \in JobIds : \A i : x # id /\ InDelayed(D, x, i) => InDelayed(d2, x, i)
      /\ InDelayed(D, id, j) => InDelayed(d2, id, None)
  BY <1>2, DelayedRem
<1>4. d2 \in DelayedZsets
  BY <1>2, <1>3 DEF DelayedZsets
<1> QED
  BY <1>3, <1>4 DEF d2

(* Out of the zsets of the queue, for a job that was in one or in none.    *)
OffQueue(db, id, q) == [RemWaiting(db, id) EXCEPT !.delayed[q] = ZRem(@, {id})]

LEMMA LeaveQueueIs ==
    ASSUME NEW db, Right(db), NEW id \in JobIds, db.job[id] # None,
           db.job[id].state \in {"waiting", "delayed", "waiting-children"},
           NEW q, q = db.job[id].queue,
           NEW d, d = OffQueue(db, id, q)
    PROVE  /\ RightBut(d, id) /\ d.job = db.job
           /\ SameRest(db, d) /\ d.seq = db.seq
<1>0. db \in Keys /\ Settled(db)
  BY DEF Right, JobsRight
<1> DEFINE i == db.job[id]
           w2 == Unqueued(db.waiting, id, i)  d2 == Undelayed(db.delayed, id, i)
<1>1. /\ i \in JobHash /\ i.queue \in Queues
      /\ i.state \in {"waiting", "delayed", "waiting-children"}
  BY <1>0, HashOf, JobIs
<1>2. db.waiting \in WaitingZsets /\ db.delayed \in DelayedZsets
  BY <1>0, KeysAre
<1>3. d = [db EXCEPT !.waiting = w2, !.delayed = d2]
  <2>1. RemWaiting(db, id) = [db EXCEPT !.waiting = w2]
    BY DEF RemWaiting, WaitingMember, Unqueued
  <2> DEFINE g == [db EXCEPT !.waiting = w2]
  <2>2. g.delayed = db.delayed
    BY <1>0 DEF Keys
  <2>3. d = [g EXCEPT !.delayed = d2]
    BY <2>1, <2>2 DEF Undelayed, OffQueue
  <2> HIDE DEF d2, w2
  <2> QED
    BY <1>0, <2>3 DEF Keys
<1>4. Where(db, id, i) /\ i = db.job[id]
  BY <1>0 DEF Settled
<1> HIDE DEF i
<1>5. /\ w2 \in WaitingZsets
      /\ \A x \in JobIds : \A k : x # id /\ InWaiting(db.waiting, x, k) => InWaiting(w2, x, k)
      /\ InWaiting(db.waiting, id, i) => InWaiting(w2, id, None)
  BY <1>1, <1>2, UnqueuedIs
<1>6. /\ d2 \in DelayedZsets
      /\ \A x \in JobIds : \A k : x # id /\ InDelayed(db.delayed, x, k) => InDelayed(d2, x, k)
      /\ InDelayed(db.delayed, id, i) => InDelayed(d2, id, None)
  BY <1>1, <1>2, UndelayedIs
<1> HIDE DEF w2, d2
<1>7. d \in Keys
  <2> DEFINE g == [db EXCEPT !.waiting = w2]
  <2>1. g \in Keys
    BY <1>0, <1>5 DEF Keys, WaitingZsets
  <2>2. d = [g EXCEPT !.delayed = d2]
    BY <1>0, <1>3 DEF Keys
  <2> HIDE DEF g
  <2> QED
    BY <1>6, <2>1, <2>2 DEF Keys, DelayedZsets
<1>8. /\ d.job = db.job /\ d.active = db.active /\ d.waiting = w2
      /\ d.delayed = d2 /\ d.finished = db.finished
      /\ d.terminal = db.terminal /\ d.counts = db.counts
      /\ SameLists(db, d) /\ SameRest(db, d) /\ d.seq = db.seq
  BY <1>0, <1>3 DEF Keys, SameLists, SameRest, SameFlows, SameDedupes
<1>9. Elsewhere(db, d, id)
  BY <1>5, <1>6, <1>8 DEF Elsewhere, Where
<1>10. Where(d, id, None)
  <2>1. i.state \notin TerminalStates /\ i.state # "active"
    BY <1>1 DEF TerminalStates
  <2> QED
    BY <1>1, <1>4, <1>5, <1>6, <1>8, <2>1, PlaceByState DEF Where
<1>11. SameLook(i, i) /\ OnlyAt(db.job, d.job, id)
  BY <1>8 DEF SameLook, OnlyAt
<1>12. SameFlows(db, d) /\ SameDedupes(db, d)
  BY <1>8 DEF SameRest
<1> QED
  BY <1>1, <1>4, <1>7, <1>8, <1>9, <1>10, <1>11, <1>12, LeftIs

-----------------------------------------------------------------------------
(* Insertion                                                               *)

\* The lists with a new member.
Enlisted(a, b, id, name, queue, t) ==
    /\ b.all = ZAdd(a.all, id, t)
    /\ b.byname[name] = ZAdd(a.byname[name], id, t)
    /\ \A n \in Names : n # name => b.byname[n] = a.byname[n]
    /\ b.byqueue[queue] = ZAdd(a.byqueue[queue], id, t)
    /\ \A q \in Queues : q # queue => b.byqueue[q] = a.byqueue[q]

LEMMA EnlistedIs ==
    ASSUME NEW a \in Keys, NEW b, NEW id \in JobIds, Listed(a),
           a.job[id] = None, b.job[id] # None, OnlyAt(a.job, b.job, id),
           NEW name \in Names, NEW queue \in Queues, NEW t \in Nat,
           b.job[id].name = name, b.job[id].queue = queue,
           Enlisted(a, b, id, name, queue, t)
    PROVE  /\ Listed(b) /\ b.all \in Zset(JobIds, Nat)
           /\ \A n \in Names : b.byname[n] \in Zset(JobIds, Nat)
           /\ \A q \in Queues : b.byqueue[q] \in Zset(JobIds, Nat)
<1>1. /\ a.all \in Zset(JobIds, Nat)
      /\ \A n \in Names : a.byname[n] \in Zset(JobIds, Nat)
      /\ \A q \in Queues : a.byqueue[q] \in Zset(JobIds, Nat)
  BY KeysAre
<1>2. /\ b.all \in Zset(JobIds, Nat)
      /\ \A m : m \in DOMAIN b.all <=> m \in DOMAIN a.all \/ m = id
      /\ b.all[id] = t
      /\ \A m \in DOMAIN a.all : m # id => b.all[m] = a.all[m]
  <2> DEFINE z == a.all
  <2>1. z \in Zset(JobIds, Nat) /\ b.all = ZAdd(z, id, t)
    BY <1>1 DEF Enlisted
  <2> HIDE DEF z
  <2>2. /\ ZAdd(z, id, t) \in Zset(JobIds, Nat)
        /\ \A n : n \in DOMAIN ZAdd(z, id, t) <=> n \in DOMAIN z \/ n = id
        /\ ZAdd(z, id, t)[id] = t
        /\ \A n \in DOMAIN z : n # id => ZAdd(z, id, t)[n] = z[n]
    BY <2>1, ZAddIs
  <2> QED
    BY <2>1, <2>2 DEF z
<1>3. /\ b.byname[name] \in Zset(JobIds, Nat)
      /\ \A m : m \in DOMAIN b.byname[name] <=> m \in DOMAIN a.byname[name] \/ m = id
      /\ b.byname[name][id] = t
      /\ \A m \in DOMAIN a.byname[name] :
            m # id => b.byname[name][m] = a.byname[name][m]
  <2> DEFINE z == a.byname[name]
  <2>1. z \in Zset(JobIds, Nat) /\ b.byname[name] = ZAdd(z, id, t)
    BY <1>1 DEF Enlisted
  <2> HIDE DEF z
  <2>2. /\ ZAdd(z, id, t) \in Zset(JobIds, Nat)
        /\ \A n : n \in DOMAIN ZAdd(z, id, t) <=> n \in DOMAIN z \/ n = id
        /\ ZAdd(z, id, t)[id] = t
        /\ \A n \in DOMAIN z : n # id => ZAdd(z, id, t)[n] = z[n]
    BY <2>1, ZAddIs
  <2> QED
    BY <2>1, <2>2 DEF z
<1>4. /\ b.byqueue[queue] \in Zset(JobIds, Nat)
      /\ \A m : m \in DOMAIN b.byqueue[queue] <=> m \in DOMAIN a.byqueue[queue] \/ m = id
      /\ b.byqueue[queue][id] = t
      /\ \A m \in DOMAIN a.byqueue[queue] :
            m # id => b.byqueue[queue][m] = a.byqueue[queue][m]
  <2> DEFINE z == a.byqueue[queue]
  <2>1. z \in Zset(JobIds, Nat) /\ b.byqueue[queue] = ZAdd(z, id, t)
    BY <1>1 DEF Enlisted
  <2> HIDE DEF z
  <2>2. /\ ZAdd(z, id, t) \in Zset(JobIds, Nat)
        /\ \A n : n \in DOMAIN ZAdd(z, id, t) <=> n \in DOMAIN z \/ n = id
        /\ ZAdd(z, id, t)[id] = t
        /\ \A n \in DOMAIN z : n # id => ZAdd(z, id, t)[n] = z[n]
    BY <2>1, ZAddIs
  <2> QED
    BY <2>1, <2>2 DEF z
<1>5. ASSUME NEW x \in JobIds PROVE ListedAs(b, x, b.job[x])
  <2>1. ListedAs(a, x, a.job[x])
    BY DEF Listed
  <2>2. CASE x = id
    <3>1. x \in DOMAIN b.all /\ b.all[x] = t
      BY <1>2, <2>2
    <3>2. ASSUME NEW n \in Names
          PROVE  /\ x \in DOMAIN b.byname[n] <=> n = name
                 /\ x \in DOMAIN b.byname[n] => b.byname[n][x] = t
      BY <1>3, <2>1, <2>2 DEF ListedAs, Enlisted
    <3>3. ASSUME NEW q \in Queues
          PROVE  /\ x \in DOMAIN b.byqueue[q] <=> q = queue
                 /\ x \in DOMAIN b.byqueue[q] => b.byqueue[q][x] = t
      BY <1>4, <2>1, <2>2 DEF ListedAs, Enlisted
    <3> QED
      BY <2>2, <3>1, <3>2, <3>3 DEF ListedAs
  <2>3. CASE x # id
    <3>1. b.job[x] = a.job[x]
      BY <2>3 DEF OnlyAt
    <3>2. /\ x \in DOMAIN b.all <=> x \in DOMAIN a.all
          /\ x \in DOMAIN a.all => b.all[x] = a.all[x]
      BY <1>2, <2>3
    <3>3. ASSUME NEW n \in Names
          PROVE  /\ x \in DOMAIN b.byname[n] <=> x \in DOMAIN a.byname[n]
                 /\ x \in DOMAIN a.byname[n] => b.byname[n][x] = a.byname[n][x]
      BY <1>3, <2>3 DEF Enlisted
    <3>4. ASSUME NEW q \in Queues
          PROVE  /\ x \in DOMAIN b.byqueue[q] <=> x \in DOMAIN a.byqueue[q]
                 /\ x \in DOMAIN a.byqueue[q] => b.byqueue[q][x] = a.byqueue[q][x]
      BY <1>4, <2>3 DEF Enlisted
    <3> QED
      BY <2>1, <3>1, <3>2, <3>3, <3>4 DEF ListedAs
  <2> QED
    BY <2>2, <2>3
<1> QED
  BY <1>1, <1>2, <1>3, <1>4, <1>5 DEF Listed, Enlisted

LEMMA NewJobIs ==
    ASSUME NEW r \in Requests, NEW n \in Nat, NEW t \in Nat
    PROVE  /\ NewJob(r, n, t) \in JobHash
           /\ NewJob(r, n, t).name = r.name /\ NewJob(r, n, t).queue = r.queue
           /\ NewJob(r, n, t).state \in {"waiting", "delayed"}
           /\ r.name \in Names /\ r.queue \in Queues
<1>1. r \in Request
  BY ConstantsAssumption
<1>2. /\ r.name \in Names /\ r.queue \in Queues /\ r.payload \in Payloads
      /\ r.priority \in Int /\ r.attemptsMax \in Nat
      /\ r.keep \in Opt(Mem!KeepPolicy) /\ r.dedupe \in Opt(Mem!DedupePolicy)
      /\ r.parent \in Opt(Envelopes) /\ r.delayMs \in Nat
  BY <1>1 DEF Request
<1>3. (IF r.dedupe = None THEN None ELSE r.dedupe.key) \in Opt(DedupeKeys)
  BY <1>2 DEF Opt, Mem!DedupePolicy
<1>4. t + r.delayMs \in Nat
  BY <1>2
<1>5. (IF r.delayMs > 0 THEN "delayed" ELSE "waiting") \in JobStates
  BY DEF JobStates
<1>6. <<>> \in Seq(Mem!AttemptOutcomes) /\ None \in Opt(Mem!FlowState)
      /\ None \in Opt(Nat)
  BY DEF Opt
<1> QED
  BY <1>2, <1>3, <1>4, <1>5, <1>6 DEF NewJob, JobHash

LEMMA InsertJobRowIs ==
    ASSUME NEW db, Right(db), NEW id \in JobIds, db.job[id] = None,
           NEW r \in Requests, NEW t \in Nat,
           NEW d, d = InsertJobRow(db, id, r, t)
    PROVE  /\ Right(d) /\ OnlyAt(db.job, d.job, id)
           /\ d.job[id] \in JobHash /\ d.job[id].state \in {"waiting", "delayed"}
           /\ SameFlows(db, d) /\ SameDedupes(db, d)
           /\ d.seq = db.seq + 1 /\ d.paused = db.paused
<1>0. /\ db \in Keys /\ JobsRight(db) /\ FlowsRight(db) /\ DedupesRight(db)
      /\ db.seq + 1 \in Nat
  BY KeysAre DEF Right
<1> DEFINE j == NewJob(r, db.seq + 1, t)
           n == db.seq + 1
           h2 == [db.job EXCEPT ![id] = j]
           al2 == ZAdd(db.all, id, t)
           bn2 == [db.byname EXCEPT ![r.name] = ZAdd(@, id, t)]
           bq2 == [db.byqueue EXCEPT ![r.queue] = ZAdd(@, id, t)]
           c2 == [db.counts EXCEPT ![<<r.queue, j.state>>] = @ + 1]
           e == [db EXCEPT !.seq = n, !.job = h2, !.all = al2, !.byname = bn2,
                           !.byqueue = bq2, !.counts = c2]
<1>1. /\ j \in JobHash /\ j.name = r.name /\ j.queue = r.queue
      /\ j.state \in {"waiting", "delayed"}
      /\ r.name \in Names /\ r.queue \in Queues /\ j # None
      /\ j.state \in JobStates
  BY <1>0, NewJobIs, JobIs
<1> HIDE DEF j
<1>2. d = IF j.state = "waiting" THEN AddWaiting(e, id)
          ELSE [e EXCEPT !.delayed[r.queue] = ZAdd(@, id, j.runAt)]
  BY DEF InsertJobRow, j
<1>3. h2 \in [JobIds -> Opt(JobHash)] /\ h2[id] = j /\ OnlyAt(db.job, h2, id)
  BY <1>0, <1>1, KeysAre DEF Opt, OnlyAt
<1>4. /\ c2 \in [Counters -> Int]
      /\ c2[<<r.queue, j.state>>] = db.counts[<<r.queue, j.state>>] + 1
      /\ \A q \in Queues, s \in JobStates :
            q # r.queue \/ s # j.state => c2[<<q, s>>] = db.counts[<<q, s>>]
  <2> DEFINE c == db.counts  p == <<r.queue, j.state>>
  <2>1. c \in [Counters -> Int] /\ p \in Counters
    BY <1>0, <1>1, KeysAre DEF Counters
  <2>2. c2 = [c EXCEPT ![p] = @ + 1]
    OBVIOUS
  <2> HIDE DEF c2
  <2>3. c2 \in [Counters -> Int] /\ c2[p] = c[p] + 1
    BY <2>1, <2>2
  <2>4. ASSUME NEW q \in Queues, NEW s \in JobStates, q # r.queue \/ s # j.state
        PROVE  c2[<<q, s>>] = c[<<q, s>>]
    <3>1. <<q, s>> \in Counters /\ <<q, s>> # p
      BY <2>4 DEF Counters
    <3> QED
      BY <2>1, <2>2, <3>1
  <2> QED
    BY <2>3, <2>4
<1>5. /\ bn2 = [m \in Names |-> bn2[m]] /\ bq2 = [q \in Queues |-> bq2[q]]
      /\ bn2[r.name] = ZAdd(db.byname[r.name], id, t)
      /\ \A m \in Names : m # r.name => bn2[m] = db.byname[m]
      /\ bq2[r.queue] = ZAdd(db.byqueue[r.queue], id, t)
      /\ \A q \in Queues : q # r.queue => bq2[q] = db.byqueue[q]
      /\ al2 = ZAdd(db.all, id, t)
  BY <1>0, <1>1, KeysAre
<1> HIDE DEF n, h2, al2, bn2, bq2, c2
<1>6. /\ e.job = h2 /\ e.counts = c2 /\ e.all = al2 /\ e.byname = bn2
      /\ e.byqueue = bq2 /\ e.seq = n /\ SamePlaces(db, e)
      /\ SameFlows(db, e) /\ SameDedupes(db, e) /\ e.paused = db.paused
  BY <1>0 DEF Keys, SamePlaces, SameFlows, SameDedupes
<1>7. Enlisted(db, e, id, r.name, r.queue, t)
  BY <1>5, <1>6 DEF Enlisted
<1>8. /\ Listed(e) /\ e.all \in Zset(JobIds, Nat)
      /\ \A m \in Names : e.byname[m] \in Zset(JobIds, Nat)
      /\ \A q \in Queues : e.byqueue[q] \in Zset(JobIds, Nat)
  <2>1. /\ Listed(db) /\ e.job[id] = j /\ OnlyAt(db.job, e.job, id)
    BY <1>0, <1>3, <1>6 DEF JobsRight
  <2> HIDE DEF e
  <2> QED
    BY <1>0, <1>1, <1>7, <2>1, EnlistedIs
<1>9. e \in Keys
  <2>1. /\ bn2 \in [Names -> Zset(JobIds, Nat)] /\ bq2 \in [Queues -> Zset(JobIds, Nat)]
        /\ al2 \in Zset(JobIds, Nat) /\ n \in Nat
    <3> HIDE DEF e
    <3> QED
      BY <1>0, <1>5, <1>6, <1>8 DEF n
  <2> QED
    BY <1>0, <1>3, <1>4, <2>1 DEF Keys
<1> HIDE DEF e
<1>10. CountsRight(e.counts, e.job)
  <2>1. CountsRight(db.counts, db.job) /\ db.counts \in [Counters -> Int]
    BY <1>0, KeysAre DEF JobsRight
  <2> QED
    BY <1>1, <1>3, <1>4, <1>6, <2>1, CountAdded
<1>11. Loose(e, id)
  <2>1. Where(db, id, None) /\ Settled(db)
    BY <1>0 DEF JobsRight, Settled
  <2>2. Elsewhere(db, e, id) /\ Where(e, id, None)
    BY <1>6, <2>1, PlacesKept
  <2>3. OnlyAt(db.job, e.job, id)
    BY <1>3, <1>6
  <2> QED
    BY <2>1, <2>2, <2>3, Leaves
<1>12. RightBut(e, id)
  BY <1>0, <1>6, <1>8, <1>9, <1>10, <1>11, FlowsKept, DedupesKept
  DEF RightBut, JobsLoose
<1>13. e.job[id] = j
  BY <1>3, <1>6
<1>14. /\ Right(d) /\ d.job = e.job /\ SameFlows(e, d) /\ SameDedupes(e, d)
       /\ d.seq = e.seq /\ d.paused = e.paused
  <2>1. CASE j.state = "waiting"
    <3>1. At(e.job[id], "waiting") /\ d = AddWaiting(e, id)
      BY <1>1, <1>2, <1>13, <2>1 DEF At
    <3> QED
      BY <1>12, <3>1, AddWaitingIs
  <2>2. CASE j.state = "delayed"
    <3>1. /\ At(e.job[id], "delayed")
          /\ d = [e EXCEPT !.delayed[e.job[id].queue] = ZAdd(@, id, e.job[id].runAt)]
      BY <1>1, <1>2, <1>13, <2>2 DEF At
    <3> QED
      BY <1>12, <3>1, AddDelayedIs
  <2> QED
    BY <1>1, <2>1, <2>2
<1> QED
  BY <1>1, <1>3, <1>6, <1>13, <1>14 DEF SameFlows, SameDedupes, n

-----------------------------------------------------------------------------
(* Scripts that end with all in place                                      *)

(* What no index is about may change.                                      *)
LEMMA RestChanged ==
    ASSUME NEW a, NEW b \in Keys, SameJobs(a, b), SameFlows(a, b), SameDedupes(a, b)
    PROVE  /\ Right(a) => Right(b)
           /\ \A id \in JobIds : RightBut(a, id) => RightBut(b, id)
<1>1. FlowsRight(a) => FlowsRight(b)
  BY FlowsKept
<1>2. DedupesRight(a) => DedupesRight(b)
  BY DedupesKept
<1>3. JobsRight(a) => JobsRight(b)
  BY JobsKept
<1>4. \A id : JobsLoose(a, id) => JobsLoose(b, id)
  BY JobsKept
<1> QED
  BY <1>1, <1>2, <1>3, <1>4 DEF Right, RightBut

LEMMA SameCalms ==
    ASSUME NEW a, NEW b, b.job = a.job, NoNewRows(a, b) PROVE Calm(a, b)
BY DEF Calm

LEMMA SeqIs ==
    ASSUME NEW db \in Keys, NEW d, d = [db EXCEPT !.seq = @ + 1]
    PROVE  /\ Right(db) => Right(d)
           /\ \A id \in JobIds : RightBut(db, id) => RightBut(d, id)
           /\ d.job = db.job /\ SameFlows(db, d)
<1>1. db.seq + 1 \in Nat
  BY KeysAre
<1> DEFINE n == db.seq + 1
<1>2. d = [db EXCEPT !.seq = n] /\ n \in Nat
  BY <1>1
<1> HIDE DEF n
<1>3. d \in Keys
  BY <1>2 DEF Keys
<1>4. SameJobs(db, d) /\ SameFlows(db, d) /\ SameDedupes(db, d)
  BY <1>2 DEF Keys, SameJobs, SamePlaces, SameLists, SameFlows, SameDedupes
<1>5. d.job = db.job
  BY <1>4 DEF SameJobs
<1> QED
  BY <1>3, <1>4, <1>5, RestChanged

(* A hash that changes in what no index says, and its rows.                *)
LEMMA HashRight ==
    ASSUME NEW a, NEW b \in Keys, NEW id \in JobIds, SamePlaces(a, b),
           SameLists(a, b), b.counts = a.counts, OnlyAt(a.job, b.job, id),
           a.job[id] \in JobHash, b.job[id] \in JobHash,
           SameLook(a.job[id], b.job[id]), FlowsRight(b), DedupesRight(b)
    PROVE  /\ Right(a) => Right(b)
           /\ RightBut(a, id) => RightBut(b, id)
<1>1. JobsRight(a) => JobsRight(b)
  BY HashChanged
<1>2. JobsLoose(a, id) => JobsLoose(b, id)
  BY HashChanged
<1> QED
  BY <1>1, <1>2 DEF Right, RightBut

(* A job that waits for its children is nowhere.                           *)
LEMMA ParkedIs ==
    ASSUME NEW db, NEW id \in JobIds, At(db.job[id], "waiting-children")
    PROVE  Right(db) <=> RightBut(db, id)
<1> SUFFICES ASSUME db \in Keys PROVE JobsRight(db) <=> JobsLoose(db, id)
  BY DEF Right, RightBut
<1>1. db.job[id] \in JobHash /\ db.job[id].state = "waiting-children"
  BY HashOf DEF At
<1>2. Where(db, id, db.job[id]) <=> Where(db, id, None)
  BY <1>1, Parked
<1> QED
  BY <1>2 DEF JobsRight, JobsLoose, Settled, Loose

LEMMA SettledIs ==
    ASSUME NEW db, NEW id \in JobIds, NearlyRight(db, id), db.job[id] # None,
           NEW d, d = SettleMarkRows(db, id)
    PROVE  /\ Right(db) => Right(d)
           /\ RightBut(db, id) => RightBut(d, id)
           /\ NoNewRows(db, d) /\ OnlyAt(db.job, d.job, id)
           /\ d.job[id] \in JobHash /\ SameLook(db.job[id], d.job[id])
           /\ d.job[id].lockToken = db.job[id].lockToken
           /\ d.job[id].cancelRequested = db.job[id].cancelRequested
           /\ db.job[id].flow # None => d.job[id].flow # None
<1>0. db \in Keys /\ FlowsRight(db) /\ DedupesRight(db)
  BY DEF NearlyRight, Right, RightBut
<1>1. /\ d \in Keys /\ SamePlaces(db, d) /\ SameLists(db, d)
      /\ d.counts = db.counts /\ SameDedupes(db, d) /\ FlowsRight(d)
      /\ NoNewRows(db, d) /\ OnlyAt(db.job, d.job, id)
  BY <1>0, SettleMarkRowsIs
<1>2. PICK f \in Opt(Mem!FlowState) :
         /\ d.job[id] = WithFlow(db.job[id], f)
         /\ db.job[id].flow # None => f # None
  BY <1>0, SettleMarkRowsIs
<1>3. db.job[id] \in JobHash
  BY <1>0, HashOf
<1>4. /\ d.job[id] \in JobHash /\ SameLook(db.job[id], d.job[id])
      /\ d.job[id].flow = f
      /\ d.job[id].lockToken = db.job[id].lockToken
      /\ d.job[id].cancelRequested = db.job[id].cancelRequested
  BY <1>2, <1>3, WithFlowIs
<1>5. DedupesRight(d)
  BY <1>0, <1>1, DedupesKept
<1>6. (Right(db) => Right(d)) /\ (RightBut(db, id) => RightBut(d, id))
  BY <1>1, <1>3, <1>4, <1>5, HashRight
<1> QED
  BY <1>1, <1>2, <1>4, <1>6

Off(db, id) == [db EXCEPT !.active = ZRem(@, {id})]

(* An active job leaves, its hash as it was.                               *)
LEMMA LeftActiveIs ==
    ASSUME NEW db, Right(db), NEW id \in JobIds, At(db.job[id], "active"),
           NEW d, d = Off(db, id)
    PROVE  RightBut(d, id) /\ d.job = db.job /\ SameRest(db, d)
<1> DEFINE j == db.job[id]  h2 == [db.job EXCEPT ![id] = j]
           a2 == ZRem(db.active, {id})
<1>0. db \in Keys /\ db.job[id] # None
  BY DEF Right, At
<1>1. j \in JobHash /\ SameLook(db.job[id], j)
  BY <1>0, HashOf DEF SameLook
<1>2. h2 = db.job
  BY <1>0, KeysAre
<1>3. d = Idle(db, id, j) /\ d.job = db.job
  <2>1. d = [db EXCEPT !.active = a2]
    BY DEF Off
  <2>2. Idle(db, id, j) = [db EXCEPT !.job = h2, !.active = a2]
    BY DEF Idle
  <2> HIDE DEF a2, h2
  <2>3. [db EXCEPT !.job = h2, !.active = a2] = [db EXCEPT !.active = a2]
    BY <1>0, <1>2 DEF Keys
  <2>4. [db EXCEPT !.active = a2].job = db.job
    BY <1>0 DEF Keys
  <2> QED
    BY <2>1, <2>2, <2>3, <2>4
<1> HIDE DEF j
<1>4. /\ RightBut(d, id) /\ d.job[id] = j /\ OnlyAt(db.job, d.job, id)
      /\ SameRest(db, d)
  BY <1>1, <1>3, LeaveActiveIs
<1> QED
  BY <1>3, <1>4

=============================================================================
