-------------------------- MODULE OrchestrationProofs --------------------------
(***************************************************************************)
(* Theorems about Dag, MCDag and WorkflowEngine, for every definition and  *)
(* every number of replicas.                                               *)
(***************************************************************************)
EXTENDS WorkflowEngine, MCDag, FiniteSetTheorems, SequenceTheorems, TLAPS

--------------------------------------------------------------------------------
(***************************************************************************)
(* Induction over the natural numbers, for sets.                           *)
(***************************************************************************)

(* A set of natural numbers has a least element.                           *)
LEMMA Least ==
  ASSUME NEW T, T \subseteq Nat, T # {}
  PROVE  \E x \in T : \A y \in T : x <= y
<1>. DEFINE R == {ss \in Nat \X Nat : ss[1] < ss[2]}
<1>1. IsWellFoundedOn(R, Nat)
  BY NatLessThanWellFounded DEF OpToRel
<1>2. \A x, y \in Nat : <<y, x>> \in R <=> y < x
  OBVIOUS
<1>. HIDE DEF R
<1>3. PICK x \in T : \A y \in T : ~ (<<y, x>> \in R)
  BY <1>1, WFMin
<1>4. \A y \in T : ~ (y < x)
  BY <1>2, <1>3
<1>. QED  BY <1>3, <1>4

(* A set that has 0 and is closed under successor has every number.        *)
LEMMA Induct ==
  ASSUME NEW T, 0 \in T, \A n \in Nat : n \in T => n + 1 \in T
  PROVE  Nat \subseteq T
<1>1. SUFFICES ASSUME Nat \ T # {} PROVE FALSE
  OBVIOUS
<1>2. PICK m \in Nat \ T : \A y \in Nat \ T : m <= y
  BY <1>1, Least
<1>3. m # 0 /\ m - 1 \in Nat /\ m - 1 \in T
  BY <1>2
<1>. QED  BY <1>2, <1>3

--------------------------------------------------------------------------------
(***************************************************************************)
(* Steps in the order of the definition.                                   *)
(***************************************************************************)

Ascends(f) == \A j, k \in DOMAIN f : j < k => f[j] < f[k]

(* A finite set of natural numbers can be listed in ascending order.       *)
LEMMA AscendingExists ==
  ASSUME NEW P, P \subseteq Nat, IsFiniteSet(P)
  PROVE  \E f \in [1 .. Cardinality(P) -> P] : Ascends(f)
<1>. DEFINE Listed(S) == \E f \in [1 .. Cardinality(S) -> S] : Ascends(f)
            T == {n \in Nat : \A S \in SUBSET Nat :
                    IsFiniteSet(S) /\ Cardinality(S) = n => Listed(S)}
<1>1. 0 \in T
  <2>1. SUFFICES ASSUME NEW S \in SUBSET Nat, IsFiniteSet(S), Cardinality(S) = 0
                 PROVE  Listed(S)
    OBVIOUS
  <2>2. S = {} /\ 1 .. Cardinality(S) = {}
    BY <2>1, FS_EmptySet
  <2>3. [i \in {} |-> 0] \in [1 .. Cardinality(S) -> S] /\ Ascends([i \in {} |-> 0])
    BY <2>2 DEF Ascends
  <2>. QED  BY <2>3
<1>2. ASSUME NEW n \in Nat, n \in T  PROVE n + 1 \in T
  <2>1. SUFFICES ASSUME NEW S \in SUBSET Nat, IsFiniteSet(S), Cardinality(S) = n + 1
                 PROVE  Listed(S)
    OBVIOUS
  <2>2. S # {}
    BY <2>1, FS_EmptySet
  <2>3. PICK m \in S : \A y \in S : m <= y
    BY <2>2, Least
  <2>. DEFINE Q == S \ {m}
  <2>4. Q \in SUBSET Nat /\ IsFiniteSet(Q) /\ Cardinality(Q) = n
    <3>1. /\ IsFiniteSet(S \ {m})
          /\ Cardinality(S \ {m}) = IF m \in S THEN Cardinality(S) - 1 ELSE Cardinality(S)
      BY <2>1, FS_RemoveElement
    <3>. QED  BY <3>1, <2>1, <2>3
  <2>5. PICK g \in [1 .. n -> Q] : Ascends(g)
    BY <1>2, <2>4
  <2>. DEFINE f == [k \in 1 .. n + 1 |-> IF k = 1 THEN m ELSE g[k - 1]]
  <2>6. \A k \in 2 .. n + 1 : k - 1 \in 1 .. n /\ f[k] = g[k - 1] /\ g[k - 1] \in Q
    OBVIOUS
  <2>7. f[1] = m
    OBVIOUS
  <2>8. f \in [1 .. n + 1 -> S]
    <3>1. \A k \in 1 .. n + 1 : f[k] \in S
      BY <2>6, <2>7, \A k \in 1 .. n + 1 : k = 1 \/ k \in 2 .. n + 1
    <3>. QED  BY <3>1
  <2>9. ASSUME NEW j \in 1 .. n + 1, NEW k \in 1 .. n + 1, j < k  PROVE f[j] < f[k]
    <3>1. k \in 2 .. n + 1 /\ f[k] = g[k - 1] /\ f[k] \in Q
      BY <2>6, <2>9
    <3>2. CASE j = 1
      <4>1. f[k] \in S /\ f[k] # m /\ f[k] \in Nat /\ m \in Nat
        BY <3>1
      <4>. HIDE DEF f
      <4>2. m <= f[k]
        BY <4>1, <2>3
      <4>. QED  BY <4>1, <4>2, <3>2, <2>7
    <3>3. CASE j # 1
      <4>1. j \in 2 .. n + 1 /\ j - 1 < k - 1 /\ f[j] = g[j - 1]
        BY <3>3, <2>6, <2>9
      <4>2. j - 1 \in DOMAIN g /\ k - 1 \in DOMAIN g
        BY <3>1, <4>1
      <4>. QED  BY <3>1, <4>1, <4>2, <2>5 DEF Ascends
    <3>. QED  BY <3>2, <3>3
  <2>. HIDE DEF f
  <2>10. Ascends(f)
    BY <2>8, <2>9 DEF Ascends
  <2>. QED  BY <2>1, <2>8, <2>10
<1>. HIDE DEF T
<1>3. Nat \subseteq T
  BY <1>1, <1>2, Induct
<1>4. Cardinality(P) \in T
  BY <1>3, FS_CardinalityType
<1>. QED  BY <1>4 DEF T

(* InOrder lists every member of its set once.                             *)
LEMMA InOrderLists ==
  ASSUME NEW P, P \subseteq Nat, IsFiniteSet(P)
  PROVE  /\ InOrder(P) \in [1 .. Cardinality(P) -> P]
         /\ \A j, k \in 1 .. Cardinality(P) : InOrder(P)[j] = InOrder(P)[k] => j = k
         /\ \A p \in P : \E j \in 1 .. Cardinality(P) : InOrder(P)[j] = p
<1>. DEFINE N == Cardinality(P)
            f == InOrder(P)
<1>1. N \in Nat
  BY FS_CardinalityType
<1>2. f \in [1 .. N -> P] /\ Ascends(f)
  <2>1. \E g \in [1 .. Cardinality(P) -> P] : \A j, k \in DOMAIN g : j < k => g[j] < g[k]
    BY AscendingExists DEF Ascends
  <2>. QED  BY <2>1 DEF InOrder, Ascends
<1>. HIDE DEF f
<1>3. ASSUME NEW j \in 1 .. N, NEW k \in 1 .. N, f[j] = f[k]  PROVE j = k
  <2>1. f[j] \in Nat /\ f[k] \in Nat
    BY <1>2
  <2>2. (j < k => f[j] < f[k]) /\ (k < j => f[k] < f[j])
    BY <1>2 DEF Ascends
  <2>. QED  BY <2>1, <2>2, <1>1, <1>3
<1>4. f \in Injection(1 .. N, P)
  BY <1>2, <1>3 DEF Injection, IsInjective
<1>5. Cardinality(1 .. N) = N
  BY <1>1, FS_Interval
<1>6. f \in Surjection(1 .. N, P)
  BY <1>4, <1>5, FS_Injection
<1>7. \A p \in P : \E j \in 1 .. N : f[j] = p
  BY <1>6 DEF Surjection
<1>. QED  BY <1>2, <1>3, <1>7 DEF f

--------------------------------------------------------------------------------
(***************************************************************************)
(* Definitions, and the state of the loop of Kahn's algorithm.             *)
(***************************************************************************)

(* A definition names its steps apart, and depends on defined steps only.  *)
Definitions(S) == Seq([id : S, depends_on : Seq(S)])

Apart(D) == \A i, j \in DOMAIN D : D[i].id = D[j].id => i = j

Defined(D) == \A i \in DOMAIN D : \A j \in DOMAIN D[i].depends_on :
                D[i].depends_on[j] \in Ids(D)

DepsOf(D, n) == D[Position(D, n)].depends_on

(* The dependencies of a step that are not in a set of visited steps.      *)
Awaited(D, n, visited) == {j \in DOMAIN DepsOf(D, n) : DepsOf(D, n)[j] \notin visited}

LEMMA DefinitionShape ==
  ASSUME NEW S, NEW D \in Definitions(S)
  PROVE  /\ Len(D) \in Nat
         /\ DOMAIN D = 1 .. Len(D)
         /\ \A i \in DOMAIN D : D[i].id \in S /\ D[i].id \in Ids(D) /\ D[i].depends_on \in Seq(S)
         /\ Ids(D) \subseteq S
         /\ \A P \in SUBSET DOMAIN D : P \subseteq Nat /\ IsFiniteSet(P)
<1>1. Len(D) \in Nat /\ DOMAIN D = 1 .. Len(D) /\ D \in [1 .. Len(D) -> [id : S, depends_on : Seq(S)]]
  BY LenProperties DEF Definitions
<1>2. \A i \in DOMAIN D : D[i].id \in S /\ D[i].id \in Ids(D) /\ D[i].depends_on \in Seq(S)
  BY <1>1 DEF Ids
<1>3. Ids(D) \subseteq S
  BY <1>2 DEF Ids
<1>4. IsFiniteSet(1 .. Len(D))
  BY <1>1, FS_Interval
<1>5. \A P \in SUBSET DOMAIN D : P \subseteq Nat /\ IsFiniteSet(P)
  BY <1>1, <1>4, FS_Subset
<1>. QED  BY <1>1, <1>2, <1>3, <1>5

(* The names of the steps are as many as the steps just if they differ.    *)
LEMMA DuplicatesCounted ==
  ASSUME NEW S, NEW D \in Definitions(S)
  PROVE  /\ IsFiniteSet(Ids(D))
         /\ Cardinality(Ids(D)) \in Nat
         /\ ~DuplicateId(D) <=> Apart(D)
<1>. DEFINE f == [i \in 1 .. Len(D) |-> D[i].id]
<1>1. Len(D) \in Nat /\ DOMAIN D = 1 .. Len(D)
  BY DefinitionShape
<1>2. IsFiniteSet(1 .. Len(D)) /\ Cardinality(1 .. Len(D)) = Len(D)
  <2>1. Cardinality(1 .. Len(D)) = IF 1 > Len(D) THEN 0 ELSE Len(D) - 1 + 1
    BY <1>1, FS_Interval
  <2>. QED  BY <1>1, <2>1, FS_Interval
<1>3. f \in Surjection(1 .. Len(D), Ids(D))
  BY <1>1 DEF Surjection, Ids
<1>4. /\ IsFiniteSet(Ids(D))
      /\ Cardinality(Ids(D)) = Len(D) <=> f \in Injection(1 .. Len(D), Ids(D))
  <2>. HIDE DEF f
  <2>. QED  BY <1>2, <1>3, FS_Surjection
<1>5. f \in [1 .. Len(D) -> Ids(D)]
  BY <1>1 DEF Ids
<1>6. f \in Injection(1 .. Len(D), Ids(D)) <=> Apart(D)
  BY <1>1, <1>5 DEF Injection, IsInjective, Apart
<1>7. Cardinality(Ids(D)) \in Nat
  BY <1>4, FS_CardinalityType
<1>. QED  BY <1>4, <1>6, <1>7 DEF DuplicateId

LEMMA PositionFound ==
  ASSUME NEW D, NEW n \in Ids(D)
  PROVE  Position(D, n) \in DOMAIN D /\ D[Position(D, n)].id = n
<1>1. \E i \in DOMAIN D : D[i].id = n
  BY DEF Ids
<1>. QED  BY <1>1 DEF Position

LEMMA PositionOf ==
  ASSUME NEW D, Apart(D), NEW i \in DOMAIN D
  PROVE  D[i].id \in Ids(D) /\ Position(D, D[i].id) = i
<1>1. D[i].id \in Ids(D)
  BY DEF Ids
<1>. QED  BY <1>1, PositionFound DEF Apart

(* What a sequence lists once, and in what it is contained.                *)
Distinct(q) == \A i, j \in DOMAIN q : q[i] = q[j] => i = j

LEMMA StepsAtLists ==
  ASSUME NEW S, NEW D \in Definitions(S), Apart(D), NEW P, P \subseteq DOMAIN D
  PROVE  /\ StepsAt(D, P) \in Seq(Ids(D))
         /\ Distinct(StepsAt(D, P))
         /\ Range(StepsAt(D, P)) = {D[i].id : i \in P}
<1>. DEFINE N == Cardinality(P)
            g == InOrder(P)
            q == StepsAt(D, P)
<1>1. P \subseteq Nat /\ IsFiniteSet(P)
  BY DefinitionShape
<1>2. /\ N \in Nat
      /\ g \in [1 .. N -> P]
      /\ \A j, k \in 1 .. N : g[j] = g[k] => j = k
      /\ \A p \in P : \E j \in 1 .. N : g[j] = p
  BY <1>1, FS_CardinalityType, InOrderLists
<1>. HIDE DEF g
<1>3. q = [j \in 1 .. N |-> D[g[j]].id]
  BY DEF StepsAt, g
<1>. HIDE DEF q
<1>4. \A j \in 1 .. N : g[j] \in DOMAIN D /\ D[g[j]].id \in Ids(D)
  BY <1>2 DEF Ids
<1>5. q \in Seq(Ids(D))
  BY <1>2, <1>3, <1>4
<1>6. Distinct(q)
  BY <1>2, <1>3, <1>4 DEF Distinct, Apart
<1>7. Range(q) = {D[i].id : i \in P}
  BY <1>2, <1>3 DEF Range
<1>. QED  BY <1>5, <1>6, <1>7 DEF q

LEMMA RangeOfConcat ==
  ASSUME NEW S, NEW q \in Seq(S), NEW r \in Seq(S)
  PROVE  Range(q \o r) = Range(q) \cup Range(r)
<1>. DEFINE t == q \o r
<1>1. /\ Len(q) \in Nat /\ Len(r) \in Nat
      /\ DOMAIN q = 1 .. Len(q) /\ DOMAIN r = 1 .. Len(r) /\ DOMAIN t = 1 .. Len(q) + Len(r)
      /\ \A i \in 1 .. Len(q) + Len(r) : t[i] = IF i <= Len(q) THEN q[i] ELSE r[i - Len(q)]
  BY ConcatProperties, LenProperties
<1>. HIDE DEF t
<1>2. \A i \in DOMAIN q : i \in DOMAIN t /\ t[i] = q[i]
  BY <1>1
<1>3. \A i \in DOMAIN r : Len(q) + i \in DOMAIN t /\ t[Len(q) + i] = r[i]
  BY <1>1
<1>4. \A i \in DOMAIN t : (i \in DOMAIN q /\ t[i] = q[i]) \/ (i - Len(q) \in DOMAIN r /\ t[i] = r[i - Len(q)])
  BY <1>1
<1>5. \A x \in Range(t) : x \in Range(q) \/ x \in Range(r)
  BY <1>4 DEF Range
<1>6. \A x \in Range(q) : x \in Range(t)
  BY <1>2 DEF Range
<1>7. \A x \in Range(r) : x \in Range(t)
  BY <1>3 DEF Range
<1>. QED  BY <1>5, <1>6, <1>7 DEF t

LEMMA DistinctConcat ==
  ASSUME NEW S, NEW q \in Seq(S), NEW r \in Seq(S),
         Distinct(q), Distinct(r), Range(q) \cap Range(r) = {}
  PROVE  Distinct(q \o r)
<1>. DEFINE t == q \o r
<1>1. /\ Len(q) \in Nat /\ Len(r) \in Nat
      /\ DOMAIN q = 1 .. Len(q) /\ DOMAIN r = 1 .. Len(r) /\ DOMAIN t = 1 .. Len(q) + Len(r)
      /\ \A i \in 1 .. Len(q) + Len(r) : t[i] = IF i <= Len(q) THEN q[i] ELSE r[i - Len(q)]
  BY ConcatProperties, LenProperties
<1>. HIDE DEF t
<1>2. \A i \in DOMAIN t : (i \in DOMAIN q /\ t[i] = q[i]) \/ (i - Len(q) \in DOMAIN r /\ t[i] = r[i - Len(q)])
  BY <1>1
<1>3. \A i \in DOMAIN q, j \in DOMAIN r : q[i] # r[j]
  BY DEF Range
<1>4. ASSUME NEW i \in DOMAIN t, NEW j \in DOMAIN t, t[i] = t[j]  PROVE i = j
  <2>1. i \in Nat /\ j \in Nat
    BY <1>1
  <2>2. CASE i \in DOMAIN q /\ t[i] = q[i] /\ j \in DOMAIN q /\ t[j] = q[j]
    BY <2>2, <1>4 DEF Distinct
  <2>3. CASE i - Len(q) \in DOMAIN r /\ t[i] = r[i - Len(q)] /\ j - Len(q) \in DOMAIN r /\ t[j] = r[j - Len(q)]
    <3>1. i - Len(q) = j - Len(q)
      BY <2>3, <1>4 DEF Distinct
    <3>. QED  BY <3>1, <2>1, <1>1
  <2>. QED  BY <2>2, <2>3, <1>2, <1>3, <1>4
<1>. QED  BY <1>4 DEF Distinct, t

LEMMA ConcatShape ==
  ASSUME NEW S, NEW q \in Seq(S), NEW r \in Seq(S)
  PROVE  /\ Len(q) \in Nat /\ Len(r) \in Nat
         /\ q \o r \in Seq(S)
         /\ Len(q \o r) = Len(q) + Len(r)
         /\ DOMAIN (q \o r) = 1 .. Len(q) + Len(r)
         /\ \A i \in 1 .. Len(q) : (q \o r)[i] = q[i]
         /\ \A i \in Len(q) + 1 .. Len(q) + Len(r) : (q \o r)[i] = r[i - Len(q)]
  BY ConcatProperties, LenProperties

(* A visit takes the first of the queue to the end of the order.           *)
LEMMA Moved ==
  ASSUME NEW S, NEW o \in Seq(S), NEW q \in Seq(S), q # <<>>
  PROVE  /\ Head(q) \in S /\ Tail(q) \in Seq(S) /\ Append(o, Head(q)) \in Seq(S)
         /\ Len(Append(o, Head(q))) = Len(o) + 1
         /\ Len(o) + 1 <= Len(o \o q)
         /\ Append(o, Head(q)) \o Tail(q) = o \o q
         /\ Range(Append(o, Head(q))) = Range(o) \cup {Head(q)}
         /\ Head(q) \in Range(q)
<1>1. Head(q) \in S /\ Tail(q) \in Seq(S) /\ Append(o, Head(q)) \in Seq(S)
  BY HeadTailProperties, AppendProperties
<1>2. Append(o, Head(q)) = o \o <<Head(q)>> /\ q = <<Head(q)>> \o Tail(q)
  <2>1. Append(o, Head(q)) = o \o <<Head(q)>>
    BY <1>1, AppendIsConcat
  <2>2. q = <<Head(q)>> \o Tail(q)
    OBVIOUS
  <2>. QED  BY <2>1, <2>2
<1>3. <<Head(q)>> \in Seq(S)
  BY <1>1
<1>4. Append(o, Head(q)) \o Tail(q) = o \o q
  <2>1. (o \o <<Head(q)>>) \o Tail(q) = o \o (<<Head(q)>> \o Tail(q))
    BY <1>1, <1>3, ConcatAssociative
  <2>. QED  BY <2>1, <1>2
<1>5. Range(Append(o, Head(q))) = Range(o) \cup {Head(q)}
  <2>1. Range(o \o <<Head(q)>>) = Range(o) \cup Range(<<Head(q)>>)
    BY <1>3, RangeOfConcat
  <2>2. Range(<<Head(q)>>) = {Head(q)}
    BY DEF Range
  <2>. QED  BY <2>1, <2>2, <1>2
<1>6. Len(Append(o, Head(q))) = Len(o) + 1
  BY <1>1, AppendProperties
<1>7. Len(q) \in Nat \ {0} /\ DOMAIN q = 1 .. Len(q) /\ Head(q) = q[1]
  BY EmptySeq, LenProperties
<1>8. Head(q) \in Range(q)
  BY <1>7 DEF Range
<1>9. Len(o) + 1 <= Len(o \o q)
  BY <1>7, LenProperties, ConcatProperties
<1>. QED  BY <1>1, <1>4, <1>5, <1>6, <1>8, <1>9

--------------------------------------------------------------------------------
(***************************************************************************)
(* Kahn's algorithm.  Its loop counts, for each step, the mentions of      *)
(* dependencies that have not been visited; a step is in line, ordered or  *)
(* queued, once none is left; and so its dependencies are ordered before.  *)
(***************************************************************************)

Line(s) == s.order \o s.queue

LineType(D, s) ==
  /\ s.queue  \in Seq(Ids(D))
  /\ s.order  \in Seq(Ids(D))
  /\ s.degree \in [Ids(D) -> Nat]

DegreesCount(D, s) ==
  \A n \in Ids(D) : s.degree[n] = Cardinality(Awaited(D, n, Range(s.order)))

ZeroInLine(D, s) == \A n \in Ids(D) : s.degree[n] = 0 <=> n \in Range(Line(s))

DepsBefore(D, s) ==
  \A p \in 1 .. Len(Line(s)) : \A j \in DOMAIN DepsOf(D, Line(s)[p]) :
    \E q \in 1 .. Len(s.order) : q < p /\ Line(s)[q] = DepsOf(D, Line(s)[p])[j]

KahnInv(D, s) ==
  LineType(D, s) /\ Distinct(Line(s)) /\ DegreesCount(D, s) /\ ZeroInLine(D, s) /\ DepsBefore(D, s)

LEMMA DepsType ==
  ASSUME NEW S, NEW D \in Definitions(S), NEW n \in Ids(D)
  PROVE  /\ DepsOf(D, n) \in Seq(S)
         /\ Len(DepsOf(D, n)) \in Nat
         /\ DOMAIN DepsOf(D, n) = 1 .. Len(DepsOf(D, n))
         /\ IsFiniteSet(DOMAIN DepsOf(D, n))
         /\ Cardinality(DOMAIN DepsOf(D, n)) = Len(DepsOf(D, n))
<1>1. DepsOf(D, n) \in Seq(S)
  BY DefinitionShape, PositionFound DEF DepsOf
<1>2. Len(DepsOf(D, n)) \in Nat /\ DOMAIN DepsOf(D, n) = 1 .. Len(DepsOf(D, n))
  BY <1>1, LenProperties
<1>3. IsFiniteSet(1 .. Len(DepsOf(D, n)))
  BY <1>2, FS_Interval
<1>4. Cardinality(1 .. Len(DepsOf(D, n))) = Len(DepsOf(D, n))
  <2>1. Cardinality(1 .. Len(DepsOf(D, n))) =
          IF 1 > Len(DepsOf(D, n)) THEN 0 ELSE Len(DepsOf(D, n)) - 1 + 1
    BY <1>2, FS_Interval
  <2>. QED  BY <1>2, <2>1
<1>. QED  BY <1>1, <1>2, <1>3, <1>4

LEMMA AwaitedCount ==
  ASSUME NEW S, NEW D \in Definitions(S), NEW n \in Ids(D), NEW V
  PROVE  /\ Cardinality(Awaited(D, n, V)) \in Nat
         /\ Cardinality(Awaited(D, n, V)) = 0 <=> \A j \in DOMAIN DepsOf(D, n) : DepsOf(D, n)[j] \in V
<1>1. IsFiniteSet(Awaited(D, n, V))
  BY DepsType, FS_Subset DEF Awaited
<1>2. Cardinality(Awaited(D, n, V)) \in Nat
  BY <1>1, FS_CardinalityType
<1>3. Cardinality(Awaited(D, n, V)) = 0 <=> Awaited(D, n, V) = {}
  BY <1>1, FS_EmptySet
<1>4. Awaited(D, n, V) = {} <=> \A j \in DOMAIN DepsOf(D, n) : DepsOf(D, n)[j] \in V
  BY DEF Awaited
<1>. QED  BY <1>2, <1>3, <1>4

(* Visiting a step takes its mentions off what the others await.           *)
LEMMA AwaitedLess ==
  ASSUME NEW S, NEW D \in Definitions(S), NEW n \in Ids(D), NEW V, NEW v, v \notin V
  PROVE  /\ Mentions(D, Position(D, n), v) \in Nat
         /\ Mentions(D, Position(D, n), v) <= Cardinality(Awaited(D, n, V))
         /\ Cardinality(Awaited(D, n, V \cup {v})) =
              Cardinality(Awaited(D, n, V)) - Mentions(D, Position(D, n), v)
<1>. DEFINE A == Awaited(D, n, V)
            M == {j \in DOMAIN DepsOf(D, n) : DepsOf(D, n)[j] = v}
<1>1. IsFiniteSet(A)
  BY DepsType, FS_Subset DEF Awaited
<1>2. M \subseteq A /\ Awaited(D, n, V \cup {v}) = A \ M
  BY DEF Awaited
<1>3. Mentions(D, Position(D, n), v) = Cardinality(M)
  BY DEF Mentions, DepsOf
<1>4. IsFiniteSet(M) /\ Cardinality(M) \in Nat /\ Cardinality(M) <= Cardinality(A)
  BY <1>1, <1>2, FS_Subset, FS_CardinalityType
<1>5. Cardinality(A \ M) = Cardinality(A) - Cardinality(A \cap M)
  BY <1>1, FS_Difference
<1>6. A \cap M = M
  BY <1>2
<1>. QED  BY <1>2, <1>3, <1>4, <1>5, <1>6

LEMMA KahnStart ==
  ASSUME NEW S, NEW D \in Definitions(S), Apart(D)
  PROVE  KahnInv(D, Start(D)) /\ Start(D).order = <<>>
<1>. DEFINE s == Start(D)
            q == StepsAt(D, Roots(D, InDegree(D)))
<1>1. s.queue = q /\ s.order = <<>> /\ s.degree = InDegree(D)
  BY DEF Start
<1>2. \A n \in Ids(D) : InDegree(D)[n] = Len(DepsOf(D, n)) /\ InDegree(D)[n] \in Nat
  BY DepsType DEF InDegree, DepsOf
<1>3. InDegree(D) \in [Ids(D) -> Nat]
  BY <1>2 DEF InDegree
<1>4. Roots(D, InDegree(D)) \subseteq DOMAIN D
  BY DEF Roots
<1>5. /\ q \in Seq(Ids(D)) /\ Distinct(q)
      /\ Range(q) = {D[i].id : i \in Roots(D, InDegree(D))}
  BY <1>4, StepsAtLists
<1>. HIDE DEF s, q
<1>6. Line(s) = q
  BY <1>1, <1>5, ConcatEmptySeq DEF Line
<1>7. LineType(D, s)
  BY <1>1, <1>3, <1>5 DEF LineType
<1>8. Distinct(Line(s))
  BY <1>5, <1>6
<1>9. DegreesCount(D, s)
  <2>1. SUFFICES ASSUME NEW n \in Ids(D)
                 PROVE  s.degree[n] = Cardinality(Awaited(D, n, Range(s.order)))
    BY DEF DegreesCount
  <2>2. Range(s.order) = {}
    BY <1>1 DEF Range
  <2>3. Awaited(D, n, Range(s.order)) = DOMAIN DepsOf(D, n)
    BY <2>2 DEF Awaited
  <2>. QED  BY <2>3, <1>1, <1>2, DepsType
<1>10. ZeroInLine(D, s)
  <2>1. SUFFICES ASSUME NEW n \in Ids(D)
                 PROVE  s.degree[n] = 0 <=> n \in Range(q)
    BY <1>6 DEF ZeroInLine
  <2>2. Position(D, n) \in DOMAIN D /\ D[Position(D, n)].id = n
    BY PositionFound
  <2>. QED  BY <2>2, <1>1, <1>5 DEF Roots
<1>11. DepsBefore(D, s)
  <2>1. SUFFICES ASSUME NEW p \in 1 .. Len(q), NEW j \in DOMAIN DepsOf(D, q[p])
                 PROVE  FALSE
    BY <1>6 DEF DepsBefore
  <2>2. q[p] \in Ids(D) /\ q[p] \in Range(q)
    BY <1>5, LenProperties DEF Range
  <2>3. s.degree[q[p]] = 0
    BY <2>2, <1>6, <1>10 DEF ZeroInLine
  <2>4. Len(DepsOf(D, q[p])) = 0
    BY <2>2, <2>3, <1>1, <1>2
  <2>. QED  BY <2>1, <2>2, <2>4, DepsType
<1>. QED  BY <1>1, <1>7, <1>8, <1>9, <1>10, <1>11 DEF KahnInv, s

LEMMA KahnVisit ==
  ASSUME NEW S, NEW D \in Definitions(S), Apart(D), NEW s, KahnInv(D, s), s.queue # <<>>
  PROVE  /\ KahnInv(D, Visit(D, s))
         /\ Len(Visit(D, s).order) = Len(s.order) + 1
<1>. DEFINE node  == Head(s.queue)
            freed == Released(D, s.degree, node)
            new   == StepsAt(D, freed)
            t     == Visit(D, s)
            Less(n) == Mentions(D, Position(D, n), node)
<1>1. /\ t.queue = Tail(s.queue) \o new
      /\ t.degree = [n \in Ids(D) |-> s.degree[n] - Less(n)]
      /\ t.order = Append(s.order, node)
  BY DEF Visit
<1>2. s.queue \in Seq(Ids(D)) /\ s.order \in Seq(Ids(D)) /\ s.degree \in [Ids(D) -> Nat]
  BY DEF KahnInv, LineType
<1>3. /\ node \in Ids(D) /\ Tail(s.queue) \in Seq(Ids(D)) /\ t.order \in Seq(Ids(D))
      /\ Len(t.order) = Len(s.order) + 1
      /\ Len(s.order) + 1 <= Len(Line(s))
      /\ t.order \o Tail(s.queue) = Line(s)
      /\ Range(t.order) = Range(s.order) \cup {node}
      /\ node \in Range(s.queue)
  <2>1. t.order = Append(s.order, node)
    BY <1>1
  <2>2. /\ node \in Ids(D) /\ Tail(s.queue) \in Seq(Ids(D))
        /\ Append(s.order, node) \in Seq(Ids(D))
        /\ Len(Append(s.order, node)) = Len(s.order) + 1
        /\ Len(s.order) + 1 <= Len(s.order \o s.queue)
        /\ Append(s.order, node) \o Tail(s.queue) = s.order \o s.queue
        /\ Range(Append(s.order, node)) = Range(s.order) \cup {node}
        /\ node \in Range(s.queue)
    BY <1>2, Moved
  <2>. HIDE DEF node, t
  <2>. QED  BY <2>1, <2>2 DEF Line
<1>4. freed \subseteq DOMAIN D
  BY DEF Released
<1>5. new \in Seq(Ids(D)) /\ Distinct(new) /\ Range(new) = {D[i].id : i \in freed}
  BY <1>4, StepsAtLists
<1>6. freed = {i \in DOMAIN D : Mentions(D, i, node) > 0 /\ s.degree[D[i].id] = Mentions(D, i, node)}
  BY DEF Released
<1>. DEFINE o == s.order
            q == s.queue
            u == t.order
            r == Tail(s.queue)
            line == Line(s)
<1>. HIDE DEF t, node, freed, new, Less, o, q, u, r, line
<1>a. /\ o \in Seq(Ids(D)) /\ q \in Seq(Ids(D)) /\ u \in Seq(Ids(D)) /\ r \in Seq(Ids(D))
      /\ node = Head(q) /\ q # <<>>
      /\ Len(u) = Len(o) + 1 /\ Len(u) <= Len(line)
      /\ line = o \o q /\ line = u \o r
      /\ Range(u) = Range(o) \cup {node}
      /\ node \in Ids(D)
  <2>1. node = Head(q) /\ q # <<>>
    BY DEF node, q
  <2>2. line = o \o q /\ line = u \o r
    BY <1>3 DEF Line, line, o, q, u, r
  <2>. QED  BY <1>2, <1>3, <2>1, <2>2 DEF o, q, u, r, line
<1>7. line \in Seq(Ids(D)) /\ Distinct(line)
  BY <1>a, ConcatProperties DEF KahnInv, line
<1>8. node \notin Range(o)
  <2>1. q[1] = node /\ Len(q) \in Nat \ {0}
    BY <1>a, EmptySeq, LenProperties
  <2>2. /\ Len(o) \in Nat
        /\ DOMAIN line = 1 .. Len(o) + Len(q)
        /\ \A i \in 1 .. Len(o) : line[i] = o[i]
        /\ \A i \in Len(o) + 1 .. Len(o) + Len(q) : line[i] = q[i - Len(o)]
    <3>1. o \in Seq(Ids(D)) /\ q \in Seq(Ids(D)) /\ line = o \o q
      BY <1>a
    <3>. QED  BY <3>1, ConcatShape
  <2>3. line[Len(o) + 1] = node /\ Len(o) + 1 \in DOMAIN line
    BY <2>1, <2>2
  <2>4. ASSUME NEW i \in 1 .. Len(o)  PROVE o[i] # node
    <3>1. i \in DOMAIN line /\ line[i] = o[i] /\ i # Len(o) + 1
      BY <2>1, <2>2
    <3>. QED  BY <3>1, <2>3, <1>7 DEF Distinct
  <2>. QED  BY <2>4, <1>a, LenProperties DEF Range
<1>9. Line(t) = line \o new
  <2>1. (u \o r) \o new = u \o (r \o new)
    <3>1. u \in Seq(Ids(D)) /\ r \in Seq(Ids(D)) /\ new \in Seq(Ids(D))
      BY <1>a, <1>5
    <3>. QED  BY <3>1, ConcatAssociative
  <2>. QED  BY <2>1, <1>1, <1>a DEF Line, u, r
<1>10. \A n \in Ids(D) :
         /\ Less(n) \in Nat /\ Less(n) <= s.degree[n]
         /\ t.degree[n] = s.degree[n] - Less(n)
         /\ t.degree[n] = Cardinality(Awaited(D, n, Range(t.order)))
         /\ t.degree[n] \in Nat
  <2>1. SUFFICES ASSUME NEW n \in Ids(D)
                 PROVE  /\ Less(n) \in Nat /\ Less(n) <= s.degree[n]
                        /\ t.degree[n] = s.degree[n] - Less(n)
                        /\ t.degree[n] = Cardinality(Awaited(D, n, Range(t.order)))
                        /\ t.degree[n] \in Nat
    OBVIOUS
  <2>2. s.degree[n] = Cardinality(Awaited(D, n, Range(s.order))) /\ s.degree[n] \in Nat
    BY <1>2 DEF KahnInv, DegreesCount
  <2>3. /\ Less(n) \in Nat /\ Less(n) <= Cardinality(Awaited(D, n, Range(s.order)))
        /\ Cardinality(Awaited(D, n, Range(s.order) \cup {node})) =
             Cardinality(Awaited(D, n, Range(s.order))) - Less(n)
    BY <1>8, AwaitedLess DEF Less, o
  <2>4. t.degree[n] = s.degree[n] - Less(n)
    BY <1>1 DEF Less
  <2>. QED  BY <2>2, <2>3, <2>4, <1>3
<1>11. \A n \in Ids(D) : n \in Range(new) <=> s.degree[n] # 0 /\ t.degree[n] = 0
  <2>1. SUFFICES ASSUME NEW n \in Ids(D)
                 PROVE  n \in Range(new) <=> s.degree[n] # 0 /\ t.degree[n] = 0
    OBVIOUS
  <2>2. Position(D, n) \in DOMAIN D /\ D[Position(D, n)].id = n
    BY PositionFound
  <2>3. n \in Range(new) <=> Position(D, n) \in freed
    BY <2>2, <1>5, <1>4 DEF Apart
  <2>4. Position(D, n) \in freed <=> Less(n) > 0 /\ s.degree[n] = Less(n)
    BY <2>2, <1>6 DEF Less
  <2>5. Less(n) \in Nat /\ t.degree[n] = s.degree[n] - Less(n) /\ s.degree[n] \in Nat
    BY <1>2, <1>10
  <2>. QED  BY <2>3, <2>4, <2>5
<1>12. LineType(D, t)
  <2>1. t.queue \in Seq(Ids(D))
    BY <1>1, <1>3, <1>5, ConcatProperties
  <2>2. t.degree \in [Ids(D) -> Nat]
    BY <1>1, <1>10 DEF Less
  <2>. QED  BY <2>1, <2>2, <1>3 DEF LineType
<1>13. Distinct(Line(t))
  <2>1. \A n \in Ids(D) : n \in Range(new) => n \notin Range(line)
    BY <1>11 DEF KahnInv, ZeroInLine, line
  <2>2. Range(new) \subseteq Ids(D)
    BY <1>4, <1>5 DEF Ids
  <2>. QED  BY <2>1, <2>2, <1>5, <1>7, <1>9, DistinctConcat
<1>14. DegreesCount(D, t)
  BY <1>10 DEF DegreesCount
<1>15. ZeroInLine(D, t)
  <2>1. SUFFICES ASSUME NEW n \in Ids(D)
                 PROVE  t.degree[n] = 0 <=> n \in Range(Line(t))
    BY DEF ZeroInLine
  <2>2. Range(Line(t)) = Range(line) \cup Range(new)
    BY <1>5, <1>7, <1>9, RangeOfConcat
  <2>3. s.degree[n] = 0 <=> n \in Range(line)
    BY DEF KahnInv, ZeroInLine, line
  <2>4. s.degree[n] = 0 => t.degree[n] = 0
    <3>1. Less(n) \in Nat /\ Less(n) <= s.degree[n] /\ t.degree[n] = s.degree[n] - Less(n)
      BY <1>10
    <3>. QED  BY <3>1
  <2>. QED  BY <2>2, <2>3, <2>4, <1>11
<1>16. DepsBefore(D, t)
  <2>. DEFINE w == Line(t)
  <2>1. SUFFICES ASSUME NEW p \in 1 .. Len(w), NEW j \in DOMAIN DepsOf(D, w[p])
                 PROVE  \E k \in 1 .. Len(u) : k < p /\ w[k] = DepsOf(D, w[p])[j]
    BY DEF DepsBefore, u
  <2>. HIDE DEF w
  <2>2. /\ Len(line) \in Nat /\ Len(new) \in Nat /\ Len(o) \in Nat
        /\ Len(w) = Len(line) + Len(new)
        /\ \A i \in 1 .. Len(line) : w[i] = line[i]
        /\ \A i \in Len(line) + 1 .. Len(line) + Len(new) : w[i] = new[i - Len(line)]
    <3>1. line \in Seq(Ids(D)) /\ new \in Seq(Ids(D)) /\ w = line \o new
      BY <1>5, <1>7, <1>9 DEF w
    <3>2. Len(o) \in Nat
      BY <1>a, LenProperties
    <3>. QED  BY <3>1, <3>2, ConcatShape
  <2>3. CASE p <= Len(line)
    <3>1. p \in 1 .. Len(line) /\ w[p] = line[p]
      BY <2>2, <2>3
    <3>2. PICK k \in 1 .. Len(o) : k < p /\ line[k] = DepsOf(D, line[p])[j]
      BY <2>1, <3>1 DEF KahnInv, DepsBefore, line, o
    <3>3. k \in 1 .. Len(u) /\ w[k] = line[k]
      BY <2>2, <1>a
    <3>. QED  BY <3>1, <3>2, <3>3
  <2>4. CASE p > Len(line)
    <3>1. p - Len(line) \in DOMAIN new /\ w[p] = new[p - Len(line)]
      BY <2>2, <2>4, <1>5, LenProperties
    <3>2. w[p] \in Range(new) /\ w[p] \in Ids(D)
      BY <3>1, <1>4, <1>5 DEF Range, Ids
    <3>3. Cardinality(Awaited(D, w[p], Range(u))) = 0
      BY <3>2, <1>10, <1>11 DEF u
    <3>4. DepsOf(D, w[p])[j] \in Range(u)
      BY <3>2, <3>3, <2>1, AwaitedCount
    <3>5. PICK k \in 1 .. Len(u) : u[k] = DepsOf(D, w[p])[j]
      BY <3>4, <1>a, LenProperties DEF Range
    <3>6. k <= Len(line) /\ w[k] = line[k]
      BY <1>a, <2>2
    <3>7. line[k] = u[k]
      BY <1>a, ConcatShape
    <3>. QED  BY <2>4, <3>5, <3>6, <3>7, <2>2
  <2>. QED  BY <2>1, <2>2, <2>3, <2>4
<1>. QED  BY <1>3, <1>12, <1>13, <1>14, <1>15, <1>16 DEF KahnInv, t

(* The recursive function Turns is well defined: it unfolds as written.    *)
LEMMA TurnsUnfold ==
  ASSUME NEW D, Len(D) \in Nat
  PROVE  \A k \in 0 .. Len(D) :
           Turns(D)[k] = IF k = 0 THEN Start(D) ELSE Loop(D, Turns(D)[k - 1])
<1>. DEFINE Unfolds(f, m) == f = [k \in 0 .. m |-> IF k = 0 THEN Start(D) ELSE Loop(D, f[k - 1])]
            T == {m \in Nat : \E f : Unfolds(f, m)}
<1>1. 0 \in T
  <2>. DEFINE f == [k \in 0 .. 0 |-> Start(D)]
  <2>1. Unfolds(f, 0)
    OBVIOUS
  <2>. QED  BY <2>1
<1>2. ASSUME NEW m \in Nat, m \in T  PROVE m + 1 \in T
  <2>1. PICK f : Unfolds(f, m)
    BY <1>2
  <2>. DEFINE g == [k \in 0 .. m + 1 |-> IF k <= m THEN f[k] ELSE Loop(D, f[m])]
  <2>2. \A k \in 0 .. m : g[k] = f[k] /\ f[k] = IF k = 0 THEN Start(D) ELSE Loop(D, f[k - 1])
    BY <2>1
  <2>3. \A k \in 1 .. m + 1 : g[k - 1] = f[k - 1]
    OBVIOUS
  <2>4. \A k \in 0 .. m + 1 : g[k] = IF k = 0 THEN Start(D) ELSE Loop(D, g[k - 1])
    <3>1. TAKE k \in 0 .. m + 1
    <3>2. CASE k = 0
      <4>1. 0 \in 0 .. m
        OBVIOUS
      <4>. QED  BY <2>2, <3>2, <4>1
    <3>3. CASE k \in 1 .. m
      <4>0. k \in 0 .. m /\ k # 0
        BY <3>3
      <4>1. g[k] = f[k] /\ f[k] = Loop(D, f[k - 1])
        BY <2>2, <4>0
      <4>2. g[k - 1] = f[k - 1]
        BY <2>3, <3>3
      <4>. HIDE DEF g
      <4>. QED  BY <4>0, <4>1, <4>2
    <3>4. CASE k = m + 1
      <4>1. g[m + 1] = Loop(D, f[m]) /\ m + 1 # 0 /\ g[m] = f[m] /\ (m + 1) - 1 = m
        OBVIOUS
      <4>. HIDE DEF g
      <4>. QED  BY <4>1, <3>4
    <3>. QED  BY <3>2, <3>3, <3>4
  <2>5. g = [k \in 0 .. m + 1 |-> g[k]]
    OBVIOUS
  <2>. HIDE DEF g
  <2>6. Unfolds(g, m + 1)
    BY <2>4, <2>5
  <2>. QED  BY <2>6
<1>. HIDE DEF T
<1>3. Len(D) \in T
  BY <1>1, <1>2, Induct
<1>4. \E f : Unfolds(f, Len(D))
  BY <1>3 DEF T
<1>5. Turns(D) = CHOOSE f : Unfolds(f, Len(D))
  BY DEF Turns
<1>6. Unfolds(Turns(D), Len(D))
  <2>. HIDE DEF Unfolds
  <2>. QED  BY <1>4, <1>5
<1>7. Turns(D) = [k \in 0 .. Len(D) |-> IF k = 0 THEN Start(D) ELSE Loop(D, Turns(D)[k - 1])]
  BY <1>6
<1>. QED  BY <1>7

(* A sequence without repetitions is no longer than the set it draws from. *)
LEMMA DistinctBound ==
  ASSUME NEW I, IsFiniteSet(I), NEW q \in Seq(I), Distinct(q)
  PROVE  /\ Len(q) \in Nat
         /\ Len(q) <= Cardinality(I)
         /\ Len(q) = Cardinality(I) <=> Range(q) = I
<1>1. Len(q) \in Nat /\ DOMAIN q = 1 .. Len(q) /\ q \in [1 .. Len(q) -> I]
  BY LenProperties
<1>2. Cardinality(1 .. Len(q)) = Len(q)
  <2>1. Cardinality(1 .. Len(q)) = IF 1 > Len(q) THEN 0 ELSE Len(q) - 1 + 1
    BY <1>1, FS_Interval
  <2>. QED  BY <1>1, <2>1
<1>3. q \in Injection(1 .. Len(q), I)
  BY <1>1 DEF Distinct, Injection, IsInjective
<1>4. Len(q) <= Cardinality(I) /\ (Len(q) = Cardinality(I) <=> q \in Surjection(1 .. Len(q), I))
  BY <1>2, <1>3, FS_Injection
<1>5. Range(q) \subseteq I
  BY <1>1 DEF Range
<1>6. q \in Surjection(1 .. Len(q), I) <=> Range(q) = I
  <2>1. ASSUME q \in Surjection(1 .. Len(q), I)  PROVE I \subseteq Range(q)
    BY <1>1, <2>1 DEF Surjection, Range
  <2>2. ASSUME Range(q) = I  PROVE q \in Surjection(1 .. Len(q), I)
    BY <1>1, <2>2 DEF Surjection, Range
  <2>. QED  BY <1>5, <2>1, <2>2
<1>. QED  BY <1>1, <1>4, <1>6

(* Every turn keeps the invariant; until the queue is empty, each visits a *)
(* step.                                                                   *)
LEMMA KahnTurns ==
  ASSUME NEW S, NEW D \in Definitions(S), Apart(D), NEW k \in 0 .. Len(D)
  PROVE  /\ KahnInv(D, Turns(D)[k])
         /\ Turns(D)[k].queue = <<>> \/ Len(Turns(D)[k].order) = k
<1>. DEFINE Good(i) == /\ KahnInv(D, Turns(D)[i])
                       /\ Turns(D)[i].queue = <<>> \/ Len(Turns(D)[i].order) = i
            T == {i \in Nat : i <= Len(D) => Good(i)}
<1>0. Len(D) \in Nat
  BY DefinitionShape
<1>1. 0 \in T
  <2>1. Turns(D)[0] = Start(D)
    BY <1>0, TurnsUnfold
  <2>. QED  BY <2>1, KahnStart
<1>2. ASSUME NEW i \in Nat, i \in T  PROVE i + 1 \in T
  <2>1. SUFFICES ASSUME i + 1 <= Len(D) PROVE Good(i + 1)
    OBVIOUS
  <2>2. Good(i)
    BY <1>0, <1>2, <2>1
  <2>3. Turns(D)[i + 1] = Loop(D, Turns(D)[i])
    <3>1. i + 1 \in 0 .. Len(D) /\ i + 1 # 0 /\ (i + 1) - 1 = i
      BY <1>0, <2>1
    <3>. QED  BY <1>0, <3>1, TurnsUnfold
  <2>4. CASE Turns(D)[i].queue = <<>>
    BY <2>2, <2>3, <2>4 DEF Loop
  <2>5. CASE Turns(D)[i].queue # <<>>
    <3>1. Turns(D)[i + 1] = Visit(D, Turns(D)[i]) /\ Len(Turns(D)[i].order) = i
      BY <2>2, <2>3, <2>5 DEF Loop
    <3>. QED  BY <3>1, <2>2, <2>5, KahnVisit
  <2>. QED  BY <2>4, <2>5
<1>. HIDE DEF T
<1>3. k \in T
  BY <1>1, <1>2, Induct
<1>. QED  BY <1>0, <1>3 DEF T

(* What the loop computes.  A step is ordered just if all it depends on    *)
(* is, and then after it.                                                  *)
LEMMA OrderComputed ==
  ASSUME NEW S, NEW D \in Definitions(S), Apart(D)
  PROVE  LET O == TopologicalOrder(D)
         IN  /\ O \in Seq(Ids(D))
             /\ Distinct(O)
             /\ \A n \in Ids(D) :
                  n \in Range(O) <=> \A j \in DOMAIN DepsOf(D, n) : DepsOf(D, n)[j] \in Range(O)
             /\ \A p \in 1 .. Len(O) : \A j \in DOMAIN DepsOf(D, O[p]) :
                  \E q \in 1 .. Len(O) : q < p /\ O[q] = DepsOf(D, O[p])[j]
             /\ Len(O) <= Cardinality(Ids(D))
             /\ Len(O) = Cardinality(Ids(D)) <=> Range(O) = Ids(D)
<1>. DEFINE s == Turns(D)[Len(D)]
            o == TopologicalOrder(D)
            q == s.queue
<1>0. Len(D) \in Nat /\ s.order = o
  BY DefinitionShape DEF TopologicalOrder
<1>1. KahnInv(D, s) /\ (q = <<>> \/ Len(o) = Len(D))
  BY <1>0, KahnTurns
<1>. HIDE DEF s, o
<1>2. o \in Seq(Ids(D)) /\ q \in Seq(Ids(D)) /\ Distinct(Line(s))
  BY <1>0, <1>1 DEF KahnInv, LineType
<1>3. q = <<>>
  <2>1. SUFFICES ASSUME q # <<>> PROVE FALSE
    OBVIOUS
  <2>2. Len(o) = Len(D) /\ Cardinality(Ids(D)) = Len(D)
    BY <1>1, <2>1, DuplicatesCounted DEF DuplicateId
  <2>3. Line(s) = o \o q
    BY <1>0 DEF Line
  <2>. HIDE DEF q
  <2>4. Len(q) \in Nat \ {0}
    BY <1>2, <2>1, EmptySeq
  <2>5. Len(Line(s)) = Len(o) + Len(q) /\ Line(s) \in Seq(Ids(D))
    BY <1>2, <2>3, ConcatShape
  <2>6. Len(Line(s)) <= Cardinality(Ids(D))
    BY <1>2, <2>5, DuplicatesCounted, DistinctBound
  <2>. QED  BY <1>0, <2>2, <2>4, <2>5, <2>6
<1>4. Line(s) = o
  BY <1>0, <1>2, <1>3, ConcatEmptySeq DEF Line
<1>5. \A n \in Ids(D) :
        n \in Range(o) <=> \A j \in DOMAIN DepsOf(D, n) : DepsOf(D, n)[j] \in Range(o)
  BY <1>0, <1>1, <1>4, AwaitedCount DEF KahnInv, DegreesCount, ZeroInLine
<1>6. \A p \in 1 .. Len(o) : \A j \in DOMAIN DepsOf(D, o[p]) :
        \E k \in 1 .. Len(o) : k < p /\ o[k] = DepsOf(D, o[p])[j]
  BY <1>0, <1>1, <1>4 DEF KahnInv, DepsBefore
<1>7. Len(o) <= Cardinality(Ids(D)) /\ (Len(o) = Cardinality(Ids(D)) <=> Range(o) = Ids(D))
  BY <1>2, <1>4, DuplicatesCounted, DistinctBound
<1>. QED  BY <1>2, <1>4, <1>5, <1>6, <1>7 DEF o

LEMMA DepsOfStep ==
  ASSUME NEW D, Apart(D), NEW i \in DOMAIN D
  PROVE  DepsOf(D, D[i].id) = D[i].depends_on
  BY PositionOf DEF DepsOf

LEMMA ValidMeans ==
  ASSUME NEW S, NEW D \in Definitions(S)
  PROVE  ValidateDag(D) = "valid" <=>
           Apart(D) /\ Defined(D) /\ Len(TopologicalOrder(D)) = Cardinality(Ids(D))
<1>1. ~DuplicateId(D) <=> Apart(D)
  BY DuplicatesCounted
<1>2. ~UndefinedStep(D) <=> Defined(D)
  BY DEF UndefinedStep, Defined, Range
<1>. QED  BY <1>1, <1>2 DEF ValidateDag

(* In the order of a valid definition, every step has one place, and its   *)
(* dependencies have earlier ones.                                         *)
LEMMA ValidOrder ==
  ASSUME NEW S, NEW D \in Definitions(S), ValidateDag(D) = "valid"
  PROVE  LET O == TopologicalOrder(D)
         IN  /\ O \in Seq(Ids(D)) /\ Len(O) = Cardinality(Ids(D)) /\ Len(O) = Len(D)
             /\ Distinct(O)
             /\ \A n \in Ids(D) : \E p \in 1 .. Len(O) : O[p] = n
             /\ \A p, q \in 1 .. Len(O) : \A i \in DOMAIN D : \A j \in DOMAIN D[i].depends_on :
                  O[p] = D[i].id /\ O[q] = D[i].depends_on[j] => q < p
<1>. DEFINE O == TopologicalOrder(D)
<1>1. Apart(D) /\ Defined(D) /\ Len(O) = Cardinality(Ids(D))
  BY ValidMeans
<1>2. /\ O \in Seq(Ids(D)) /\ Distinct(O) /\ Range(O) = Ids(D)
      /\ \A p \in 1 .. Len(O) : \A j \in DOMAIN DepsOf(D, O[p]) :
           \E q \in 1 .. Len(O) : q < p /\ O[q] = DepsOf(D, O[p])[j]
  BY <1>1, OrderComputed
<1>. HIDE DEF O
<1>3. Len(O) = Len(D)
  BY <1>1, DuplicatesCounted DEF DuplicateId
<1>4. Len(O) \in Nat /\ DOMAIN O = 1 .. Len(O)
  BY <1>2, LenProperties
<1>5. \A n \in Ids(D) : \E p \in 1 .. Len(O) : O[p] = n
  BY <1>2, <1>4 DEF Range
<1>6. ASSUME NEW p \in 1 .. Len(O), NEW q \in 1 .. Len(O),
             NEW i \in DOMAIN D, NEW j \in DOMAIN D[i].depends_on,
             O[p] = D[i].id, O[q] = D[i].depends_on[j]
      PROVE  q < p
  <2>1. DepsOf(D, O[p]) = D[i].depends_on
    BY <1>1, <1>6, DepsOfStep
  <2>2. PICK k \in 1 .. Len(O) : k < p /\ O[k] = DepsOf(D, O[p])[j]
    BY <1>2, <1>6, <2>1
  <2>3. k = q
    BY <1>2, <1>4, <1>6, <2>1, <2>2 DEF Distinct
  <2>. QED  BY <2>2, <2>3
<1>. QED  BY <1>1, <1>2, <1>3, <1>5, <1>6 DEF O

--------------------------------------------------------------------------------
(***************************************************************************)
(* create_workflow and the order of the steps, for every definition.       *)
(***************************************************************************)

DagTypeOK == tasks \in Definitions(StepIds)

LEMMA DagTyped == DagSpec => []DagTypeOK
<1>1. DagInit => DagTypeOK
  BY EmptySeq DEF DagInit, DagTypeOK, Definitions
<1>2. DagTypeOK /\ [DagNext]_tasks => DagTypeOK'
  <2>. SUFFICES ASSUME DagTypeOK, [DagNext]_tasks PROVE DagTypeOK'
    OBVIOUS
  <2>1. CASE AddStep
    <3>1. PICK n \in StepIds : tasks' = Append(tasks, [id |-> n, depends_on |-> <<>>])
      BY <2>1 DEF AddStep
    <3>2. [id |-> n, depends_on |-> <<>>] \in [id : StepIds, depends_on : Seq(StepIds)]
      BY EmptySeq
    <3>. QED  BY <3>1, <3>2, AppendProperties DEF DagTypeOK, Definitions
  <2>2. CASE AddDependency
    <3>1. PICK i \in DOMAIN tasks, d \in StepIds :
            tasks' = [tasks EXCEPT ![i].depends_on = Append(@, d)]
      BY <2>2 DEF AddDependency
    <3>2. i \in 1 .. Len(tasks) /\ tasks[i] \in [id : StepIds, depends_on : Seq(StepIds)]
      <4>1. /\ DOMAIN tasks = 1 .. Len(tasks)
            /\ tasks \in [1 .. Len(tasks) -> [id : StepIds, depends_on : Seq(StepIds)]]
        BY LenProperties DEF DagTypeOK, Definitions
      <4>2. i \in 1 .. Len(tasks)
        BY <4>1
      <4>. QED  BY <4>1, <4>2
    <3>3. Append(tasks[i].depends_on, d) \in Seq(StepIds)
      BY <3>2, AppendProperties
    <3>. DEFINE e == [tasks[i] EXCEPT !.depends_on = Append(tasks[i].depends_on, d)]
    <3>4. e \in [id : StepIds, depends_on : Seq(StepIds)]
      BY <3>2, <3>3
    <3>5. tasks' = [tasks EXCEPT ![i] = e]
      BY <3>1
    <3>. HIDE DEF e
    <3>. QED  BY <3>2, <3>4, <3>5, ExceptSeq DEF DagTypeOK, Definitions
  <2>3. CASE UNCHANGED tasks
    BY <2>3 DEF DagTypeOK
  <2>. QED  BY <2>1, <2>2, <2>3 DEF DagNext
<1>. QED  BY <1>1, <1>2, PTL DEF DagSpec

(* A valid definition has no cycle: the places in the order rank it.       *)
LEMMA ValidIsAcyclic ==
  ASSUME DagTypeOK, ValidateDag(tasks) = "valid"
  PROVE  Acyclic
<1>. DEFINE O == TopologicalOrder(tasks)
            place(n) == CHOOSE p \in 1 .. Len(O) : O[p] = n
            rank == [n \in StepIds |-> IF n \in Ids(tasks) THEN place(n) ELSE 1]
<1>1. /\ O \in Seq(Ids(tasks)) /\ Len(O) = Cardinality(Ids(tasks))
      /\ \A n \in Ids(tasks) : \E p \in 1 .. Len(O) : O[p] = n
      /\ \A p, q \in 1 .. Len(O) : \A i \in DOMAIN tasks : \A j \in DOMAIN tasks[i].depends_on :
           O[p] = tasks[i].id /\ O[q] = tasks[i].depends_on[j] => q < p
  BY ValidOrder DEF DagTypeOK
<1>2. Defined(tasks)
  BY ValidMeans DEF DagTypeOK
<1>3. \A i \in DOMAIN tasks : tasks[i].id \in Ids(tasks)
  BY DEF Ids
<1>4. /\ Ids(tasks) \subseteq StepIds
      /\ Len(O) <= Cardinality(StepIds) /\ Cardinality(StepIds) \in Nat /\ Len(O) \in Nat
  <2>1. Ids(tasks) \subseteq StepIds
    BY DefinitionShape DEF DagTypeOK
  <2>2. Cardinality(Ids(tasks)) <= Cardinality(StepIds)
    BY <2>1, FS_Subset, StepIdsAssumption
  <2>3. Cardinality(StepIds) \in Nat
    BY FS_CardinalityType, StepIdsAssumption
  <2>4. Len(O) \in Nat
    BY <1>1, LenProperties
  <2>. QED  BY <1>1, <2>1, <2>2, <2>3, <2>4
<1>. HIDE DEF O
<1>5. \A n \in Ids(tasks) : place(n) \in 1 .. Len(O) /\ O[place(n)] = n
  BY <1>1
<1>. HIDE DEF place
<1>6. rank \in [StepIds -> 1 .. Cardinality(StepIds)]
  <2>1. \A n \in StepIds : 1 \in 1 .. Cardinality(StepIds)
    BY <1>4, FS_EmptySet, StepIdsAssumption
  <2>2. \A n \in Ids(tasks) : place(n) \in 1 .. Cardinality(StepIds)
    BY <1>4, <1>5
  <2>. QED  BY <2>1, <2>2
<1>7. \A n \in Ids(tasks) : rank[n] = place(n)
  BY <1>4
<1>. HIDE DEF rank
<1>8. ASSUME NEW i \in DOMAIN tasks, NEW j \in DOMAIN tasks[i].depends_on
      PROVE  rank[tasks[i].depends_on[j]] < rank[tasks[i].id]
  <2>1. tasks[i].depends_on[j] \in Ids(tasks) /\ tasks[i].id \in Ids(tasks)
    BY <1>2, <1>3, <1>8 DEF Defined
  <2>. QED  BY <2>1, <1>1, <1>5, <1>7, <1>8
<1>. QED  BY <1>6, <1>8 DEF Acyclic

(* A definition without cycle is ordered in full: of the steps that are    *)
(* not, one of least rank would await none of them.                        *)
LEMMA AcyclicIsValid ==
  ASSUME DagTypeOK, Apart(tasks), Defined(tasks), Acyclic
  PROVE  ValidateDag(tasks) = "valid"
<1>. DEFINE O == TopologicalOrder(tasks)
            U == Ids(tasks) \ Range(O)
<1>1. PICK rank \in [StepIds -> 1 .. Cardinality(StepIds)] :
        \A i \in DOMAIN tasks : \A j \in DOMAIN tasks[i].depends_on :
          rank[tasks[i].depends_on[j]] < rank[tasks[i].id]
  BY DEF Acyclic
<1>2. /\ O \in Seq(Ids(tasks))
      /\ \A n \in Ids(tasks) :
           n \in Range(O) <=> \A j \in DOMAIN DepsOf(tasks, n) : DepsOf(tasks, n)[j] \in Range(O)
      /\ Len(O) = Cardinality(Ids(tasks)) <=> Range(O) = Ids(tasks)
  BY OrderComputed DEF DagTypeOK
<1>3. Ids(tasks) \subseteq StepIds /\ Cardinality(StepIds) \in Nat
  BY DefinitionShape, FS_CardinalityType, StepIdsAssumption DEF DagTypeOK
<1>. HIDE DEF O
<1>4. \A n \in U : rank[n] \in Nat
  BY <1>1, <1>3
<1>5. U = {}
  <2>1. SUFFICES ASSUME U # {} PROVE FALSE
    OBVIOUS
  <2>2. PICK r \in {rank[n] : n \in U} : \A x \in {rank[n] : n \in U} : r <= x
    <3>1. {rank[n] : n \in U} \subseteq Nat /\ {rank[n] : n \in U} # {}
      BY <1>4, <2>1
    <3>. QED  BY <3>1, Least
  <2>3. PICK n \in U : rank[n] = r
    BY <2>2
  <2>4. Position(tasks, n) \in DOMAIN tasks /\ tasks[Position(tasks, n)].id = n
    BY <2>3, PositionFound
  <2>5. ASSUME NEW j \in DOMAIN DepsOf(tasks, n)  PROVE DepsOf(tasks, n)[j] \in Range(O)
    <3>1. rank[DepsOf(tasks, n)[j]] < rank[n]
      BY <1>1, <2>4, <2>5 DEF DepsOf
    <3>2. DepsOf(tasks, n)[j] \in Ids(tasks)
      BY <2>4, <2>5 DEF Defined, DepsOf
    <3>3. ASSUME DepsOf(tasks, n)[j] \in U  PROVE FALSE
      <4>1. r <= rank[DepsOf(tasks, n)[j]] /\ rank[DepsOf(tasks, n)[j]] \in Nat /\ r \in Nat
        BY <2>2, <2>3, <3>3, <1>4
      <4>. QED  BY <3>1, <4>1, <2>3
    <3>. QED  BY <3>2, <3>3
  <2>6. n \in Range(O)
    BY <1>2, <2>3, <2>5
  <2>. QED  BY <2>3, <2>6
<1>6. Range(O) \subseteq Ids(tasks)
  BY <1>2, LenProperties DEF Range
<1>7. Len(O) = Cardinality(Ids(tasks))
  BY <1>2, <1>5, <1>6
<1>. QED  BY <1>7, ValidMeans DEF DagTypeOK, O

(* create_workflow accepts exactly the definitions that have a step, name  *)
(* their steps apart, depend on defined steps only and have no cycle,      *)
(* however many steps and dependencies they have.                          *)
THEOREM ValidationIsExact == DagSpec => []AcceptsExactlyDags
<1>1. DagTypeOK => AcceptsExactlyDags
  <2>1. SUFFICES ASSUME DagTypeOK PROVE AcceptsExactlyDags
    OBVIOUS
  <2>2. Apart(tasks) <=> \A i, j \in DOMAIN tasks : tasks[i].id = tasks[j].id => i = j
    BY DEF Apart
  <2>3. Defined(tasks) <=>
          \A i \in DOMAIN tasks : \A j \in DOMAIN tasks[i].depends_on :
            \E k \in DOMAIN tasks : tasks[k].id = tasks[i].depends_on[j]
    BY DEF Defined, Ids
  <2>4. ValidateDag(tasks) = "valid" => Apart(tasks) /\ Defined(tasks)
    BY <2>1, ValidMeans DEF DagTypeOK
  <2>. QED  BY <2>1, <2>2, <2>3, <2>4, ValidIsAcyclic, AcyclicIsValid DEF AcceptsExactlyDags, Accepted
<1>. QED  BY <1>1, DagTyped, PTL

(* The engine runs every step of an accepted definition once, after all    *)
(* its dependencies.                                                       *)
THEOREM OrdersAreTopological == DagSpec => []OrderIsTopological
<1>1. DagTypeOK => OrderIsTopological
  <2>1. SUFFICES ASSUME DagTypeOK, ValidateDag(tasks) = "valid" PROVE OrderIsTopological
    BY DEF OrderIsTopological, Accepted
  <2>. DEFINE O == TopologicalOrder(tasks)
              At(n) == {k \in DOMAIN O : O[k] = n}
  <2>2. /\ O \in Seq(Ids(tasks)) /\ Len(O) = Len(tasks) /\ Distinct(O)
        /\ \A n \in Ids(tasks) : \E p \in 1 .. Len(O) : O[p] = n
        /\ \A p, q \in 1 .. Len(O) : \A i \in DOMAIN tasks : \A j \in DOMAIN tasks[i].depends_on :
             O[p] = tasks[i].id /\ O[q] = tasks[i].depends_on[j] => q < p
    BY <2>1, ValidOrder DEF DagTypeOK
  <2>. HIDE DEF O
  <2>3. DOMAIN O = 1 .. Len(O)
    BY <2>2, LenProperties
  <2>4. ASSUME NEW i \in DOMAIN tasks  PROVE Cardinality(At(tasks[i].id)) = 1
    <3>1. PICK p \in 1 .. Len(O) : O[p] = tasks[i].id
      BY <2>2, <2>4 DEF Ids
    <3>2. At(tasks[i].id) = {p}
      BY <2>2, <2>3, <3>1 DEF Distinct
    <3>. QED  BY <3>2, FS_Singleton
  <2>5. ASSUME NEW i \in DOMAIN tasks, NEW j \in DOMAIN tasks[i].depends_on,
               NEW k \in At(tasks[i].depends_on[j]), NEW m \in At(tasks[i].id)
        PROVE  k < m
    BY <2>2, <2>3, <2>5
  <2>. QED  BY <2>2, <2>4, <2>5 DEF OrderIsTopological, O
<1>. QED  BY <1>1, DagTyped, PTL

--------------------------------------------------------------------------------
(***************************************************************************)
(* The engine.  One run is active at a time: the one that holds the row,   *)
(* or the one whose claim was committed; and of that run, the invariant    *)
(* says what it has sent and what it has settled.                          *)
(***************************************************************************)

IsActive(run) == run.pc \in {"running", "polling"}

(* The row is locked by a run that has claimed a pending workflow.         *)
LockHeld == lock # NoEngine => wf = "pending" /\ engine[lock].pc = "running"

(* A run is active on an uncommitted claim or on the committed one.        *)
OneRun ==
  \A e \in Engines : IsActive(engine[e]) =>
    \/ lock = e
    \/ lock = NoEngine /\ owner = e /\ wf \in {"running", "failed"}

(* Nothing of a run is durable before its claim is.                        *)
Fresh == wf = "pending" => step = Pending /\ \A n \in Nodes : sent[n] = 0

(* A run begins at the first step, and polls for one.                      *)
Placed(run) ==
  /\ run.pc = "waiting" => run.at = 1 /\ run.attempt = 0 /\ run.polls = 0
  /\ run.pc = "polling" => run.at <= Len(Order)

(* An active run has sent at most one task per attempt for the step at     *)
(* hand, and none for later ones.                                          *)
SentSoFar(run, tasksSent) ==
  \A i \in 1 .. Len(Order) :
    /\ i > run.at => tasksSent[Order[i]] = 0
    /\ i = run.at => tasksSent[Order[i]] <= run.attempt + (IF run.pc = "polling" THEN 1 ELSE 0)

(* It has settled the earlier ones.                                        *)
SettledSoFar(run) ==
  \A i \in 1 .. Len(Order) : i < run.at => run.view[Order[i]] # "pending"

RunOK(run, tasksSent) ==
  Placed(run) /\ (IsActive(run) => SentSoFar(run, tasksSent) /\ SettledSoFar(run))

EngineInv ==
  /\ TypeOK /\ LockHeld /\ OneRun /\ Fresh
  /\ \A e \in Engines : RunOK(engine[e], sent)
  /\ AttemptsBounded /\ OutcomeAgreesWithSteps

(* The steps of the workflow and the order of the run.                     *)
LEMMA OrderFacts ==
  /\ IsFiniteSet(Nodes) /\ Len(Order) \in Nat /\ Len(Order) = Cardinality(Nodes)
  /\ \A i \in 1 .. Len(Order) : Order[i] \in Nodes
  /\ \A i, j \in 1 .. Len(Order) : Order[i] = Order[j] => i = j
  /\ \A n \in Nodes : \E i \in 1 .. Len(Order) : Order[i] = n
<1>1. Definition \in Definitions(Nodes) /\ ValidateDag(Definition) = "valid"
  BY DefinitionAssumption DEF Definitions, Nodes, Accepted
<1>2. /\ Order \in Seq(Nodes) /\ Len(Order) = Cardinality(Nodes) /\ Distinct(Order)
      /\ \A n \in Nodes : \E i \in 1 .. Len(Order) : Order[i] = n
  BY <1>1, ValidOrder DEF Nodes, Order
<1>3. IsFiniteSet(Nodes)
  BY <1>1, DuplicatesCounted DEF Nodes
<1>4. Len(Order) \in Nat /\ DOMAIN Order = 1 .. Len(Order)
  BY <1>2, LenProperties
<1>5. \A i \in 1 .. Len(Order) : Order[i] \in Nodes
  BY <1>2, ElementOfSeq
<1>6. \A i, j \in 1 .. Len(Order) : Order[i] = Order[j] => i = j
  BY <1>2, <1>4 DEF Distinct
<1>. QED  BY <1>2, <1>3, <1>4, <1>5, <1>6

(* A workflow's outcome says how many of its steps have failed.            *)
LEMMA AggregateOutcome ==
  ASSUME NEW view \in [Nodes -> StepStatus]
  PROVE  /\ Aggregate(view) \in Ended
         /\ Aggregate(view) = "success" => FailedIn(view) = {}
         /\ Aggregate(view) = "partial" => FailedIn(view) \notin {{}, Nodes}
<1>. DEFINE c == Cardinality(FailedIn(view))
<1>1. FailedIn(view) \subseteq Nodes
  BY DEF FailedIn
<1>2. c \in Nat /\ c <= Len(Order) /\ (c = 0 <=> FailedIn(view) = {})
  BY <1>1, OrderFacts, FS_Subset, FS_CardinalityType, FS_EmptySet
<1>3. FailedIn(view) = Nodes => c = Len(Order)
  BY OrderFacts
<1>4. Len(Order) \in Nat
  BY OrderFacts
<1>. HIDE DEF c
<1>5. c = 0 \/ c \in 1 .. Len(Order) - 1 \/ c = Len(Order)
  BY <1>2, <1>4
<1>6. FailedIn(view) # {} => c # 0
  BY <1>2
<1>7. c \in 1 .. Len(Order) - 1 => c # 0 /\ c # Len(Order)
  BY <1>2, <1>4
<1>8. CASE FailedIn(view) = {}
  <2>1. ~ (c \in 1 .. Len(Order) - 1)
    BY <1>2, <1>8
  <2>2. Aggregate(view) \in {"success", "failed"}
    BY <1>8, <2>1 DEF Aggregate, c
  <2>. QED  BY <1>8, <2>2 DEF Ended
<1>9. CASE c \in 1 .. Len(Order) - 1
  <2>1. FailedIn(view) # {} /\ FailedIn(view) # Nodes /\ c # Len(Order)
    BY <1>2, <1>3, <1>7, <1>9
  <2>2. Aggregate(view) = "partial"
    BY <1>9, <2>1 DEF Aggregate, c
  <2>. QED  BY <2>1, <2>2 DEF Ended
<1>10. CASE c = Len(Order) /\ FailedIn(view) # {}
  <2>1. ~ (c \in 1 .. Len(Order) - 1)
    BY <1>7, <1>10
  <2>2. Aggregate(view) = "failed"
    BY <1>10, <2>1 DEF Aggregate, c
  <2>. QED  BY <2>2 DEF Ended
<1>. QED  BY <1>2, <1>5, <1>8, <1>9, <1>10

LEMMA IdleIsRun == Idle \in Run /\ Idle.pc = "idle" /\ RunOK(Idle, sent)
<1>1. Idle = [pc |-> "idle", at |-> 1, attempt |-> 0, polls |-> 0, seen |-> "none", view |-> Pending]
  BY DEF Idle
<1>2. 1 \in 1 .. Len(Order) + 1 /\ 0 \in 0 .. MAX_RETRIES /\ 0 \in 0 .. MaxPolls
  BY OrderFacts, ConstantsAssumption
<1>3. Pending \in [Nodes -> StepStatus] /\ "none" \in TaskStatus
  BY DEF Pending, StepStatus, TaskStatus
<1>4. Idle \in Run
  BY <1>1, <1>2, <1>3 DEF Run
<1>5. Idle.pc = "idle"
  BY <1>1
<1>. QED  BY <1>4, <1>5 DEF RunOK, Placed, IsActive

LEMMA BrokenIsRun ==
  ASSUME NEW pc \in {"broken", "judged"}
  PROVE  [Idle EXCEPT !.pc = pc] \in Run /\ [Idle EXCEPT !.pc = pc].pc = pc
<1>1. Idle \in Run
  BY IdleIsRun
<1>. QED  BY <1>1 DEF Run

(* The run that turns to the next step, or tries the one at hand again.    *)
LEMMA SettleIsRun ==
  ASSUME EngineInv, NEW e \in Engines, IsActive(engine[e]), engine[e].at <= Len(Order),
         NEW outcome \in Ended
  PROVE  /\ Settle(e, outcome) \in Run
         /\ Settle(e, outcome).pc = "running"
         /\ RunOK(Settle(e, outcome), sent)
<1>. DEFINE run == engine[e]
            r == Settle(e, outcome)
            n == Order[run.at]
<1>1. /\ run \in Run /\ RunOK(run, sent)
      /\ run.at \in 1 .. Len(Order) /\ run.view \in [Nodes -> StepStatus]
      /\ run.at \in Nat /\ run.attempt \in Nat
  <2>1. run \in Run /\ RunOK(run, sent)
    BY DEF EngineInv, TypeOK
  <2>2. run.at \in 1 .. Len(Order) + 1 /\ run.view \in [Nodes -> StepStatus] /\ run.attempt \in 0 .. MAX_RETRIES
    BY <2>1 DEF Run
  <2>. QED  BY <2>1, <2>2, OrderFacts, ConstantsAssumption
<1>2. r = [pc |-> "running", at |-> run.at + 1, attempt |-> 0, polls |-> 0, seen |-> "none",
           view |-> [run.view EXCEPT ![n] = outcome]]
  <2>. DEFINE v == [run.view EXCEPT ![n] = outcome]
  <2>1. r = [Idle EXCEPT !.pc = "running", !.at = run.at + 1, !.view = v]
    BY DEF Settle, Node
  <2>. HIDE DEF v, r
  <2>2. r = [pc |-> "running", at |-> run.at + 1, attempt |-> 0, polls |-> 0, seen |-> "none", view |-> v]
    BY <2>1 DEF Idle
  <2>. QED  BY <2>2 DEF v
<1>3. n \in Nodes
  BY <1>1, OrderFacts
<1>. HIDE DEF r, n
<1>4. [run.view EXCEPT ![n] = outcome] \in [Nodes -> StepStatus]
  BY <1>1, <1>3 DEF StepStatus
<1>5. run.at + 1 \in 1 .. Len(Order) + 1 /\ 0 \in 0 .. MAX_RETRIES /\ 0 \in 0 .. MaxPolls
  BY <1>1, OrderFacts, ConstantsAssumption
<1>6. r \in Run
  BY <1>2, <1>4, <1>5 DEF Run, TaskStatus
<1>7. r.pc = "running" /\ r.at = run.at + 1 /\ r.attempt = 0 /\ r.view = [run.view EXCEPT ![n] = outcome]
  BY <1>2
<1>8. SentSoFar(run, sent) /\ SettledSoFar(run)
  BY <1>1 DEF RunOK
<1>9. SentSoFar(r, sent)
  <2>1. ASSUME NEW i \in 1 .. Len(Order), i > run.at  PROVE sent[Order[i]] = 0
    BY <2>1, <1>8 DEF SentSoFar
  <2>2. ASSUME NEW i \in 1 .. Len(Order)
        PROVE  (i > r.at => i > run.at) /\ (i = r.at => i > run.at)
    BY <1>1, <1>7
  <2>3. 0 <= r.attempt + (IF r.pc = "polling" THEN 1 ELSE 0)
    BY <1>7
  <2>. QED  BY <2>1, <2>2, <2>3 DEF SentSoFar
<1>10. SettledSoFar(r)
  <2>1. SUFFICES ASSUME NEW i \in 1 .. Len(Order), i < run.at + 1
                 PROVE  r.view[Order[i]] # "pending"
    BY <1>7 DEF SettledSoFar
  <2>2. CASE i = run.at
    BY <2>2, <1>1, <1>3, <1>7 DEF Ended, n
  <2>3. CASE i < run.at
    <3>1. Order[i] # n /\ Order[i] \in Nodes
      BY <2>3, <1>1, OrderFacts DEF n
    <3>2. run.view[Order[i]] # "pending"
      BY <2>3, <1>8 DEF SettledSoFar
    <3>. QED  BY <3>1, <3>2, <1>1, <1>7
  <2>. QED  BY <2>1, <2>2, <2>3, <1>1
<1>11. Placed(r)
  BY <1>7 DEF Placed
<1>. QED  BY <1>6, <1>7, <1>9, <1>10, <1>11 DEF RunOK, r

LEMMA FailsIsRun ==
  ASSUME EngineInv, NEW e \in Engines, IsActive(engine[e]), engine[e].at <= Len(Order)
  PROVE  /\ AttemptFails(e) \in Run
         /\ AttemptFails(e).pc = "running"
         /\ RunOK(AttemptFails(e), sent)
<1>1. CASE ~AttemptsLeft(e)
  <2>1. AttemptFails(e) = Settle(e, "failed") /\ "failed" \in Ended
    BY <1>1 DEF AttemptFails, Ended
  <2>. QED  BY <2>1, SettleIsRun
<1>2. CASE AttemptsLeft(e)
  <2>. DEFINE run == engine[e]
              r == AttemptFails(e)
  <2>1. /\ run \in Run /\ RunOK(run, sent) /\ sent \in [Nodes -> Nat]
    BY DEF EngineInv, TypeOK
  <2>2. /\ run.at \in 1 .. Len(Order) + 1 /\ run.view \in [Nodes -> StepStatus]
        /\ run.attempt \in 0 .. MAX_RETRIES /\ run.attempt < MAX_RETRIES
    BY <2>1, <1>2 DEF Run, AttemptsLeft
  <2>3. r = [pc |-> "running", at |-> run.at, attempt |-> run.attempt + 1, polls |-> 0, seen |-> "none",
             view |-> run.view]
    BY <1>2 DEF AttemptFails, Idle
  <2>. HIDE DEF r
  <2>4. run.attempt + 1 \in 0 .. MAX_RETRIES /\ 0 \in 0 .. MaxPolls
    BY <2>2, ConstantsAssumption
  <2>5. r \in Run
    BY <2>2, <2>3, <2>4 DEF Run, TaskStatus
  <2>6. r.pc = "running" /\ r.at = run.at /\ r.attempt = run.attempt + 1 /\ r.view = run.view
    BY <2>3
  <2>7. SentSoFar(run, sent) /\ SettledSoFar(run)
    BY <2>1 DEF RunOK
  <2>8. SentSoFar(r, sent)
    <3>1. ASSUME NEW i \in 1 .. Len(Order), i = run.at
          PROVE  sent[Order[i]] <= run.attempt + 1
      <4>1. sent[Order[i]] \in Nat /\ run.attempt \in Nat
        BY <2>1, <2>2, OrderFacts, ConstantsAssumption
      <4>2. sent[Order[i]] <= run.attempt + (IF run.pc = "polling" THEN 1 ELSE 0)
        BY <3>1, <2>7 DEF SentSoFar
      <4>. QED  BY <4>1, <4>2
    <3>2. ASSUME NEW i \in 1 .. Len(Order), i > run.at  PROVE sent[Order[i]] = 0
      BY <3>2, <2>7 DEF SentSoFar
    <3>3. r.attempt + (IF r.pc = "polling" THEN 1 ELSE 0) = run.attempt + 1
      BY <2>2, <2>6
    <3>. QED  BY <3>1, <3>2, <3>3, <2>6 DEF SentSoFar
  <2>9. SettledSoFar(r)
    BY <2>6, <2>7 DEF SettledSoFar
  <2>10. Placed(r)
    BY <2>6 DEF Placed
  <2>. QED  BY <2>5, <2>6, <2>8, <2>9, <2>10 DEF RunOK, r
<1>. QED  BY <1>1, <1>2

LEMMA OneActive ==
  ASSUME EngineInv, NEW e \in Engines, NEW f \in Engines, IsActive(engine[e]), IsActive(engine[f])
  PROVE  e = f
  BY ConstantsAssumption DEF EngineInv, OneRun

(* A run moves, and nothing else does.                                     *)
LEMMA RunMoves ==
  ASSUME EngineInv, NEW e \in Engines, NEW r \in Run, RunOK(r, sent),
         engine' = [engine EXCEPT ![e] = r],
         UNCHANGED <<wf, step, task, sent, lock, owner, faults, crashes, abandoned>>,
         IsActive(r) => IsActive(engine[e]),
         lock = e => r.pc = "running"
  PROVE  EngineInv'
<1>1. /\ engine \in [Engines -> Run] /\ engine' \in [Engines -> Run]
      /\ engine'[e] = r /\ \A f \in Engines \ {e} : engine'[f] = engine[f]
  BY DEF EngineInv, TypeOK
<1>2. TypeOK'
  BY <1>1 DEF EngineInv, TypeOK
<1>3. LockHeld'
  <2>1. lock \in Engines \cup {NoEngine} /\ LockHeld
    BY DEF EngineInv, TypeOK
  <2>. QED  BY <1>1, <2>1 DEF LockHeld
<1>4. OneRun'
  <2>1. SUFFICES ASSUME NEW f \in Engines, IsActive(engine'[f])
                 PROVE  lock = f \/ (lock = NoEngine /\ owner = f /\ wf \in {"running", "failed"})
    BY DEF OneRun
  <2>2. IsActive(engine[f])
    BY <1>1, <2>1
  <2>3. OneRun
    BY DEF EngineInv
  <2>. QED  BY <2>2, <2>3 DEF OneRun, IsActive
<1>5. Fresh' /\ AttemptsBounded' /\ OutcomeAgreesWithSteps'
  BY DEF EngineInv, Fresh, AttemptsBounded, OutcomeAgreesWithSteps, FailedIn
<1>6. \A f \in Engines : RunOK(engine'[f], sent')
  BY <1>1 DEF EngineInv
<1>. QED  BY <1>2, <1>3, <1>4, <1>5, <1>6 DEF EngineInv

(* A run ends, and lets go of the row if it has it.                        *)
LEMMA RunStops ==
  ASSUME EngineInv, NEW e \in Engines, NEW r \in Run, r.pc \in {"idle", "broken"},
         engine' = [engine EXCEPT ![e] = r], lock' = Unlock(e),
         UNCHANGED <<wf, step, task, sent, owner>>,
         faults' \in 0 .. MaxFaults, crashes' \in 0 .. MaxCrashes, abandoned' \in BOOLEAN
  PROVE  EngineInv'
<1>1. /\ engine \in [Engines -> Run] /\ engine' \in [Engines -> Run]
      /\ engine'[e] = r /\ \A f \in Engines \ {e} : engine'[f] = engine[f]
  BY DEF EngineInv, TypeOK
<1>2. /\ lock \in Engines \cup {NoEngine} /\ NoEngine \notin Engines
      /\ lock = e => lock' = NoEngine
      /\ lock # e => lock' = lock
  BY ConstantsAssumption DEF EngineInv, TypeOK, Unlock
<1>3. TypeOK'
  BY <1>1, <1>2 DEF EngineInv, TypeOK
<1>4. LockHeld'
  <2>1. lock' # NoEngine => lock' = lock /\ lock \in Engines \ {e}
    BY <1>2
  <2>. QED  BY <1>1, <2>1 DEF EngineInv, LockHeld
<1>5. OneRun'
  <2>1. SUFFICES ASSUME NEW f \in Engines, IsActive(engine'[f])
                 PROVE  lock' = f \/ (lock' = NoEngine /\ owner = f /\ wf \in {"running", "failed"})
    BY DEF OneRun
  <2>2. f # e /\ IsActive(engine[f])
    BY <1>1, <2>1 DEF IsActive
  <2>3. lock = f \/ (lock = NoEngine /\ owner = f /\ wf \in {"running", "failed"})
    <3>1. OneRun
      BY DEF EngineInv
    <3>. QED  BY <2>2, <3>1 DEF OneRun, IsActive
  <2>4. lock = f => lock' = f
    BY <2>2, <1>2
  <2>5. lock = NoEngine => lock' = NoEngine
    BY <1>2
  <2>. QED  BY <2>3, <2>4, <2>5
<1>6. Fresh' /\ AttemptsBounded' /\ OutcomeAgreesWithSteps'
  BY DEF EngineInv, Fresh, AttemptsBounded, OutcomeAgreesWithSteps, FailedIn
<1>7. RunOK(r, sent)
  BY DEF RunOK, Placed, IsActive
<1>8. \A f \in Engines : RunOK(engine'[f], sent')
  BY <1>1, <1>7 DEF EngineInv
<1>. QED  BY <1>3, <1>4, <1>5, <1>6, <1>8 DEF EngineInv

(* A claim finds the workflow as it was created.                           *)
LEMMA ClaimKeeps ==
  ASSUME EngineInv, NEW e \in Engines, Claim(e)
  PROVE  EngineInv'
<1>1. /\ engine \in [Engines -> Run] /\ engine[e] \in Run /\ engine[e].pc = "waiting"
      /\ lock = NoEngine /\ NoEngine \notin Engines
      /\ UNCHANGED <<wf, step, task, sent, owner, faults, crashes, abandoned>>
  BY ConstantsAssumption DEF EngineInv, TypeOK, Claim, RowFree
<1>2. CASE wf # "pending"
  <2>1. engine' = [engine EXCEPT ![e] = Idle] /\ UNCHANGED lock
    BY <1>2 DEF Claim
  <2>. QED  BY <1>1, <2>1, IdleIsRun, RunMoves DEF IsActive
<1>3. CASE wf = "pending"
  <2>. DEFINE r == [engine[e] EXCEPT !.pc = "running", !.view = step]
  <2>1. lock' = e /\ engine' = [engine EXCEPT ![e].pc = "running", ![e].view = step]
    BY <1>3 DEF Claim
  <2>2. engine' = [engine EXCEPT ![e] = r]
    BY <1>1, <2>1 DEF Run
  <2>3. step = Pending /\ \A n \in Nodes : sent[n] = 0
    BY <1>3 DEF EngineInv, Fresh
  <2>4. engine[e].at = 1 /\ engine[e].attempt = 0
    BY <1>1 DEF EngineInv, RunOK, Placed
  <2>5. r \in Run /\ r.pc = "running" /\ r.at = 1 /\ r.attempt = 0
    BY <1>1, <2>4 DEF EngineInv, TypeOK, Run
  <2>. HIDE DEF r
  <2>6. RunOK(r, sent)
    <3>1. SentSoFar(r, sent)
      <4>1. \A i \in 1 .. Len(Order) : sent[Order[i]] = 0
        BY <2>3, OrderFacts
      <4>2. 0 <= r.attempt + (IF r.pc = "polling" THEN 1 ELSE 0)
        BY <2>5
      <4>. QED  BY <4>1, <4>2 DEF SentSoFar
    <3>2. SettledSoFar(r)
      BY <2>5, OrderFacts DEF SettledSoFar
    <3>. QED  BY <3>1, <3>2, <2>5 DEF RunOK, Placed
  <2>7. /\ engine' \in [Engines -> Run]
        /\ engine'[e] = r /\ \A f \in Engines \ {e} : engine'[f] = engine[f]
    BY <1>1, <2>2, <2>5
  <2>8. TypeOK'
    BY <1>1, <2>1, <2>7 DEF EngineInv, TypeOK
  <2>9. LockHeld'
    BY <1>1, <1>3, <2>1, <2>5, <2>7 DEF LockHeld
  <2>10. OneRun'
    <3>1. \A f \in Engines \ {e} : ~IsActive(engine'[f])
      BY <1>1, <1>3, <2>7 DEF EngineInv, OneRun
    <3>. QED  BY <2>1, <3>1 DEF OneRun
  <2>11. Fresh' /\ AttemptsBounded' /\ OutcomeAgreesWithSteps'
    BY <1>1 DEF EngineInv, Fresh, AttemptsBounded, OutcomeAgreesWithSteps, FailedIn
  <2>12. \A f \in Engines : RunOK(engine'[f], sent')
    BY <1>1, <2>6, <2>7 DEF EngineInv
  <2>. QED  BY <2>8, <2>9, <2>10, <2>11, <2>12 DEF EngineInv
<1>. QED  BY <1>2, <1>3

(* A task is sent: the claim, and what the run has settled, are durable.   *)
LEMMA SendKeeps ==
  ASSUME EngineInv, NEW e \in Engines, Send(e)
  PROVE  EngineInv'
<1>. DEFINE run == engine[e]
            r == [run EXCEPT !.pc = "polling"]
            n == Order[run.at]
<1>1. /\ engine \in [Engines -> Run] /\ run \in Run /\ run.pc = "running" /\ IsActive(run)
      /\ RunOK(run, sent)
      /\ run.at \in 1 .. Len(Order) /\ run.at \in Nat
      /\ run.attempt \in Nat /\ run.attempt <= MAX_RETRIES /\ run.view \in [Nodes -> StepStatus]
  <2>1. run \in Run /\ engine \in [Engines -> Run] /\ RunOK(run, sent)
    BY DEF EngineInv, TypeOK
  <2>2. run.at \in 1 .. Len(Order) + 1 /\ run.attempt \in 0 .. MAX_RETRIES /\ run.view \in [Nodes -> StepStatus]
    BY <2>1 DEF Run
  <2>3. run.pc = "running" /\ run.at <= Len(Order)
    BY DEF Send, Runs
  <2>. QED  BY <2>1, <2>2, <2>3, OrderFacts, ConstantsAssumption DEF IsActive
<1>2. n \in Nodes /\ \A i \in 1 .. Len(Order) : Order[i] \in Nodes /\ (i # run.at => Order[i] # n)
  BY <1>1, OrderFacts
<1>3. /\ task' = [task EXCEPT ![n] = "open"] /\ sent' = [sent EXCEPT ![n] = @ + 1]
      /\ step' = run.view /\ lock' = Unlock(e)
      /\ engine' = [engine EXCEPT ![e] = r]
      /\ lock = e => wf' = "running" /\ owner' = e
      /\ lock # e => wf' = wf /\ owner' = owner
      /\ faults' = faults /\ crashes' = crashes /\ abandoned' = abandoned
  <2>1. engine' = [engine EXCEPT ![e].pc = "polling"]
    BY DEF Send
  <2>2. engine' = [engine EXCEPT ![e] = r]
    BY <1>1, <2>1 DEF Run
  <2>. QED  BY <2>2 DEF Send, Node
<1>4. r \in Run /\ r.pc = "polling" /\ r.at = run.at /\ r.attempt = run.attempt /\ r.view = run.view
  BY <1>1 DEF Run
<1>5. /\ lock = e \/ (lock = NoEngine /\ owner = e /\ wf \in {"running", "failed"})
      /\ NoEngine \notin Engines
  <2>1. OneRun
    BY DEF EngineInv
  <2>. QED  BY <2>1, <1>1, ConstantsAssumption DEF OneRun
<1>6. lock' = NoEngine /\ owner' = e /\ wf' \in {"running", "failed"}
  BY <1>3, <1>5 DEF Unlock
<1>7. /\ engine' \in [Engines -> Run]
      /\ engine'[e] = r /\ \A f \in Engines \ {e} : engine'[f] = engine[f] /\ ~IsActive(engine[f])
  <2>1. \A f \in Engines \ {e} : ~IsActive(engine[f])
    BY <1>1, OneActive
  <2>. HIDE DEF r, run
  <2>. QED  BY <2>1, <1>1, <1>3, <1>4
<1>8. /\ sent \in [Nodes -> Nat] /\ sent' \in [Nodes -> Nat]
      /\ sent'[n] = sent[n] + 1 /\ \A m \in Nodes \ {n} : sent'[m] = sent[m]
  <2>1. sent \in [Nodes -> Nat]
    BY DEF EngineInv, TypeOK
  <2>. HIDE DEF n, r, run
  <2>. QED  BY <2>1, <1>2, <1>3
<1>9. sent[n] <= run.attempt
  <2>1. run.attempt + (IF run.pc = "polling" THEN 1 ELSE 0) = run.attempt
    BY <1>1
  <2>. QED  BY <1>1, <2>1 DEF RunOK, SentSoFar
<1>. HIDE DEF run, r, n
<1>10. TypeOK'
  <2>1. wf' \in {"pending", "running"} \cup Ended /\ lock' \in Engines \cup {NoEngine} /\ owner' \in Engines \cup {NoEngine}
    BY <1>6 DEF Ended
  <2>2. task' \in [Nodes -> TaskStatus]
    BY <1>2, <1>3 DEF EngineInv, TypeOK, TaskStatus
  <2>3. step' \in [Nodes -> StepStatus]
    BY <1>1, <1>3
  <2>4. faults' \in 0 .. MaxFaults /\ crashes' \in 0 .. MaxCrashes /\ abandoned' \in BOOLEAN
    BY <1>3 DEF EngineInv, TypeOK
  <2>. QED  BY <2>1, <2>2, <2>3, <2>4, <1>7, <1>8 DEF TypeOK
<1>11. LockHeld' /\ Fresh'
  BY <1>6 DEF LockHeld, Fresh
<1>12. OneRun'
  BY <1>6, <1>7 DEF OneRun
<1>13. RunOK(r, sent')
  <2>1. SentSoFar(r, sent')
    <3>1. \A i \in 1 .. Len(Order) : i > r.at => sent'[Order[i]] = 0
      <4>1. TAKE i \in 1 .. Len(Order)
      <4>2. HAVE i > r.at
      <4>3. sent[Order[i]] = 0
        BY <1>1, <1>4, <4>2 DEF RunOK, SentSoFar
      <4>. QED  BY <4>2, <4>3, <1>1, <1>2, <1>4, <1>8
    <3>2. sent'[Order[r.at]] <= r.attempt + 1
      <4>1. sent[n] \in Nat
        BY <1>2, <1>8
      <4>. QED  BY <4>1, <1>1, <1>4, <1>8, <1>9 DEF n
    <3>3. r.attempt + (IF r.pc = "polling" THEN 1 ELSE 0) = r.attempt + 1
      BY <1>4
    <3>. QED  BY <3>1, <3>2, <3>3 DEF SentSoFar
  <2>2. SettledSoFar(r)
    BY <1>1, <1>4 DEF RunOK, SettledSoFar
  <2>3. Placed(r)
    BY <1>1, <1>4 DEF Placed
  <2>. QED  BY <2>1, <2>2, <2>3 DEF RunOK
<1>14. \A f \in Engines : RunOK(engine'[f], sent')
  <2>1. \A f \in Engines \ {e} : Placed(engine[f])
    BY DEF EngineInv, RunOK
  <2>. QED  BY <2>1, <1>7, <1>13 DEF RunOK
<1>15. AttemptsBounded'
  <2>1. \A m \in Nodes : sent[m] <= MAX_RETRIES + 1
    BY DEF EngineInv, AttemptsBounded
  <2>2. sent[n] \in Nat /\ MAX_RETRIES \in Nat
    BY <1>2, <1>8, ConstantsAssumption
  <2>3. sent'[n] <= MAX_RETRIES + 1
    BY <2>2, <1>1, <1>8, <1>9
  <2>. QED  BY <2>1, <2>3, <1>8 DEF AttemptsBounded
<1>16. OutcomeAgreesWithSteps'
  BY <1>6 DEF OutcomeAgreesWithSteps
<1>. QED  BY <1>10, <1>11, <1>12, <1>14, <1>15, <1>16 DEF EngineInv

(* The run at its end has settled every step: the outcome counts them.     *)
LEMMA FinishKeeps ==
  ASSUME EngineInv, NEW e \in Engines, Finish(e)
  PROVE  EngineInv'
<1>. DEFINE view == engine[e].view
<1>1. /\ engine \in [Engines -> Run] /\ engine[e] \in Run /\ view \in [Nodes -> StepStatus]
      /\ engine[e].pc = "running" /\ IsActive(engine[e]) /\ engine[e].at = Len(Order) + 1
      /\ wf' = Aggregate(view) /\ step' = view /\ lock' = Unlock(e)
      /\ engine' = [engine EXCEPT ![e] = Idle]
      /\ UNCHANGED <<task, sent, owner, faults, crashes, abandoned>>
  BY DEF EngineInv, TypeOK, Run, Finish, IsActive
<1>2. lock' = NoEngine /\ NoEngine \notin Engines
  <2>1. OneRun
    BY DEF EngineInv
  <2>. QED  BY <2>1, <1>1, ConstantsAssumption DEF OneRun, Unlock
<1>3. /\ engine' \in [Engines -> Run]
      /\ engine'[e] = Idle /\ \A f \in Engines \ {e} : engine'[f] = engine[f] /\ ~IsActive(engine[f])
  <2>1. \A f \in Engines \ {e} : ~IsActive(engine[f])
    BY <1>1, OneActive
  <2>. QED  BY <2>1, <1>1, IdleIsRun
<1>4. wf' \in Ended
  BY <1>1, AggregateOutcome
<1>. HIDE DEF view
<1>5. \A n \in Nodes : view[n] # "pending"
  <2>1. TAKE n \in Nodes
  <2>2. PICK i \in 1 .. Len(Order) : Order[i] = n
    BY OrderFacts
  <2>3. i < engine[e].at
    BY <2>2, <1>1, OrderFacts
  <2>. QED  BY <2>2, <2>3, <1>1 DEF EngineInv, RunOK, SettledSoFar, view
<1>6. TypeOK'
  BY <1>1, <1>2, <1>3, <1>4 DEF EngineInv, TypeOK
<1>7. LockHeld' /\ Fresh'
  BY <1>2, <1>4 DEF LockHeld, Fresh, Ended
<1>8. \A f \in Engines : ~IsActive(engine'[f])
  BY <1>3, IdleIsRun DEF IsActive
<1>9. OneRun'
  BY <1>8 DEF OneRun
<1>10. \A f \in Engines : RunOK(engine'[f], sent')
  BY <1>1, <1>3, IdleIsRun DEF EngineInv
<1>11. AttemptsBounded'
  BY <1>1 DEF EngineInv, AttemptsBounded
<1>12. OutcomeAgreesWithSteps'
  <2>1. wf' = "success" => FailedIn(step') = {}
    BY <1>1, AggregateOutcome
  <2>2. wf' = "partial" => FailedIn(step') \notin {{}, Nodes}
    BY <1>1, AggregateOutcome
  <2>. QED  BY <2>1, <2>2, <1>1, <1>5 DEF OutcomeAgreesWithSteps
<1>. QED  BY <1>6, <1>7, <1>9, <1>10, <1>11, <1>12 DEF EngineInv

(* The handler of last resort may end the workflow of another run, but     *)
(* only as failed, and only once that run's claim is durable.              *)
LEMMA FailWorkflowKeeps ==
  ASSUME EngineInv, NEW e \in Engines, FailWorkflow(e)
  PROVE  EngineInv'
<1>1. /\ engine \in [Engines -> Run] /\ engine[e].pc = "judged" /\ lock = NoEngine /\ wf' = "failed"
      /\ engine' = [engine EXCEPT ![e] = Idle]
      /\ UNCHANGED <<step, task, sent, lock, owner, faults, crashes, abandoned>>
      /\ NoEngine \notin Engines
  BY ConstantsAssumption DEF EngineInv, TypeOK, FailWorkflow, RowFree, MarkFailed
<1>2. /\ engine' \in [Engines -> Run]
      /\ engine'[e] = Idle /\ \A f \in Engines \ {e} : engine'[f] = engine[f]
  BY <1>1, IdleIsRun
<1>3. TypeOK'
  BY <1>1, <1>2 DEF EngineInv, TypeOK, Ended
<1>4. LockHeld' /\ Fresh' /\ OutcomeAgreesWithSteps'
  BY <1>1 DEF LockHeld, Fresh, OutcomeAgreesWithSteps
<1>5. OneRun'
  <2>1. SUFFICES ASSUME NEW f \in Engines, IsActive(engine'[f])
                 PROVE  lock = NoEngine /\ owner = f
    BY <1>1 DEF OneRun
  <2>2. f # e /\ IsActive(engine[f])
    BY <1>2, <2>1, IdleIsRun DEF IsActive
  <2>3. OneRun
    BY DEF EngineInv
  <2>. QED  BY <1>1, <2>2, <2>3 DEF OneRun
<1>6. \A f \in Engines : RunOK(engine'[f], sent')
  BY <1>1, <1>2, IdleIsRun DEF EngineInv
<1>7. AttemptsBounded'
  BY <1>1 DEF EngineInv, AttemptsBounded
<1>. QED  BY <1>3, <1>4, <1>5, <1>6, <1>7 DEF EngineInv

(* The steps of a run that only the run itself sees.                       *)
LEMMA PrivateMoves ==
  ASSUME EngineInv, NEW e \in Engines,
         Dispatch(e) \/ FailDependent(e) \/ SendFails(e) \/ Poll(e) \/ GiveUp(e) \/ ReadBack(e)
  PROVE  EngineInv'
<1>0. engine \in [Engines -> Run] /\ engine[e] \in Run /\ RunOK(engine[e], sent) /\ NoEngine \notin Engines
  BY ConstantsAssumption DEF EngineInv, TypeOK
<1>1. lock = e => engine[e].pc = "running"
  BY <1>0 DEF EngineInv, LockHeld
<1>2. engine[e].at \in 1 .. Len(Order) + 1 /\ Len(Order) \in Nat
  BY <1>0, OrderFacts DEF Run
<1>3. CASE Dispatch(e)
  <2>. DEFINE r == [Idle EXCEPT !.pc = "waiting"]
  <2>1. engine[e] = Idle /\ engine' = [engine EXCEPT ![e].pc = "waiting"]
        /\ UNCHANGED <<wf, step, task, sent, lock, owner, faults, crashes, abandoned>>
    BY <1>3 DEF Dispatch
  <2>2. engine' = [engine EXCEPT ![e] = r]
    BY <1>0, <2>1
  <2>3. r = [pc |-> "waiting", at |-> 1, attempt |-> 0, polls |-> 0, seen |-> "none", view |-> Pending]
    BY DEF Idle
  <2>4. r \in Run
    BY IdleIsRun DEF Run
  <2>. HIDE DEF r
  <2>5. RunOK(r, sent) /\ ~IsActive(r)
    BY <2>3 DEF RunOK, Placed, IsActive
  <2>6. lock # e
    BY <1>1, <2>1, IdleIsRun
  <2>. QED  BY <2>1, <2>2, <2>4, <2>5, <2>6, RunMoves
<1>4. CASE FailDependent(e)
  <2>1. /\ IsActive(engine[e]) /\ engine[e].at <= Len(Order) /\ "failed" \in Ended
        /\ engine' = [engine EXCEPT ![e] = Settle(e, "failed")]
        /\ UNCHANGED <<wf, step, task, sent, lock, owner, faults, crashes, abandoned>>
    BY <1>4 DEF FailDependent, Runs, IsActive, Ended
  <2>. QED  BY <2>1, SettleIsRun, RunMoves
<1>5. CASE SendFails(e)
  <2>1. /\ IsActive(engine[e]) /\ engine[e].at <= Len(Order)
        /\ engine' = [engine EXCEPT ![e] = AttemptFails(e)]
        /\ UNCHANGED <<wf, step, task, sent, lock, owner, faults, crashes, abandoned>>
    BY <1>5 DEF SendFails, Runs, IsActive
  <2>. QED  BY <2>1, FailsIsRun, RunMoves
<1>6. CASE GiveUp(e)
  <2>1. /\ IsActive(engine[e]) /\ engine[e].at <= Len(Order)
        /\ engine' = [engine EXCEPT ![e] = AttemptFails(e)]
        /\ UNCHANGED <<wf, step, task, sent, lock, owner, faults, crashes, abandoned>>
    BY <1>0, <1>6 DEF GiveUp, IsActive, RunOK, Placed
  <2>. QED  BY <2>1, FailsIsRun, RunMoves
<1>7. CASE ReadBack(e)
  <2>1. PICK r \in {Idle, [Idle EXCEPT !.pc = "judged"]} : engine' = [engine EXCEPT ![e] = r]
    BY <1>7 DEF ReadBack
  <2>2. engine[e].pc = "broken" /\ UNCHANGED <<wf, step, task, sent, lock, owner, faults, crashes, abandoned>>
    BY <1>7 DEF ReadBack
  <2>3. r \in Run /\ r.pc \in {"idle", "judged"}
    BY <2>1, IdleIsRun, BrokenIsRun
  <2>4. RunOK(r, sent) /\ ~IsActive(r)
    BY <2>3 DEF RunOK, Placed, IsActive
  <2>. QED  BY <1>1, <2>1, <2>2, <2>3, <2>4, RunMoves
<1>8. CASE Poll(e)
  <2>1. /\ engine[e].pc = "polling" /\ IsActive(engine[e]) /\ engine[e].at <= Len(Order) /\ lock # e
        /\ engine[e].polls < MaxPolls
        /\ UNCHANGED <<wf, step, task, sent, lock, owner, faults, crashes, abandoned>>
    BY <1>0, <1>1, <1>8 DEF Poll, IsActive, RunOK, Placed
  <2>2. CASE \E outcome \in Verdicts(Polled(e)) : engine' = [engine EXCEPT ![e] = Settle(e, outcome)]
    <3>1. PICK outcome \in Verdicts(Polled(e)) : engine' = [engine EXCEPT ![e] = Settle(e, outcome)]
      BY <2>2
    <3>2. outcome \in Ended
      <4>1. Verdicts(Polled(e)) \in {{"success", "partial", "failed"}, {}}
        BY DEF Verdicts
      <4>. QED  BY <3>1, <4>1 DEF Ended
    <3>. QED  BY <2>1, <3>1, <3>2, SettleIsRun, RunMoves
  <2>3. CASE engine' = [engine EXCEPT ![e] = AttemptFails(e)]
    BY <2>1, <2>3, FailsIsRun, RunMoves
  <2>4. CASE engine' = [engine EXCEPT ![e].polls = @ + 1, ![e].seen = "open"]
    <3>. DEFINE run == engine[e]
                r == [run EXCEPT !.polls = run.polls + 1, !.seen = "open"]
    <3>1. engine' = [engine EXCEPT ![e] = r]
      BY <1>0, <2>4 DEF Run
    <3>2. run.polls + 1 \in 0 .. MaxPolls
      BY <1>0, <2>1, ConstantsAssumption DEF Run
    <3>3. r \in Run
      BY <1>0, <3>2 DEF Run, TaskStatus
    <3>4. r.pc = run.pc /\ r.at = run.at /\ r.attempt = run.attempt /\ r.view = run.view
      BY <1>0 DEF Run
    <3>. HIDE DEF r
    <3>5. RunOK(r, sent)
      BY <1>0, <2>1, <3>4 DEF RunOK, Placed, SentSoFar, SettledSoFar, IsActive
    <3>. QED  BY <2>1, <3>1, <3>3, <3>4, <3>5, RunMoves DEF IsActive
  <2>. QED  BY <1>8, <2>2, <2>3, <2>4 DEF Poll
<1>. QED  BY <1>3, <1>4, <1>5, <1>6, <1>7, <1>8

LEMMA EngineInvInit == Init => EngineInv
<1>. SUFFICES ASSUME Init PROVE EngineInv
  OBVIOUS
<1>1. /\ wf = "pending" /\ step = Pending /\ task = [n \in Nodes |-> "none"]
      /\ sent = [n \in Nodes |-> 0] /\ lock = NoEngine /\ engine = [e \in Engines |-> Idle]
      /\ owner = NoEngine /\ faults = 0 /\ crashes = 0 /\ abandoned = FALSE
  BY DEF Init
<1>2. TypeOK
  <2>1. faults \in 0 .. MaxFaults /\ crashes \in 0 .. MaxCrashes
    BY <1>1, ConstantsAssumption
  <2>2. abandoned \in BOOLEAN
    BY <1>1
  <2>. QED
    BY <1>1, <2>1, <2>2, IdleIsRun DEF TypeOK, Pending, StepStatus, TaskStatus
<1>3. \A e \in Engines : RunOK(engine[e], sent) /\ ~IsActive(engine[e])
  BY <1>1, IdleIsRun DEF IsActive
<1>4. AttemptsBounded
  BY <1>1, ConstantsAssumption DEF AttemptsBounded
<1>. QED  BY <1>1, <1>2, <1>3, <1>4
          DEF EngineInv, LockHeld, OneRun, Fresh, OutcomeAgreesWithSteps

LEMMA EngineInvNext == EngineInv /\ [Next]_vars => EngineInv'
<1>. SUFFICES ASSUME EngineInv, [Next]_vars PROVE EngineInv'
  OBVIOUS
<1>1. ASSUME NEW e \in Engines, Advance(e)  PROVE EngineInv'
  BY <1>1, ClaimKeeps, SendKeeps, FinishKeeps, FailWorkflowKeeps, PrivateMoves DEF Advance
<1>2. ASSUME NEW e \in Engines, Break(e)  PROVE EngineInv'
  <2>1. /\ engine' = [engine EXCEPT ![e] = [Idle EXCEPT !.pc = "broken"]]
        /\ lock' = Unlock(e) /\ UNCHANGED <<wf, step, task, sent, owner, crashes, abandoned>>
        /\ faults < MaxFaults /\ faults' = faults + 1
    BY <1>2 DEF Break
  <2>2. faults' \in 0 .. MaxFaults /\ crashes' \in 0 .. MaxCrashes /\ abandoned' \in BOOLEAN
    BY <2>1, ConstantsAssumption DEF EngineInv, TypeOK
  <2>. QED  BY <2>1, <2>2, BrokenIsRun, RunStops
<1>3. ASSUME NEW e \in Engines, Crash(e)  PROVE EngineInv'
  <2>1. /\ engine' = [engine EXCEPT ![e] = Idle]
        /\ lock' = Unlock(e) /\ UNCHANGED <<wf, step, task, sent, owner, faults, abandoned>>
        /\ crashes < MaxCrashes /\ crashes' = crashes + 1
    BY <1>3 DEF Crash
  <2>2. faults' \in 0 .. MaxFaults /\ crashes' \in 0 .. MaxCrashes /\ abandoned' \in BOOLEAN
    BY <2>1, ConstantsAssumption DEF EngineInv, TypeOK
  <2>. QED  BY <2>1, <2>2, IdleIsRun, RunStops
<1>4. ASSUME UNCHANGED <<wf, step, sent, lock, engine, owner, faults, crashes, abandoned>>,
             task' \in [Nodes -> TaskStatus]
      PROVE  EngineInv'
  <2>1. TypeOK'
    BY <1>4 DEF EngineInv, TypeOK
  <2>2. LockHeld' /\ OneRun' /\ Fresh'
    BY <1>4 DEF EngineInv, LockHeld, OneRun, Fresh
  <2>3. AttemptsBounded' /\ OutcomeAgreesWithSteps'
    BY <1>4 DEF EngineInv, AttemptsBounded, OutcomeAgreesWithSteps, FailedIn
  <2>4. \A e \in Engines : RunOK(engine'[e], sent')
    BY <1>4 DEF EngineInv
  <2>. QED  BY <2>1, <2>2, <2>3, <2>4 DEF EngineInv
<1>7. ASSUME NEW e \in Engines, LoseHandler(e)  PROVE EngineInv'
  <2>1. /\ engine[e].pc \in {"broken", "judged"} /\ engine' = [engine EXCEPT ![e] = Idle]
        /\ UNCHANGED <<wf, step, task, sent, lock, owner, crashes>>
        /\ faults < MaxFaults /\ faults' = faults + 1
        /\ abandoned' = (abandoned \/ owner = e)
    BY <1>7 DEF LoseHandler
  <2>2. faults' \in 0 .. MaxFaults /\ crashes' \in 0 .. MaxCrashes /\ abandoned' \in BOOLEAN
    BY <2>1, ConstantsAssumption DEF EngineInv, TypeOK
  <2>3. lock' = Unlock(e)
    <3>1. lock # e
      BY <2>1, ConstantsAssumption DEF EngineInv, LockHeld
    <3>. QED  BY <2>1, <3>1 DEF Unlock
  <2>. QED  BY <2>1, <2>2, <2>3, IdleIsRun, RunStops
<1>5. ASSUME NEW n \in Nodes, TaskEnds(n)  PROVE EngineInv'
  <2>1. task' \in [Nodes -> TaskStatus]
    BY <1>5 DEF TaskEnds, EngineInv, TypeOK, TaskStatus
  <2>. QED  BY <1>4, <1>5, <2>1 DEF TaskEnds
<1>6. CASE UNCHANGED vars
  BY <1>4, <1>6 DEF vars, EngineInv, TypeOK
<1>. QED  BY <1>1, <1>2, <1>3, <1>5, <1>6, <1>7 DEF Next

LEMMA EngineInvariant == Spec => []EngineInv
  BY EngineInvInit, EngineInvNext, PTL DEF Spec

(* Every variable of the engine keeps its type.                            *)
THEOREM EngineTypeCorrect == Spec => []TypeOK
<1>1. EngineInv => TypeOK
  BY DEF EngineInv
<1>. QED  BY <1>1, EngineInvariant, PTL

(* However many replicas find the workflow pending, and however many of    *)
(* them lose their session or die: no step is sent more often than its     *)
(* retries allow.                                                          *)
THEOREM AttemptsAreBounded == Spec => []AttemptsBounded
<1>1. EngineInv => AttemptsBounded
  BY DEF EngineInv
<1>. QED  BY <1>1, EngineInvariant, PTL

(* The outcome of a workflow agrees with the committed outcomes of its     *)
(* steps, though the handler of last resort of any run may end it.         *)
THEOREM OutcomesAgree == Spec => []OutcomeAgreesWithSteps
<1>1. EngineInv => OutcomeAgreesWithSteps
  BY DEF EngineInv
<1>. QED  BY <1>1, EngineInvariant, PTL

(* A task is sent only when the outcomes it depends on are committed with  *)
(* it, and are good.                                                       *)
THEOREM DependenciesComeFirst == Spec => DependenciesFirst
<1>. DEFINE First == \A n \in Nodes : sent'[n] > sent[n] =>
                       \A d \in Deps(Definition)[n] : step'[d] \in {"success", "partial"}
<1>1. EngineInv /\ [Next]_vars => [First]_vars
  <2>. SUFFICES ASSUME EngineInv, [Next]_vars PROVE First \/ UNCHANGED vars
    OBVIOUS
  <2>1. sent \in [Nodes -> Nat]
    BY DEF EngineInv, TypeOK
  <2>2. ASSUME UNCHANGED sent  PROVE First
    BY <2>1, <2>2
  <2>3. ASSUME NEW e \in Engines, Send(e)  PROVE First
    <3>1. /\ sent' = [sent EXCEPT ![Node(e)] = @ + 1]
          /\ step' = engine[e].view
          /\ \A d \in Deps(Definition)[Node(e)] : engine[e].view[d] \in {"success", "partial"}
      BY <2>3 DEF Send, DepsOk
    <3>2. \A n \in Nodes : n # Node(e) => sent'[n] = sent[n]
      BY <2>1, <3>1
    <3>. QED  BY <2>1, <3>1, <3>2
  <2>4. ASSUME NEW e \in Engines, Advance(e) \/ Break(e) \/ LoseHandler(e) \/ Crash(e), ~Send(e)  PROVE UNCHANGED sent
    BY <2>4 DEF Advance, Dispatch, Claim, FailDependent, SendFails, Poll, GiveUp, Finish,
                ReadBack, FailWorkflow, Break, LoseHandler, Crash
  <2>5. ASSUME NEW n \in Nodes, TaskEnds(n)  PROVE UNCHANGED sent
    BY <2>5 DEF TaskEnds
  <2>. HIDE DEF First
  <2>. QED  BY <2>2, <2>3, <2>4, <2>5 DEF Next
<1>. QED  BY <1>1, EngineInvariant, PTL DEF Spec, DependenciesFirst
================================================================================
