------------------------------ MODULE ForestProofs ------------------------------
(***************************************************************************)
(* Lemmas about the operators of Forest, for every table.  A table is      *)
(* acyclic when no non-empty set of tasks is closed under "parent", and    *)
(* the walk up from a task is the least closed set around it, so hardly    *)
(* any of them needs an induction.                                         *)
(***************************************************************************)
EXTENDS Forest, FiniteSetTheorems, TLAPS

-----------------------------------------------------------------------------
(***************************************************************************)
(* Walks, cascades and cycles.                                             *)
(***************************************************************************)

(* The walk up from a task contains the task and goes on to every parent. *)
LEMMA AncestorsClosed ==
  ASSUME NEW T, NEW par, NEW t \in T
  PROVE  /\ Ancestors(T, par, t) \subseteq T
         /\ t \in Ancestors(T, par, t)
         /\ ClosedUpward(T, par, Ancestors(T, par, t))
  BY DEF Ancestors, ClosedUpward

(* What a cascade removes contains the rows it starts from and, with a row, *)
(* all its children.                                                        *)
LEMMA DescendantsClosed ==
  ASSUME NEW T, NEW par, NEW D \in SUBSET T
  PROVE  /\ Descendants(T, par, D) \subseteq T
         /\ D \subseteq Descendants(T, par, D)
         /\ ClosedDownward(T, par, Descendants(T, par, D))
  BY DEF Descendants, ClosedDownward

(* Deleting tasks creates no cycle. *)
LEMMA SubsetAcyclic ==
  ASSUME NEW T, NEW par, Acyclic(T, par), NEW U \in SUBSET T
  PROVE  Acyclic(U, par)
  BY DEF Acyclic

(* Only the parents of the tasks in the table matter. *)
LEMMA SameParentsAcyclic ==
  ASSUME NEW T, NEW par, NEW next, Acyclic(T, par), \A u \in T : next[u] = par[u]
  PROVE  Acyclic(T, next)
  BY DEF Acyclic

(* A new task below another one or at the top, with nothing below it yet, *)
(* is on no cycle.                                                        *)
LEMMA InsertAcyclic ==
  ASSUME NEW T, NEW par, Acyclic(T, par),
         NEW t, par[t] # t, \A u \in T : par[u] # t
  PROVE  Acyclic(T \cup {t}, par)
<1> SUFFICES ASSUME NEW S \in SUBSET (T \cup {t}), S # {}
             PROVE  \E u \in S : par[u] \notin S
    BY DEF Acyclic
<1>1. CASE S \ {t} = {}
  BY <1>1
<1>2. CASE S \ {t} # {}
  <2>1. PICK u \in S \ {t} : par[u] \notin S \ {t}
    BY <1>2 DEF Acyclic
  <2> QED
    BY <2>1
<1> QED
  BY <1>1, <1>2

(* A move under a task that the moved task is not an ancestor of keeps the *)
(* forest: a cycle through the new edge would put, together with the       *)
(* ancestors of the new parent, a cycle into the old table.                *)
LEMMA MoveAcyclic ==
  ASSUME NEW T, NEW par, Acyclic(T, par),
         NEW t, NEW q,
         q \in T => ~ IsAncestor(T, par, t, q),
         NEW next, next[t] = q, \A u \in T \ {t} : next[u] = par[u]
  PROVE  Acyclic(T, next)
<1> SUFFICES ASSUME NEW S \in SUBSET T, S # {},
                    \A u \in S : next[u] \in S
             PROVE  FALSE
    BY DEF Acyclic
<1>1. CASE t \notin S
  BY <1>1 DEF Acyclic
<1>2. CASE t \in S
  <2> DEFINE W == S \cap Ancestors(T, par, q)
  <2>1. q \in T /\ q \in W
    BY <1>2, AncestorsClosed
  <2>2. t \notin W
    BY <2>1 DEF IsAncestor
  <2>3. ASSUME NEW u \in W PROVE par[u] \in W
    <3>1. par[u] \in S
      BY <2>2, <2>3
    <3>2. ClosedUpward(T, par, Ancestors(T, par, q))
      BY <2>1, AncestorsClosed
    <3> QED
      BY <3>1, <3>2 DEF ClosedUpward
  <2> QED
    BY <2>1, <2>3 DEF Acyclic
<1> QED
  BY <1>1, <1>2

(* Every closed set around a task contains the walk up from it. *)
LEMMA AncestorsWithin ==
  ASSUME NEW T, NEW par, NEW S \in SUBSET T, NEW t \in S, ClosedUpward(T, par, S)
  PROVE  Ancestors(T, par, t) \subseteq S
  BY DEF Ancestors

(* A deletion makes no walk longer. *)
LEMMA AncestorsShrink ==
  ASSUME NEW T, NEW par, NEW U \in SUBSET T, NEW t \in U
  PROVE  Ancestors(U, par, t) \subseteq Ancestors(T, par, t)
<1> DEFINE S == U \cap Ancestors(T, par, t)
<1>1. t \in Ancestors(T, par, t) /\ ClosedUpward(T, par, Ancestors(T, par, t))
  BY AncestorsClosed
<1>2. ClosedUpward(U, par, S)
  BY <1>1 DEF ClosedUpward
<1> QED
  BY <1>1, <1>2, AncestorsWithin

(* A new task lengthens no other walk. *)
LEMMA AncestorsOfOthers ==
  ASSUME NEW T, NEW par, NEW t, NEW next,
         \A u \in T : next[u] = par[u] /\ par[u] # t,
         NEW u \in T
  PROVE  Ancestors(T \cup {t}, next, u) \subseteq Ancestors(T, par, u)
<1>1. /\ Ancestors(T, par, u) \subseteq T /\ u \in Ancestors(T, par, u)
      /\ ClosedUpward(T \cup {t}, next, Ancestors(T, par, u))
  BY AncestorsClosed DEF ClosedUpward
<1> QED
  BY <1>1, AncestorsWithin

(* The walk up from a task is the task and the walk up from its parent. *)
LEMMA WalkStep ==
  ASSUME NEW T, NEW par, NEW a \in T
  PROVE  /\ par[a] \notin T => Ancestors(T, par, a) = {a}
         /\ par[a] \in T => Ancestors(T, par, a) = {a} \cup Ancestors(T, par, par[a])
<1> DEFINE A == Ancestors(T, par, a)
           P == Ancestors(T, par, par[a])
<1>1. A \subseteq T /\ a \in A /\ ClosedUpward(T, par, A)
  BY AncestorsClosed
<1>2. CASE par[a] \notin T
  <2>1. ClosedUpward(T, par, {a})
    BY <1>2 DEF ClosedUpward
  <2> QED
    BY <1>1, <1>2, <2>1, AncestorsWithin
<1>3. CASE par[a] \in T
  <2>1. P \subseteq T /\ par[a] \in P /\ ClosedUpward(T, par, P)
    BY <1>3, AncestorsClosed
  <2>2. ClosedUpward(T, par, {a} \cup P) /\ {a} \cup P \in SUBSET T
    BY <2>1 DEF ClosedUpward
  <2>3. A \subseteq {a} \cup P
    BY <2>2, AncestorsWithin
  <2>4. A \in SUBSET T /\ par[a] \in A
    BY <1>1, <1>3 DEF ClosedUpward
  <2>5. P \subseteq A
    BY <1>1, <2>4, AncestorsWithin
  <2> QED
    BY <1>1, <1>3, <2>3, <2>5
<1> QED
  BY <1>2, <1>3

(* A walk that reaches a top-level task does not come back. *)
LEMMA NoReturn ==
  ASSUME NEW T, NEW par, NEW a \in T, par[a] \in T, ReachesRoot(T, par, par[a])
  PROVE  a \notin Ancestors(T, par, par[a])
<1> DEFINE P == Ancestors(T, par, par[a])
           C == {x \in P : a \in Ancestors(T, par, x)}
<1> SUFFICES ASSUME a \in P PROVE FALSE
  OBVIOUS
<1>1. P \subseteq T /\ par[a] \in P /\ ClosedUpward(T, par, P)
  BY AncestorsClosed
<1>2. C \in SUBSET T /\ par[a] \in C
  BY <1>1
<1>3. ClosedUpward(T, par, C)
  <2> SUFFICES ASSUME NEW x \in C, par[x] \in T PROVE par[x] \in C
    BY DEF ClosedUpward
  <2>1. par[x] \in P
    BY <1>1 DEF ClosedUpward
  <2>2. CASE x = a
    BY <1>2, <2>2
  <2>3. CASE x # a
    <3>1. Ancestors(T, par, x) = {x} \cup Ancestors(T, par, par[x])
      BY <1>2, WalkStep
    <3> QED
      BY <2>1, <2>3, <3>1
  <2> QED
    BY <2>2, <2>3
<1>4. P \subseteq C
  BY <1>2, <1>3, AncestorsWithin
<1>5. PICK root \in P : par[root] \notin T
  BY DEF ReachesRoot
<1>6. a \in Ancestors(T, par, root) /\ Ancestors(T, par, root) = {root}
  BY <1>1, <1>4, <1>5, WalkStep
<1> QED
  BY <1>5, <1>6

(* All of a walk reaches the top or none of it. *)
LEMMA RootAbove ==
  ASSUME NEW T, NEW par, NEW a \in T
  PROVE  /\ par[a] \notin T => ReachesRoot(T, par, a)
         /\ par[a] \in T => (ReachesRoot(T, par, a) <=> ReachesRoot(T, par, par[a]))
  BY WalkStep DEF ReachesRoot

(* Without cycles every walk reaches a top-level task. *)
LEMMA AcyclicReachesRoot ==
  ASSUME NEW T, NEW par, Acyclic(T, par), NEW t \in T
  PROVE  ReachesRoot(T, par, t)
<1> DEFINE A == Ancestors(T, par, t)
<1>1. A \in SUBSET T /\ t \in A /\ ClosedUpward(T, par, A)
  BY AncestorsClosed
<1>2. PICK u \in A : par[u] \notin A
  BY <1>1 DEF Acyclic
<1> QED
  BY <1>1, <1>2 DEF ReachesRoot, ClosedUpward

(* Each step up a walk to the top makes it one task shorter. *)
LEMMA WalkLength ==
  ASSUME NEW T, NEW par, IsFiniteSet(T), NEW a \in T
  PROVE  /\ Cardinality(Ancestors(T, par, a)) \in Nat \ {0}
         /\ par[a] \notin T => Cardinality(Ancestors(T, par, a)) = 1
         /\ par[a] \in T /\ ReachesRoot(T, par, par[a]) =>
              Cardinality(Ancestors(T, par, a)) = Cardinality(Ancestors(T, par, par[a])) + 1
<1>1. Cardinality(Ancestors(T, par, a)) \in Nat \ {0}
  <2>1. a \in Ancestors(T, par, a) /\ IsFiniteSet(Ancestors(T, par, a))
    BY AncestorsClosed, FS_Subset
  <2> QED
    BY <2>1, FS_CardinalityType, FS_EmptySet
<1>2. par[a] \notin T => Cardinality(Ancestors(T, par, a)) = 1
  BY WalkStep, FS_Singleton
<1>3. ASSUME par[a] \in T, ReachesRoot(T, par, par[a])
      PROVE  Cardinality(Ancestors(T, par, a)) = Cardinality(Ancestors(T, par, par[a])) + 1
  <2> DEFINE P == Ancestors(T, par, par[a])
  <2>1. IsFiniteSet(P) /\ a \notin P
    BY <1>3, AncestorsClosed, NoReturn, FS_Subset
  <2>2. Cardinality(P \cup {a}) = Cardinality(P) + 1
    BY <2>1, FS_AddElement
  <2>3. Ancestors(T, par, a) = P \cup {a}
    BY <1>3, WalkStep
  <2> QED
    BY <2>2, <2>3
<1> QED
  BY <1>1, <1>2, <1>3

-----------------------------------------------------------------------------
(***************************************************************************)
(* Induction.  The library's induction theorems take an operator, which    *)
(* the provers cannot instantiate; that the finite sets are well-founded   *)
(* under inclusion has no such parameter, and 1 .. k stands for k.         *)
(***************************************************************************)

(* A non-empty set of numbers has a least element. *)
LEMMA LeastNat ==
  ASSUME NEW S \in SUBSET Nat, S # {}
  PROVE  \E m \in S : \A k \in S : m <= k
<1> DEFINE F == {1 .. k : k \in S}
<1>1. F \subseteq FiniteSubsetsOf(Nat)
  <2>1. ASSUME NEW k \in S PROVE IsFiniteSet(1 .. k) /\ 1 .. k \subseteq Nat
    BY FS_Interval
  <2> QED
    BY <2>1 DEF FiniteSubsetsOf
<1>2. F # {}
  OBVIOUS
<1> HIDE DEF F
<1>3. PICK x \in F : \A y \in F : ~ (<<y, x>> \in StrictSubsetOrdering(Nat))
  <2>1. IsWellFoundedOn(StrictSubsetOrdering(Nat), FiniteSubsetsOf(Nat))
    BY FS_StrictSubsetOrderingWellFounded
  <2> HIDE DEF F
  <2> QED
    BY <1>1, <1>2, <2>1, WFMin
<1> USE DEF F
<1>4. PICK m \in S : x = 1 .. m
  OBVIOUS
<1>5. ASSUME NEW k \in S, k < m PROVE FALSE
  <2>1. 1 .. k \subseteq 1 .. m /\ m \in 1 .. m /\ m \notin 1 .. k
    BY <1>5
  <2>2. <<1 .. k, x>> \in StrictSubsetOrdering(Nat)
    BY <1>4, <2>1 DEF StrictSubsetOrdering
  <2> QED
    BY <1>3, <2>2
<1> QED
  BY <1>5

LEMMA NatSetInduction ==
  ASSUME NEW S, 0 \in S, \A n \in Nat : n \in S => n + 1 \in S
  PROVE  Nat \subseteq S
<1> SUFFICES ASSUME Nat \ S # {} PROVE FALSE
  OBVIOUS
<1>1. PICK m \in Nat \ S : \A k \in Nat \ S : m <= k
  <2>1. Nat \ S \in SUBSET Nat
    OBVIOUS
  <2> QED
    BY <2>1, LeastNat
<1>2. m - 1 \in Nat /\ m - 1 \in S
  BY <1>1
<1> QED
  BY <1>1, <1>2

-----------------------------------------------------------------------------
(***************************************************************************)
(* getSubtree.                                                             *)
(***************************************************************************)

(* The levels of getSubtree are what the recursive term says. *)
LEMMA LevelIs ==
  ASSUME NEW T, NEW par, NEW t
  PROVE  /\ Level(T, par, t)[0] = {t} \cap T
         /\ \A n \in 0 .. MaxDepth :
              Level(T, par, t)[n + 1] = {c \in T : par[c] \in Level(T, par, t)[n]}
<1> DEFINE Body(f, i) == IF i = 0 THEN {t} \cap T ELSE {c \in T : par[c] \in f[i - 1]}
           Solved == {k \in Nat : \E f : f = [i \in 0 .. k |-> Body(f, i)]}
<1>1. 0 \in Solved
  <2> DEFINE f == [i \in 0 .. 0 |-> {t} \cap T]
  <2>1. f = [i \in 0 .. 0 |-> Body(f, i)]
    OBVIOUS
  <2> QED
    BY <2>1
<1>2. ASSUME NEW k \in Nat, k \in Solved PROVE k + 1 \in Solved
  <2>1. PICK f : f = [i \in 0 .. k |-> Body(f, i)]
    BY <1>2
  <2> DEFINE g == [i \in 0 .. k + 1 |-> IF i = k + 1 THEN {c \in T : par[c] \in f[k]} ELSE f[i]]
  <2>2. ASSUME NEW i \in 0 .. k + 1 PROVE g[i] = Body(g, i)
    <3>1. CASE i = k + 1
      BY <3>1
    <3>2. CASE i # k + 1
      <4>0. i \in 0 .. k /\ g[i] = f[i]
        BY <3>2
      <4>1. i \in 0 .. k /\ g[i] = f[i] /\ f[i] = Body(f, i)
        <5> HIDE DEF Body, g
        <5> QED
          BY <2>1, <4>0
      <4>2. CASE i = 0
        BY <4>1, <4>2
      <4>3. CASE i # 0
        <5>1. i - 1 \in 0 .. k + 1 /\ i - 1 # k + 1
          BY <4>1, <4>3
        <5>2. g[i - 1] = f[i - 1]
          BY <5>1
        <5> QED
          BY <4>1, <4>3, <5>2
      <4> QED
        BY <4>2, <4>3
    <3> QED
      BY <3>1, <3>2
  <2>3. g = [i \in 0 .. k + 1 |-> Body(g, i)]
    BY <2>2
  <2> HIDE DEF g, Body
  <2>4. k + 1 \in Nat /\ \E h : h = [i \in 0 .. k + 1 |-> Body(h, i)]
    BY <2>3
  <2> QED
    BY <2>4
<1>3. MaxDepth + 1 \in Solved
  <2> HIDE DEF Solved
  <2> QED
    BY <1>1, <1>2, NatSetInduction, MaxDepthAssumption
<1>4. Level(T, par, t) = [i \in 0 .. MaxDepth + 1 |-> Body(Level(T, par, t), i)]
  BY <1>3 DEF Level
<1>5. Level(T, par, t)[0] = {t} \cap T
  BY <1>4, MaxDepthAssumption
<1>6. ASSUME NEW n \in 0 .. MaxDepth
      PROVE  Level(T, par, t)[n + 1] = {c \in T : par[c] \in Level(T, par, t)[n]}
  <2>1. n + 1 \in 0 .. MaxDepth + 1 /\ n + 1 # 0 /\ (n + 1) - 1 = n
    BY MaxDepthAssumption
  <2>2. Level(T, par, t)[n + 1] = Body(Level(T, par, t), n + 1)
    <3> HIDE DEF Body
    <3> QED
      BY <1>4, <2>1
  <2> QED
    BY <2>1, <2>2
<1> QED
  BY <1>5, <1>6

LEMMA ParentIsShallower ==
  ASSUME NEW T, NEW par, Acyclic(T, par), IsFiniteSet(T), NEW c \in T, par[c] \in T
  PROVE  Cardinality(Ancestors(T, par, par[c])) < Cardinality(Ancestors(T, par, c))
  BY WalkLength, AcyclicReachesRoot

(* A task n levels down has at least n tasks above it. *)
LEMMA LevelsAreDeep ==
  ASSUME NEW T, NEW par, Acyclic(T, par), IsFiniteSet(T), NEW t
  PROVE  \A n \in 0 .. MaxDepth + 1 : \A u \in Level(T, par, t)[n] :
           u \in T /\ Cardinality(Ancestors(T, par, u)) > n
<1> DEFINE Deep(n) == \A u \in Level(T, par, t)[n] :
                        u \in T /\ Cardinality(Ancestors(T, par, u)) > n
           S == {n \in Nat : n <= MaxDepth + 1 => Deep(n)}
<1>0. \A u \in T : Cardinality(Ancestors(T, par, u)) \in Nat \ {0}
  BY WalkLength
<1>1. 0 \in S
  <2>1. Level(T, par, t)[0] = {t} \cap T
    BY LevelIs
  <2> QED
    BY <1>0, <2>1
<1>2. ASSUME NEW n \in Nat, n \in S PROVE n + 1 \in S
  <2> SUFFICES ASSUME n + 1 <= MaxDepth + 1, NEW u \in Level(T, par, t)[n + 1]
               PROVE  u \in T /\ Cardinality(Ancestors(T, par, u)) > n + 1
    OBVIOUS
  <2>1. n \in 0 .. MaxDepth /\ n <= MaxDepth + 1
    BY MaxDepthAssumption
  <2>2. Level(T, par, t)[n + 1] = {c \in T : par[c] \in Level(T, par, t)[n]}
    BY <2>1, LevelIs
  <2>3. u \in T /\ par[u] \in Level(T, par, t)[n]
    BY <2>2
  <2>4. par[u] \in T /\ Cardinality(Ancestors(T, par, par[u])) > n
    BY <1>2, <2>1, <2>3
  <2>5. Cardinality(Ancestors(T, par, par[u])) < Cardinality(Ancestors(T, par, u))
    BY <2>3, <2>4, ParentIsShallower
  <2> QED
    BY <1>0, <2>3, <2>4, <2>5
<1>3. Nat \subseteq S
  <2> HIDE DEF S
  <2> QED
    BY <1>1, <1>2, NatSetInduction
<1> QED
  BY <1>3, MaxDepthAssumption

(* Where the depth limit holds, the query of getSubtree stops below the    *)
(* deepest task.                                                           *)
LEMMA SubtreeIsWhole ==
  ASSUME NEW T, NEW par, Acyclic(T, par), IsFiniteSet(T),
         \A u \in T : Cardinality(Ancestors(T, par, u)) <= MaxDepth + 1,
         NEW t \in T
  PROVE  Descendants(T, par, {t}) \subseteq GetSubtree(T, par, t)
<1> DEFINE G == GetSubtree(T, par, t)
<1>1. G = UNION {Level(T, par, t)[n] : n \in 0 .. MaxDepth + 1}
  BY DEF GetSubtree
<1>2. t \in G
  <2>1. 0 \in 0 .. MaxDepth + 1
    BY MaxDepthAssumption
  <2>2. Level(T, par, t)[0] = {t} \cap T
    BY LevelIs
  <2> QED
    BY <1>1, <2>1, <2>2
<1>3. G \subseteq T
  BY <1>1, LevelsAreDeep
<1>4. ASSUME NEW c \in T, par[c] \in G PROVE c \in G
  <2>1. PICK n \in 0 .. MaxDepth + 1 : par[c] \in Level(T, par, t)[n]
    BY <1>1, <1>4
  <2>2. par[c] \in T /\ Cardinality(Ancestors(T, par, par[c])) > n
    BY <2>1, LevelsAreDeep
  <2>3. /\ Cardinality(Ancestors(T, par, par[c])) < Cardinality(Ancestors(T, par, c))
        /\ Cardinality(Ancestors(T, par, c)) <= MaxDepth + 1
    BY <2>2, ParentIsShallower
  <2>4. /\ Cardinality(Ancestors(T, par, par[c])) \in Nat
        /\ Cardinality(Ancestors(T, par, c)) \in Nat
    BY <2>2, AncestorsClosed, FS_Subset, FS_CardinalityType
  <2>5. n \in 0 .. MaxDepth /\ n + 1 \in 0 .. MaxDepth + 1
    BY <2>2, <2>3, <2>4, MaxDepthAssumption
  <2>6. Level(T, par, t)[n + 1] = {d \in T : par[d] \in Level(T, par, t)[n]}
    BY <2>5, LevelIs
  <2>7. c \in Level(T, par, t)[n + 1]
    BY <2>1, <2>6
  <2> QED
    BY <1>1, <2>5, <2>7
<1> HIDE DEF G
<1>5. ClosedDownward(T, par, G) /\ {t} \subseteq G /\ G \in SUBSET T
  BY <1>2, <1>3, <1>4 DEF ClosedDownward
<1>6. Descendants(T, par, {t}) \subseteq G
  BY <1>5 DEF Descendants
<1> QED
  BY <1>6 DEF G

=============================================================================
