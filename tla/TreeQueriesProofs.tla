--------------------------- MODULE TreeQueriesProofs ---------------------------
(***************************************************************************)
(* The level-by-level evaluation of the recursive queries returns what     *)
(* Forest says, on every finite table, cyclic ones included.               *)
(***************************************************************************)
EXTENDS TreeQueries, ForestProofs

(* The tables the foreign key allows, and the types of the rest. *)
QueryTypeOK ==
  /\ tableRows \subseteq RowIds
  /\ parentOf \in [RowIds -> RowIds \cup {Null}]
  /\ \A t \in tableRows : parentOf[t] \in tableRows \cup {Null}
  /\ query \in Query
  /\ working \subseteq tableRows
  /\ depth \in Nat
  /\ state \in {"running", "done"}

DoneRight ==
  state = "done" => \/ working = {}
                    \/ query.name = "isAncestor" /\ query.candidate \in working

WalkUp(t)  == Ancestors(tableRows, parentOf, t)
ToRoot(t)  == ReachesRoot(tableRows, parentOf, t)
Depths     == {row[2] : row \in result}
LevelOf(n) == Level(tableRows, parentOf, query.task)[n]

(* The last row is a, d steps up; the rest of the walk is a's. *)
LastRow(a, d) ==
  /\ Depths = 0 .. d
  /\ ToRoot(query.task) <=> ToRoot(a)
  /\ ToRoot(a) => Cardinality(WalkUp(query.task)) = d + Cardinality(WalkUp(a))
  /\ \/ working = {a} /\ depth = d
     \/ working = {} /\ (d = DepthCap \/ parentOf[a] \notin tableRows)

GetDepthInv ==
  query.name = "getDepth" =>
    IF query.task \in tableRows THEN \E a \in tableRows, d \in 0 .. DepthCap : LastRow(a, d)
    ELSE working = {} /\ result = {}

IsAncestorInv ==
  query.name = "isAncestor" =>
    IF working = {}
    THEN /\ result = {}
         /\ query.task \in tableRows => /\ query.candidate \notin WalkUp(query.task)
                                    /\ ToRoot(query.task)
    ELSE /\ query.task \in tableRows /\ result # {}
         /\ \E a \in tableRows :
              /\ working = {a}
              /\ query.candidate \in WalkUp(query.task) <=> query.candidate \in WalkUp(a)
              /\ ToRoot(query.task) <=> ToRoot(a)

GetSubtreeInv ==
  query.name = "getSubtree" =>
    /\ depth <= MaxDepth + 2
    /\ working = IF depth <= MaxDepth + 1 THEN LevelOf(depth) ELSE {}
    /\ \A t : t \in SubtreeAnswer <=>
                \E n \in 0 .. MaxDepth + 1 : n <= depth /\ t \in LevelOf(n)

QueryIInv == QueryTypeOK /\ DoneRight /\ GetDepthInv /\ IsAncestorInv /\ GetSubtreeInv

-----------------------------------------------------------------------------

LEMMA TableFinite == QueryTypeOK => IsFiniteSet(tableRows)
  BY RowIdsAssumption, FS_Subset DEF QueryTypeOK

LEMMA QueryFields ==
  ASSUME QueryTypeOK
  PROVE  /\ query.task \in RowIds
         /\ query.name \in {"getDepth", "getSubtree", "isAncestor"}
  BY DEF QueryTypeOK, Query

LEMMA QueryInitInv == QueryInit => QueryIInv
<1> SUFFICES ASSUME QueryInit PROVE QueryIInv
  OBVIOUS
<1>1. QueryTypeOK
  <2>1. PICK par \in [tableRows -> tableRows \cup {Null}] :
          parentOf = [t \in RowIds |-> IF t \in tableRows THEN par[t] ELSE Null]
    BY DEF QueryInit
  <2>2. tableRows \subseteq RowIds
    BY DEF QueryInit
  <2>3. ASSUME NEW t \in RowIds
        PROVE  /\ parentOf[t] \in RowIds \cup {Null}
               /\ t \in tableRows => parentOf[t] \in tableRows \cup {Null}
    BY <2>1, <2>2
  <2>4. parentOf \in [RowIds -> RowIds \cup {Null}]
    BY <2>1, <2>3
  <2> QED
    BY <2>2, <2>3, <2>4 DEF QueryInit, QueryTypeOK
<1>2. CASE query.task \in tableRows
  <2>1. working = {query.task} /\ result = {<<query.task, 0>>} /\ depth = 0
    BY <1>2 DEF QueryInit
  <2>2. Depths = 0 .. 0 /\ SubtreeAnswer = {query.task}
    <3>1. <<query.task, 0>>[1] = query.task /\ <<query.task, 0>>[2] = 0
      OBVIOUS
    <3>2. Depths = {0} /\ SubtreeAnswer = {query.task}
      BY <2>1, <3>1 DEF Depths, SubtreeAnswer
    <3>3. 0 .. 0 = {0}
      OBVIOUS
    <3> QED
      BY <3>2, <3>3
  <2>3. Cardinality(WalkUp(query.task)) = 0 + Cardinality(WalkUp(query.task))
    <3>1. Cardinality(WalkUp(query.task)) \in Nat
      BY <1>1, <1>2, TableFinite, WalkLength DEF WalkUp
    <3> QED
      BY <3>1
  <2>4. LastRow(query.task, 0) /\ 0 \in 0 .. DepthCap
    BY <2>1, <2>2, <2>3, MaxDepthAssumption DEF LastRow, DepthCap
  <2>5. LevelOf(0) = {query.task}
    BY <1>2, LevelIs DEF LevelOf
  <2>6. \A n \in 0 .. MaxDepth + 1 : n <= 0 <=> n = 0
    BY MaxDepthAssumption
  <2>7. GetSubtreeInv
    BY <2>1, <2>2, <2>5, <2>6, MaxDepthAssumption DEF GetSubtreeInv
  <2> QED
    BY <1>1, <1>2, <2>1, <2>4, <2>7 DEF QueryInit, QueryIInv, DoneRight, GetDepthInv, IsAncestorInv
<1>3. CASE query.task \notin tableRows
  <2>1. working = {} /\ result = {} /\ depth = 0
    BY <1>3 DEF QueryInit
  <2>2. LevelOf(0) = {}
    BY <1>3, LevelIs DEF LevelOf
  <2>3. \A n \in 0 .. MaxDepth + 1 : n <= 0 <=> n = 0
    BY MaxDepthAssumption
  <2>4. GetSubtreeInv
    BY <2>1, <2>2, <2>3, MaxDepthAssumption DEF GetSubtreeInv, SubtreeAnswer
  <2> QED
    BY <1>1, <1>3, <2>1, <2>4 DEF QueryInit, QueryIInv, DoneRight, GetDepthInv, IsAncestorInv
<1> QED
  BY <1>2, <1>3

(* A step up from a single task. *)
LEMMA ParentsOfOne ==
  ASSUME QueryTypeOK, NEW a \in tableRows
  PROVE  Parents({a}) = IF parentOf[a] \in tableRows THEN {parentOf[a]} ELSE {}
  BY DEF Parents

LEMMA GetDepthKept ==
  ASSUME QueryIInv, GetDepthStep
  PROVE  QueryIInv'
<1> USE MaxDepthAssumption
<1>1. /\ QueryTypeOK /\ query.name = "getDepth" /\ state = "running" /\ working # {}
      /\ tableRows' = tableRows /\ parentOf' = parentOf /\ query' = query /\ state' = state
      /\ working' = UpToCap /\ depth' = depth + 1
      /\ result' = result \cup {<<t, depth + 1>> : t \in working'}
  BY DEF QueryIInv, GetDepthStep, Evaluate, snapshot
<1>2. query.task \in tableRows
  BY <1>1 DEF QueryIInv, GetDepthInv
<1>3. PICK a \in tableRows, d \in 0 .. DepthCap : LastRow(a, d)
  BY <1>1, <1>2 DEF QueryIInv, GetDepthInv
<1>4. working = {a} /\ depth = d
  BY <1>1, <1>3 DEF LastRow
<1>5. IsFiniteSet(tableRows)
  BY <1>1, TableFinite
<1>6. QueryTypeOK'
  BY <1>1 DEF QueryTypeOK, UpToCap, Parents
<1>7. CASE d < DepthCap /\ parentOf[a] \in tableRows
  <2> DEFINE b == parentOf[a]
  <2>1. working' = {b} /\ result' = result \cup {<<b, d + 1>>}
    BY <1>1, <1>4, <1>7, ParentsOfOne DEF UpToCap
  <2>2. Depths' = Depths \cup {d + 1}
    <3>1. <<b, d + 1>>[2] = d + 1
      OBVIOUS
    <3>2. \A row \in result' : row \in result \/ row[2] = d + 1
      BY <2>1, <3>1
    <3>3. \A row \in result : row \in result'
      BY <2>1
    <3>4. <<b, d + 1>> \in result'
      BY <2>1
    <3> QED
      BY <3>1, <3>2, <3>3, <3>4 DEF Depths
  <2>3. Depths' = 0 .. d + 1 /\ d + 1 \in 0 .. DepthCap
    BY <1>3, <1>7, <2>2 DEF LastRow, DepthCap
  <2>4. ToRoot(a) <=> ToRoot(b)
    BY <1>7, RootAbove DEF ToRoot
  <2>5. ToRoot(b) => Cardinality(WalkUp(query.task)) = (d + 1) + Cardinality(WalkUp(b))
    <3>1. /\ Cardinality(WalkUp(a)) \in Nat /\ Cardinality(WalkUp(b)) \in Nat
          /\ ToRoot(b) => Cardinality(WalkUp(a)) = Cardinality(WalkUp(b)) + 1
      BY <1>5, <1>7, WalkLength DEF WalkUp, ToRoot
    <3> QED
      BY <1>3, <2>4, <3>1 DEF LastRow
  <2>6. LastRow(b, d + 1)'
    BY <1>1, <1>3, <1>4, <2>1, <2>3, <2>4, <2>5 DEF LastRow, ToRoot, WalkUp
  <2>7. GetDepthInv'
    BY <1>1, <1>2, <1>7, <2>3, <2>6 DEF GetDepthInv
  <2> QED
    BY <1>1, <1>6, <2>7 DEF QueryIInv, DoneRight, IsAncestorInv, GetSubtreeInv
<1>8. CASE ~ (d < DepthCap /\ parentOf[a] \in tableRows)
  <2>1. working' = {} /\ result' = result
    BY <1>1, <1>4, <1>8, ParentsOfOne DEF UpToCap
  <2>2. d = DepthCap \/ parentOf[a] \notin tableRows
    BY <1>8 DEF DepthCap
  <2>3. LastRow(a, d)'
    BY <1>1, <1>3, <2>1, <2>2 DEF LastRow, ToRoot, WalkUp, Depths
  <2>4. GetDepthInv'
    BY <1>1, <1>2, <2>3 DEF GetDepthInv
  <2> QED
    BY <1>1, <1>6, <2>4 DEF QueryIInv, DoneRight, IsAncestorInv, GetSubtreeInv
<1> QED
  BY <1>7, <1>8

LEMMA IsAncestorKept ==
  ASSUME QueryIInv, IsAncestorStep
  PROVE  QueryIInv'
<1>1. /\ QueryTypeOK /\ query.name = "isAncestor" /\ state = "running" /\ working # {}
      /\ query.candidate \notin working
      /\ tableRows' = tableRows /\ parentOf' = parentOf /\ query' = query
      /\ state' = state /\ depth' = depth
      /\ working' = Parents(working)
      /\ result' = {<<t, 0>> : t \in working'}
  BY DEF QueryIInv, IsAncestorStep, snapshot, UpUnlimited
<1>2. PICK a \in tableRows :
        /\ working = {a}
        /\ query.candidate \in WalkUp(query.task) <=> query.candidate \in WalkUp(a)
        /\ ToRoot(query.task) <=> ToRoot(a)
  BY <1>1 DEF QueryIInv, IsAncestorInv
<1>3. query.task \in tableRows
  BY <1>1 DEF QueryIInv, IsAncestorInv
<1>4. QueryTypeOK'
  BY <1>1 DEF QueryTypeOK, Parents
<1>5. CASE parentOf[a] \in tableRows
  <2> DEFINE b == parentOf[a]
  <2>1. working' = {b} /\ result' # {}
    <3>1. working' = {b}
      BY <1>1, <1>2, <1>5, ParentsOfOne
    <3>2. <<b, 0>> \in result'
      BY <1>1, <3>1
    <3> QED
      BY <3>1, <3>2
  <2>2. WalkUp(a) = {a} \cup WalkUp(b) /\ (ToRoot(a) <=> ToRoot(b))
    BY <1>5, WalkStep, RootAbove DEF WalkUp, ToRoot
  <2>3. query.candidate \in WalkUp(query.task) <=> query.candidate \in WalkUp(b)
    BY <1>1, <1>2, <2>2
  <2>4. IsAncestorInv'
    BY <1>1, <1>2, <1>3, <1>5, <2>1, <2>2, <2>3 DEF IsAncestorInv, WalkUp, ToRoot
  <2> QED
    BY <1>1, <1>4, <2>4 DEF QueryIInv, DoneRight, GetDepthInv, GetSubtreeInv
<1>6. CASE parentOf[a] \notin tableRows
  <2>1. working' = {} /\ result' = {}
    BY <1>1, <1>2, <1>6, ParentsOfOne
  <2>2. WalkUp(a) = {a} /\ ToRoot(a)
    BY <1>6, WalkStep, RootAbove DEF WalkUp, ToRoot
  <2>3. query.candidate \notin WalkUp(query.task) /\ ToRoot(query.task)
    BY <1>1, <1>2, <2>2
  <2>4. IsAncestorInv'
    BY <1>1, <2>1, <2>3 DEF IsAncestorInv, WalkUp, ToRoot
  <2> QED
    BY <1>1, <1>4, <2>4 DEF QueryIInv, DoneRight, GetDepthInv, GetSubtreeInv
<1> QED
  BY <1>5, <1>6

LEMMA GetSubtreeKept ==
  ASSUME QueryIInv, GetSubtreeStep
  PROVE  QueryIInv'
<1> USE MaxDepthAssumption
<1>1. /\ QueryTypeOK /\ query.name = "getSubtree" /\ state = "running" /\ working # {}
      /\ tableRows' = tableRows /\ parentOf' = parentOf /\ query' = query /\ state' = state
      /\ working' = DownToLimit /\ depth' = depth + 1
      /\ result' = result \cup {<<t, depth + 1>> : t \in working'}
  BY DEF QueryIInv, GetSubtreeStep, Evaluate, snapshot
<1>2. GetSubtreeInv /\ depth \in Nat
  BY <1>1 DEF QueryIInv, QueryTypeOK
<1>3. depth <= MaxDepth + 1 /\ working = LevelOf(depth)
  BY <1>1, <1>2 DEF GetSubtreeInv
<1>4. QueryTypeOK'
  BY <1>1 DEF QueryTypeOK, DownToLimit, Children
<1>5. depth' <= MaxDepth + 2
  BY <1>1, <1>2, <1>3
<1>6. working' = IF depth' <= MaxDepth + 1 THEN LevelOf(depth') ELSE {}
  <2>1. CASE depth < MaxDepth + 1
    <3>1. depth \in 0 .. MaxDepth
      BY <1>2, <2>1
    <3>2. LevelOf(depth + 1) = {c \in tableRows : parentOf[c] \in LevelOf(depth)}
      BY <3>1, LevelIs DEF LevelOf
    <3> QED
      BY <1>1, <1>2, <1>3, <2>1, <3>2 DEF DownToLimit, Children
  <2>2. CASE ~ (depth < MaxDepth + 1)
    BY <1>1, <1>2, <2>2 DEF DownToLimit
  <2> QED
    BY <2>1, <2>2
<1>7. \A n : LevelOf(n)' = LevelOf(n)
  BY <1>1 DEF LevelOf
<1>8. ASSUME NEW t
      PROVE  t \in SubtreeAnswer' <=>
               \E n \in 0 .. MaxDepth + 1 : n <= depth + 1 /\ t \in LevelOf(n)
  <2>1. t \in SubtreeAnswer' <=> t \in SubtreeAnswer \/ t \in working'
    <3>1. t \in SubtreeAnswer' => t \in SubtreeAnswer \/ t \in working'
      BY <1>1 DEF SubtreeAnswer
    <3>2. t \in SubtreeAnswer => t \in SubtreeAnswer'
      BY <1>1 DEF SubtreeAnswer
    <3>3. ASSUME t \in working' PROVE t \in SubtreeAnswer'
      <4>1. <<t, depth + 1>> \in result'
        BY <1>1, <3>3
      <4>2. <<t, depth + 1>>[1] = t
        OBVIOUS
      <4> QED
        BY <4>1, <4>2 DEF SubtreeAnswer
    <3> QED
      BY <3>1, <3>2, <3>3
  <2>2. t \in SubtreeAnswer <=> \E n \in 0 .. MaxDepth + 1 : n <= depth /\ t \in LevelOf(n)
    BY <1>1, <1>2 DEF GetSubtreeInv
  <2>3. t \in working' <=> depth + 1 \in 0 .. MaxDepth + 1 /\ t \in LevelOf(depth + 1)
    BY <1>1, <1>2, <1>6
  <2>4. \A n \in 0 .. MaxDepth + 1 : n <= depth + 1 <=> n <= depth \/ n = depth + 1
    BY <1>2
  <2> QED
    BY <2>1, <2>2, <2>3, <2>4
<1>9. GetSubtreeInv'
  BY <1>1, <1>5, <1>6, <1>7, <1>8 DEF GetSubtreeInv
<1> QED
  BY <1>1, <1>4, <1>9 DEF QueryIInv, DoneRight, GetDepthInv, IsAncestorInv

LEMMA QueryNextInv == QueryIInv /\ [QueryNext]_queryVars => QueryIInv'
<1> SUFFICES ASSUME QueryIInv, [QueryNext]_queryVars PROVE QueryIInv'
  OBVIOUS
<1>1. ASSUME Finish PROVE QueryIInv'
  <2>1. UNCHANGED <<tableRows, parentOf, query, working, depth, result>> /\ state' = "done"
    BY <1>1 DEF Finish, snapshot
  <2>2. QueryTypeOK' /\ DoneRight'
    BY <1>1, <2>1 DEF Finish, QueryIInv, QueryTypeOK, DoneRight
  <2>3. GetDepthInv'
    BY <2>1 DEF QueryIInv, GetDepthInv, LastRow, ToRoot, WalkUp, Depths
  <2>4. IsAncestorInv'
    BY <2>1 DEF QueryIInv, IsAncestorInv, ToRoot, WalkUp
  <2>5. GetSubtreeInv'
    BY <2>1 DEF QueryIInv, GetSubtreeInv, LevelOf, SubtreeAnswer
  <2> QED
    BY <2>2, <2>3, <2>4, <2>5 DEF QueryIInv
<1>2. CASE UNCHANGED queryVars
  BY <1>2 DEF QueryIInv, QueryTypeOK, DoneRight, GetDepthInv, LastRow, IsAncestorInv,
              GetSubtreeInv, queryVars, snapshot, ToRoot, WalkUp, Depths, LevelOf, SubtreeAnswer
<1> QED
  BY <1>1, <1>2, GetDepthKept, IsAncestorKept, GetSubtreeKept DEF QueryNext

-----------------------------------------------------------------------------

(* Below an empty level there are only empty levels. *)
LEMMA EmptyLevels ==
  ASSUME QueryTypeOK, NEW d \in 0 .. MaxDepth + 1, LevelOf(d) = {}
  PROVE  \A n \in 0 .. MaxDepth + 1 : n >= d => LevelOf(n) = {}
<1> DEFINE S == {k \in Nat : d + k <= MaxDepth + 1 => LevelOf(d + k) = {}}
<1>1. 0 \in S
  BY MaxDepthAssumption
<1>2. ASSUME NEW k \in Nat, k \in S PROVE k + 1 \in S
  <2> SUFFICES ASSUME d + (k + 1) <= MaxDepth + 1 PROVE LevelOf(d + (k + 1)) = {}
    OBVIOUS
  <2>1. d + k \in 0 .. MaxDepth /\ d + (k + 1) = (d + k) + 1 /\ d + k <= MaxDepth + 1
    BY MaxDepthAssumption
  <2>2. LevelOf(d + k) = {}
    BY <1>2, <2>1
  <2>3. LevelOf((d + k) + 1) = {c \in tableRows : parentOf[c] \in LevelOf(d + k)}
    BY <2>1, LevelIs DEF LevelOf
  <2> QED
    BY <2>1, <2>2, <2>3
<1>3. Nat \subseteq S
  <2> HIDE DEF S
  <2> QED
    BY <1>1, <1>2, NatSetInduction
<1>4. ASSUME NEW n \in 0 .. MaxDepth + 1, n >= d PROVE LevelOf(n) = {}
  <2>1. n - d \in Nat /\ d + (n - d) = n /\ n <= MaxDepth + 1
    BY <1>4, MaxDepthAssumption
  <2> QED
    BY <1>3, <2>1
<1> QED
  BY <1>4

LEMMA DepthAnswerRight ==
  ASSUME QueryIInv, state = "done", query.name = "getDepth"
  PROVE  DepthAnswer = GetDepth(tableRows, parentOf, query.task)
<1>1. CASE query.task \notin tableRows
  BY <1>1 DEF QueryIInv, GetDepthInv, DepthAnswer, GetDepth
<1>2. CASE query.task \in tableRows
  <2>0. DepthCap \in Nat
    BY MaxDepthAssumption DEF DepthCap
  <2>1. PICK a \in tableRows, d \in 0 .. DepthCap : LastRow(a, d)
    BY <1>2 DEF QueryIInv, GetDepthInv
  <2>2. working = {} /\ (d = DepthCap \/ parentOf[a] \notin tableRows)
    BY <2>1 DEF QueryIInv, DoneRight, LastRow
  <2>3. DepthAnswer = d
    <3>1. /\ Depths = 0 .. d
          /\ \A e : (\A row \in result : row[2] <= e) <=> \A k \in Depths : k <= e
      BY <2>1 DEF LastRow, Depths
    <3>2. result # {}
      BY <3>1 DEF Depths
    <3>3. DepthAnswer = CHOOSE e \in Depths : \A row \in result : row[2] <= e
      BY <3>2 DEF DepthAnswer, Depths
    <3>4. d \in Nat /\ d \in Depths
      BY <2>0, <3>1
    <3>5. ASSUME NEW e \in Depths
          PROVE  (\A row \in result : row[2] <= e) <=> e = d
      <4>1. e \in 0 .. d
        BY <3>1
      <4>2. (\A row \in result : row[2] <= e) <=> \A k \in 0 .. d : k <= e
        BY <3>1
      <4> QED
        BY <3>4, <4>1, <4>2
    <3>6. DepthAnswer \in Depths /\ \A row \in result : row[2] <= DepthAnswer
      BY <3>3, <3>4, <3>5
    <3> QED
      BY <3>5, <3>6
  <2>4. Cardinality(WalkUp(a)) \in Nat \ {0}
    BY TableFinite, WalkLength DEF QueryIInv, WalkUp
  <2>5. parentOf[a] \notin tableRows => ToRoot(a) /\ Cardinality(WalkUp(a)) = 1
    BY TableFinite, WalkLength, RootAbove DEF QueryIInv, WalkUp, ToRoot
  <2>6. GetDepth(tableRows, parentOf, query.task) =
          IF ToRoot(query.task) /\ Cardinality(WalkUp(query.task)) - 1 < DepthCap
          THEN Cardinality(WalkUp(query.task)) - 1 ELSE DepthCap
    BY <1>2 DEF GetDepth, ToRoot, WalkUp
  <2>7. /\ ToRoot(query.task) <=> ToRoot(a)
        /\ ToRoot(a) => Cardinality(WalkUp(query.task)) = d + Cardinality(WalkUp(a))
    BY <2>1 DEF LastRow
  <2>8. CASE ~ ToRoot(a)
    <3>1. d = DepthCap
      BY <2>2, <2>5, <2>8
    <3>2. GetDepth(tableRows, parentOf, query.task) = DepthCap
      BY <2>6, <2>7, <2>8
    <3> QED
      BY <2>3, <3>1, <3>2
  <2>9. CASE ToRoot(a)
    <3>1. Cardinality(WalkUp(query.task)) - 1 = d + Cardinality(WalkUp(a)) - 1
      BY <2>0, <2>4, <2>7, <2>9
    <3>2. CASE d = DepthCap
      BY <2>0, <2>3, <2>4, <2>6, <3>1, <3>2
    <3>3. CASE d < DepthCap
      BY <2>0, <2>2, <2>3, <2>4, <2>5, <2>6, <2>7, <2>9, <3>1, <3>3
    <3> QED
      BY <2>0, <3>2, <3>3
  <2> QED
    BY <2>8, <2>9
<1> QED
  BY <1>1, <1>2

LEMMA AncestorAnswerRight ==
  ASSUME QueryIInv, state = "done", query.name = "isAncestor"
  PROVE  /\ Ends
         /\ IsAncestorAnswer = IsAncestor(tableRows, parentOf, query.candidate, query.task)
<1>1. CASE working = {}
  <2>1. /\ result = {}
        /\ query.task \in tableRows => /\ query.candidate \notin WalkUp(query.task)
                                   /\ ToRoot(query.task)
    BY <1>1 DEF QueryIInv, IsAncestorInv
  <2>2. query.task \notin tableRows => query.candidate \notin WalkUp(query.task)
    BY DEF WalkUp, Ancestors
  <2> QED
    BY <2>1, <2>2 DEF Ends, IsAncestorEnds, IsAncestorAnswer, IsAncestor, WalkUp, ToRoot
<1>2. CASE working # {}
  <2>1. query.candidate \in working
    BY <1>2 DEF QueryIInv, DoneRight
  <2>2. PICK a \in tableRows :
          /\ working = {a}
          /\ query.candidate \in WalkUp(query.task) <=> query.candidate \in WalkUp(a)
    BY <1>2 DEF QueryIInv, IsAncestorInv
  <2>3. query.candidate \in WalkUp(query.task) /\ result # {}
    BY <1>2, <2>1, <2>2, AncestorsClosed DEF QueryIInv, IsAncestorInv, WalkUp
  <2> QED
    BY <2>3 DEF Ends, IsAncestorEnds, IsAncestorAnswer, IsAncestor, WalkUp
<1> QED
  BY <1>1, <1>2

LEMMA SubtreeAnswerRight ==
  ASSUME QueryIInv, state = "done", query.name = "getSubtree"
  PROVE  SubtreeAnswer = GetSubtree(tableRows, parentOf, query.task)
<1>1. /\ QueryTypeOK /\ working = {} /\ depth \in Nat /\ depth <= MaxDepth + 2
      /\ working = IF depth <= MaxDepth + 1 THEN LevelOf(depth) ELSE {}
      /\ \A t : t \in SubtreeAnswer <=>
                  \E n \in 0 .. MaxDepth + 1 : n <= depth /\ t \in LevelOf(n)
  BY DEF QueryIInv, QueryTypeOK, DoneRight, GetSubtreeInv
<1>2. \A n \in 0 .. MaxDepth + 1 : n > depth => LevelOf(n) = {}
  <2>1. CASE depth <= MaxDepth + 1
    BY <1>1, <2>1, EmptyLevels, MaxDepthAssumption
  <2>2. CASE depth > MaxDepth + 1
    BY <1>1, <2>2, MaxDepthAssumption
  <2> QED
    BY <1>1, <2>1, <2>2, MaxDepthAssumption
<1>3. \A t : t \in SubtreeAnswer <=> \E n \in 0 .. MaxDepth + 1 : t \in LevelOf(n)
  BY <1>1, <1>2, MaxDepthAssumption
<1>4. \A t : t \in GetSubtree(tableRows, parentOf, query.task) <=>
               \E n \in 0 .. MaxDepth + 1 : t \in LevelOf(n)
  BY DEF GetSubtree, LevelOf
<1> QED
  BY <1>3, <1>4

(* A query of TasksService that ends returns what Forest says of it, on    *)
(* every table the foreign key allows: getDepth the number of ancestors or *)
(* the cap, isAncestor whether the candidate is above the task, getSubtree *)
(* the rows at most MAX_SUBTASK_DEPTH + 1 levels down.                     *)
THEOREM QueriesAgree == QuerySpec => []AnswersAgree
<1>1. QueryIInv => AnswersAgree
  <2> SUFFICES ASSUME QueryIInv, state = "done" PROVE AnswersAgree
    BY DEF AnswersAgree
  <2>1. query.name \in {"getDepth", "getSubtree", "isAncestor"}
    BY QueryFields DEF QueryIInv
  <2> QED
    BY <2>1, DepthAnswerRight, AncestorAnswerRight, SubtreeAnswerRight DEF AnswersAgree, Ends
<1> QED
  BY <1>1, QueryInitInv, QueryNextInv, PTL DEF QuerySpec

=============================================================================
