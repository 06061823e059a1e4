---------------------------- MODULE RecordsProofs ---------------------------
(* Proofs about the records of a workspace, for any number of records, of       *)
(* requests and of whatever else the modules are given: no short cycle of       *)
(* blocking relations, no record left in an archived state, one answer to each  *)
(* question, evidence that can be read, requests on knowledge that take effect  *)
(* one at a time, parents, identifiers and the slices a task is handed over     *)
(* with.  The parts share no variable.                                          *)
EXTENDS Blocking, WorkflowStates, Memory, Evidence, Knowledge, Hierarchy, Identifiers,
        Handoff, WellFoundedInduction, TLAPS

------------------------------------------------------------------------------
(* Blocking relations: no short cycle.                                          *)

(* hasPath looks at one level at least.                                         *)
Bounds == MaxDepth \in Nat \ {0}

(* What the holder of the lock knows: it has not met the source, what it has    *)
(* visited leads nowhere but to what it has visited or is about to, and covers  *)
(* every path from the target of fewer relations than the levels it has walked. *)
Walk(r) ==
    LET a == adding[r] IN
    /\ a.source \notin a.visited
    /\ a.target \in a.visited \cup a.frontier
    /\ \A v \in a.visited, i \in Blockable :
          <<v, i>> \in blocks => i \in a.visited \cup a.frontier
    /\ \A k \in Nat : \A g \in [0 .. k -> Blockable] :
          k < a.depth /\ Path(blocks, k, g) /\ g[0] = a.target => g[k] \in a.visited
    /\ a.pc = "clear" => a.frontier \subseteq a.visited \/ a.depth >= MaxDepth

Fresh(r) == adding[r].pc = "locking" =>
    adding[r].depth = 0 /\ adding[r].visited = {} /\ adding[r].frontier = {adding[r].target}

OneHolder == \A r, q \in Adders : Holds(r) /\ Holds(q) => r = q

BlockingInv ==
    /\ BlockingTypeOK
    /\ OneHolder
    /\ \A r \in Adders : Fresh(r) /\ (Holds(r) => Walk(r))
    /\ NoShortCycle

------------------------------------------------------------------------------
LessThan == {p \in Nat \X Nat : p[1] < p[2]}

(* A set of natural numbers has a least one.                                    *)
LEMMA LeastNumber ==
    ASSUME NEW T \in SUBSET Nat, T # {}
    PROVE  \E m \in T : \A k \in T : m <= k
<1>1. IsWellFoundedOn(LessThan, Nat)
  BY NatLessThanWellFounded, Zenon DEF OpToRel, LessThan
<1>2. PICK m \in T : \A k \in T : ~ (<<k, m>> \in LessThan)
  BY <1>1, WFMin, Zenon
<1>3. ASSUME NEW k \in T PROVE m <= k
  <2>1. m \in Nat /\ k \in Nat /\ <<k, m>> \in Nat \X Nat
    OBVIOUS
  <2>2. ~ (k < m)
    BY <1>2, <2>1 DEF LessThan
  <2> QED BY <2>1, <2>2
<1> QED BY <1>3

(* A path of at most n of the relations E leads from s to t.                    *)
Leads(E, n, s, t) ==
    \E m \in 0 .. n : \E h \in [0 .. m -> Blockable] : Path(E, m, h) /\ h[0] = s /\ h[m] = t

(* A closed path that uses an edge has, without that edge, a shorter path from  *)
(* the end of the edge back to its start.                                       *)
LEMMA CycleOpens ==
    ASSUME NEW E, NEW n \in Nat, NEW g, NEW j \in 0 .. n - 1,
           Path(E, n, g), g[0] = g[n]
    PROVE  Leads(E \ {<<g[j], g[j + 1]>>}, n - 1, g[j + 1], g[j])
<1> DEFINE around == [i \in 0 .. n - 1 |->
                         IF j + 1 + i <= n THEN g[j + 1 + i] ELSE g[j + 1 + i - n]]
           T == {i \in 0 .. n - 1 : around[i] = g[j]}
<1>1. around \in [0 .. n - 1 -> Blockable]
  BY DEF Path
<1>2. ASSUME NEW i \in 0 .. n - 1, i < n - 1
      PROVE  <<around[i], around[i + 1]>> \in E
  <2>1. CASE j + 1 + i < n
    BY <2>1, <1>2 DEF Path
  <2>2. CASE j + 1 + i = n
    <3>1. around[i] = g[0]
      BY <2>2
    <3>2. i + 1 \in 0 .. n - 1 /\ ~ (j + 1 + (i + 1) <= n) /\ j + 1 + (i + 1) - n = 1
      BY <2>2, <1>2
    <3>3. around[i + 1] = g[1]
      BY <3>2
    <3> QED BY <3>1, <3>3, <1>2 DEF Path
  <2>3. CASE j + 1 + i > n
    <3> DEFINE k == j + 1 + i - n
    <3>1. k \in 0 .. n - 1 /\ around[i] = g[k] /\ around[i + 1] = g[k + 1]
      BY <2>3, <1>2
    <3> QED BY <3>1, <1>2 DEF Path
  <2> QED BY <2>1, <2>2, <2>3
<1>3. around[0] = g[j + 1]
  OBVIOUS
<1>4. n - 1 \in T
  <2>1. CASE j = 0
    BY <2>1
  <2>2. CASE j # 0
    BY <2>2
  <2> QED BY <2>1, <2>2
<1>5. PICK m \in T : \A k \in T : m <= k
  <2>1. T \in SUBSET Nat
    OBVIOUS
  <2> HIDE DEF T
  <2>2. T # {}
    BY <1>4
  <2> QED BY <2>1, <2>2, LeastNumber
<1> DEFINE h == [i \in 0 .. m |-> around[i]]
<1>6. m \in 0 .. n - 1 /\ h \in [0 .. m -> Blockable]
  <2>1. m \in 0 .. n - 1 /\ \A i \in 0 .. m : i \in 0 .. n - 1
    OBVIOUS
  <2> HIDE DEF around, T
  <2> QED BY <1>1, <2>1
<1>7. ASSUME NEW i \in 0 .. m - 1
      PROVE  <<h[i], h[i + 1]>> \in E \ {<<g[j], g[j + 1]>>}
  <2>1. i \in 0 .. n - 1 /\ i < n - 1 /\ i < m
    BY <1>6
  <2>2. i \notin T
    BY <1>5, <2>1
  <2>3. h[i] = around[i] /\ h[i + 1] = around[i + 1] /\ around[i] # g[j]
    BY <2>1, <2>2, <1>6
  <2> HIDE DEF h, around, T
  <2> QED BY <1>2, <2>1, <2>3
<1>8. h[0] = g[j + 1] /\ h[m] = g[j]
  BY <1>3, <1>5, <1>6
<1> HIDE DEF h, around, T
<1> QED BY <1>6, <1>7, <1>8 DEF Path, Leads

(* What a set holds that leads nowhere else, it holds of every path from it.    *)
LEMMA ClosedHoldsPath ==
    ASSUME NEW E, NEW V, NEW n \in Nat, NEW g, Path(E, n, g), g[0] \in V,
           \A v \in V, i \in Blockable : <<v, i>> \in E => i \in V
    PROVE  g[n] \in V
<1> SUFFICES ASSUME g[n] \notin V PROVE FALSE
  OBVIOUS
<1> DEFINE T == {i \in 0 .. n : g[i] \notin V}
<1>1. PICK m \in T : \A k \in T : m <= k
  <2>1. n \in T /\ T \in SUBSET Nat
    OBVIOUS
  <2> QED BY <2>1, LeastNumber
<1>2. m \in 1 .. n /\ m - 1 \in 0 .. n - 1 /\ m - 1 \notin T
  BY <1>1
<1>3. g[m - 1] \in V /\ <<g[m - 1], g[m]>> \in E /\ g[m] \in Blockable
  BY <1>2 DEF Path
<1> QED BY <1>1, <1>3

(* The first part of a path is a path.                                          *)
LEMMA PathPrefix ==
    ASSUME NEW E, NEW n \in Nat \ {0}, NEW g, Path(E, n, g)
    PROVE  LET h == [i \in 0 .. n - 1 |-> g[i]] IN
           Path(E, n - 1, h) /\ h[0] = g[0] /\ h[n - 1] = g[n - 1]
  BY DEF Path

(* Fewer relations, fewer paths.                                                *)
LEMMA PathShrinks ==
    ASSUME NEW D, NEW E, D \subseteq E, NEW n, NEW g, Path(D, n, g)
    PROVE  Path(E, n, g)
  BY DEF Path

(* A closed path that a relation s, t completes contains a path from t to s.    *)
LEMMA CompletedCycle ==
    ASSUME NEW D, NEW E, NEW s, NEW t, E = D \cup {<<s, t>>},
           NEW n \in Nat, n > 0, NEW g, Path(E, n, g), g[0] = g[n]
    PROVE  \/ Path(D, n, g)
           \/ Leads(D, n - 1, t, s)
<1>1. CASE \A i \in 0 .. n - 1 : <<g[i], g[i + 1]>> \in D
  BY <1>1 DEF Path
<1>2. CASE \E i \in 0 .. n - 1 : <<g[i], g[i + 1]>> \notin D
  <2>1. PICK j \in 0 .. n - 1 : <<g[j], g[j + 1]>> \notin D
    BY <1>2
  <2>2. <<g[j], g[j + 1]>> = <<s, t>>
    BY <2>1 DEF Path
  <2>3. Leads(E \ {<<g[j], g[j + 1]>>}, n - 1, g[j + 1], g[j])
    BY CycleOpens
  <2>5. g[j] = s /\ g[j + 1] = t /\ E \ {<<g[j], g[j + 1]>>} \subseteq D
    BY <2>2
  <2> QED BY <2>3, <2>5, PathShrinks DEF Leads
<1> QED BY <1>1, <1>2

------------------------------------------------------------------------------
(* A request that adds its relation has found no path of fewer than MaxDepth    *)
(* relations from the target back to the source.                                *)
LEMMA ClearMeansNoPath ==
    ASSUME BlockingTypeOK, NEW r \in Adders, adding[r].pc = "clear", Walk(r),
           NEW m \in Nat, m < MaxDepth, NEW h \in [0 .. m -> Blockable], Path(blocks, m, h),
           h[0] = adding[r].target, Bounds
    PROVE  h[m] # adding[r].source
<1> DEFINE a == adding[r]
<1>1. a \in Adding
  BY DEF BlockingTypeOK, NotAdding
<1>2. CASE a.depth >= MaxDepth
  <2>1. m < a.depth
    BY <1>1, <1>2 DEF Bounds, Adding
  <2>2. h[m] \in a.visited
    BY <2>1 DEF Walk
  <2> QED BY <2>2 DEF Walk
<1>3. CASE a.frontier \subseteq a.visited
  <2>1. h[0] \in a.visited
    BY <1>3 DEF Walk
  <2>2. \A v \in a.visited, i \in Blockable : <<v, i>> \in blocks => i \in a.visited
    BY <1>3 DEF Walk
  <2>3. h[m] \in a.visited
    BY <2>1, <2>2, ClosedHoldsPath
  <2> QED BY <2>3 DEF Walk
<1> QED BY <1>2, <1>3 DEF Walk

LEMMA BlockingInitOK == ASSUME Bounds, BlockingInit PROVE BlockingInv
<1>1. BlockingTypeOK
  BY DEF BlockingInit, BlockingTypeOK
<1>2. \A r \in Adders : adding[r].pc = "idle"
  BY DEF BlockingInit, NotAdding
<1>3. OneHolder /\ \A r \in Adders : Fresh(r) /\ (Holds(r) => Walk(r))
  BY <1>2 DEF OneHolder, Fresh, Holds
<1>4. NoShortCycle
  <2> SUFFICES ASSUME NEW n \in 1 .. MaxDepth, NEW g \in [0 .. n -> Blockable], Path(blocks, n, g)
               PROVE  FALSE
    BY DEF NoShortCycle
  <2>1. 0 \in 0 .. n - 1
    BY DEF Bounds
  <2> QED BY <2>1 DEF Path, BlockingInit
<1> QED BY <1>1, <1>3, <1>4 DEF BlockingInv

(* Relations that go make no cycle, and leave what a walk knows true.           *)
LEMMA NoCycleShrinks ==
    ASSUME NoShortCycle, blocks' \subseteq blocks
    PROVE  NoShortCycle'
<1> SUFFICES ASSUME NEW n \in 1 .. MaxDepth, NEW g \in [0 .. n -> Blockable], Path(blocks', n, g)
             PROVE  g[0] # g[n]
  BY DEF NoShortCycle
<1>1. Path(blocks, n, g)
  BY PathShrinks
<1> QED BY <1>1 DEF NoShortCycle

LEMMA WalkShrinks ==
    ASSUME NEW r, Walk(r), blocks' \subseteq blocks, adding'[r] = adding[r]
    PROVE  Walk(r)'
<1>1. ASSUME NEW k \in Nat, NEW g \in [0 .. k -> Blockable], k < adding[r].depth,
             Path(blocks', k, g), g[0] = adding[r].target
      PROVE  g[k] \in adding[r].visited
  <2>1. Path(blocks, k, g)
    BY <1>1, PathShrinks
  <2> QED BY <2>1, <1>1 DEF Walk
<1> QED BY <1>1 DEF Walk

LEMMA BlockingTypeStep ==
    ASSUME Bounds, BlockingTypeOK, [BlockingNext]_blockVars
    PROVE  BlockingTypeOK'
<1> USE DEF BlockingTypeOK
<1>1. ASSUME NEW r \in Adders, NEW s \in Blockable, NEW t \in Blockable, Submit(r, s, t)
      PROVE  BlockingTypeOK'
  BY <1>1 DEF Submit, Adding
<1>2. ASSUME NEW r \in Adders, Lock(r) PROVE BlockingTypeOK'
  <2>1. [adding[r] EXCEPT !.pc = "walking"] \in Adding
    BY <1>2 DEF Lock, Adding, NotAdding
  <2> QED BY <1>2, <2>1 DEF Lock
<1>3. ASSUME NEW r \in Adders, Level(r) PROVE BlockingTypeOK'
  <2>1. adding[r] \in Adding
    BY <1>3 DEF Level, NotAdding
  <2>2. [adding[r] EXCEPT !.pc = "clear"] \in Adding
    BY <2>1 DEF Adding
  <2>3. [adding[r] EXCEPT !.visited = @ \cup New(r), !.frontier = Successors(New(r)),
                          !.depth = @ + 1] \in Adding
    <3>1. New(r) \in SUBSET Blockable /\ Successors(New(r)) \in SUBSET Blockable
      BY <2>1 DEF Adding, New, Successors
    <3>2. adding[r].visited \cup New(r) \in SUBSET Blockable /\ adding[r].depth + 1 \in Nat
      BY <2>1, <3>1 DEF Adding
    <3>3. \A a \in Adding : \A S, F \in SUBSET Blockable : \A d \in Nat :
             [a EXCEPT !.visited = S, !.frontier = F, !.depth = d] \in Adding
      BY DEF Adding
    <3> QED BY <2>1, <3>1, <3>2, <3>3
  <2> QED BY <1>3, <2>2, <2>3 DEF Level
<1>4. ASSUME NEW r \in Adders, RefuseRelation(r) \/ Abort(r) PROVE BlockingTypeOK'
  BY <1>4 DEF RefuseRelation, Abort, Finish
<1>5. ASSUME NEW r \in Adders, InsertRelation(r) PROVE BlockingTypeOK'
  <2>1. adding[r] \in Adding
    BY <1>5 DEF InsertRelation, NotAdding
  <2>2. <<adding[r].source, adding[r].target>> \in Pairs
    BY <2>1 DEF Adding, Pairs
  <2> QED BY <1>5, <2>2 DEF InsertRelation, Finish
<1>6. ASSUME NEW e \in blocks, DeleteRelation(e) PROVE BlockingTypeOK'
  BY <1>6 DEF DeleteRelation
<1>7. CASE UNCHANGED blockVars
  BY <1>7 DEF blockVars
<1> QED BY <1>1, <1>2, <1>3, <1>4, <1>5, <1>6, <1>7 DEF BlockingNext

(* One turn of hasPath's loop adds a level to what the walk knows.              *)
LEMMA WalkLevel ==
    ASSUME Bounds, BlockingTypeOK, NEW r \in Adders, Walk(r), Level(r)
    PROVE  Walk(r)'
<1> DEFINE a == adding[r]
<1>1. a \in Adding /\ r \in DOMAIN adding /\ blocks' = blocks
  BY DEF Level, BlockingTypeOK, NotAdding
<1>2. CASE Exhausted(r) /\ adding' = [adding EXCEPT ![r].pc = "clear"]
  <2>1. a.frontier \subseteq a.visited \/ a.depth >= MaxDepth
    BY <1>2 DEF Exhausted, New
  <2>2. adding'[r] = [a EXCEPT !.pc = "clear"]
    BY <1>1, <1>2
  <2>3. /\ adding'[r].source = a.source /\ adding'[r].target = a.target
        /\ adding'[r].visited = a.visited /\ adding'[r].frontier = a.frontier
        /\ adding'[r].depth = a.depth
    BY <1>1, <2>2 DEF Adding
  <2> QED BY <1>1, <2>1, <2>3 DEF Walk, Path
<1>3. CASE /\ ~Exhausted(r)
           /\ adding' = [adding EXCEPT ![r].visited = @ \cup New(r),
                                       ![r].frontier = Successors(New(r)),
                                       ![r].depth = @ + 1]
  <2> DEFINE b == adding'[r]
  <2>1. b = [a EXCEPT !.visited = @ \cup New(r), !.frontier = Successors(New(r)),
                      !.depth = @ + 1]
    BY <1>1, <1>3
  <2>2. /\ b.source = a.source /\ b.target = a.target /\ b.pc = a.pc
        /\ b.visited = a.visited \cup a.frontier
        /\ b.frontier = Successors(New(r)) /\ b.depth = a.depth + 1
    <3>1. a.visited \cup New(r) = a.visited \cup a.frontier
      BY DEF New
    <3> HIDE DEF a, b
    <3> DEFINE S == Successors(New(r))
    <3> HIDE DEF S
    <3> QED BY <2>1, <1>1, <3>1 DEF Adding, a, b, S
  <2>3. a.source \notin a.frontier
    BY <1>1, <1>3 DEF Level, Reached, Exhausted, Adding, Bounds
  <2>4. ASSUME NEW v \in b.visited, NEW i \in Blockable, <<v, i>> \in blocks
        PROVE  i \in b.visited \cup b.frontier
    <3>1. CASE v \in a.visited
      BY <3>1, <2>2, <2>4 DEF Walk
    <3>2. CASE v \notin a.visited
      <4>1. v \in New(r)
        BY <3>2, <2>2 DEF New
      <4>2. i \in Successors(New(r))
        BY <4>1, <2>4 DEF Successors
      <4> QED BY <4>2, <2>2
    <3> QED BY <3>1, <3>2
  <2>5. ASSUME NEW k \in Nat, NEW g \in [0 .. k -> Blockable], k < a.depth + 1,
               Path(blocks, k, g), g[0] = a.target
        PROVE  g[k] \in b.visited
    <3>1. a.depth \in Nat
      BY <1>1 DEF Adding
    <3>2. CASE k < a.depth
      BY <3>2, <2>2, <2>5 DEF Walk
    <3>3. CASE k = 0
      BY <3>3, <2>2, <2>5 DEF Walk
    <3>4. CASE k = a.depth /\ k # 0
      <4> DEFINE h == [i \in 0 .. k - 1 |-> g[i]]
      <4>1. Path(blocks, k - 1, h) /\ h[0] = g[0] /\ h[k - 1] = g[k - 1]
        BY <2>5, <3>4, PathPrefix
      <4>2. k - 1 \in Nat /\ k - 1 < a.depth /\ h \in [0 .. k - 1 -> Blockable]
        BY <3>4, <4>1, <3>1 DEF Path
      <4> HIDE DEF h
      <4>3. h[k - 1] \in a.visited
        BY <4>1, <4>2, <2>5 DEF Walk
      <4>4. <<g[k - 1], g[k]>> \in blocks /\ g[k] \in Blockable
        <5>1. k - 1 \in 0 .. k - 1 /\ (k - 1) + 1 = k /\ k \in 0 .. k
          BY <3>4
        <5> QED BY <5>1, <2>5 DEF Path
      <4> QED BY <4>1, <4>3, <4>4, <2>2 DEF Walk
    <3> QED BY <2>5, <3>1, <3>2, <3>3, <3>4
  <2>6. a.pc = "walking"
    BY DEF Level
  <2> HIDE DEF b
  <2>7. /\ b.source \notin b.visited
        /\ b.target \in b.visited \cup b.frontier
        /\ b.pc # "clear"
    BY <2>2, <2>3, <2>6 DEF Walk
  <2> QED BY <1>1, <2>2, <2>4, <2>5, <2>7 DEF Walk, b
<1> QED BY <1>2, <1>3 DEF Level

(* Adding the relation of a request that is clear makes no short cycle.         *)
LEMMA InsertMakesNoCycle ==
    ASSUME Bounds, BlockingTypeOK, NoShortCycle, NEW r \in Adders, Walk(r), InsertRelation(r)
    PROVE  NoShortCycle'
<1> DEFINE s == adding[r].source
           t == adding[r].target
<1>1. adding[r].pc = "clear" /\ blocks' = blocks \cup {<<s, t>>}
  BY DEF InsertRelation
<1> SUFFICES ASSUME NEW n \in 1 .. MaxDepth, NEW g \in [0 .. n -> Blockable],
                    Path(blocks', n, g), g[0] = g[n]
             PROVE  FALSE
  BY DEF NoShortCycle
<1>2. n \in Nat /\ n <= MaxDepth /\ n > 0
  BY DEF Bounds
<1>3. \/ Path(blocks, n, g)
      \/ Leads(blocks, n - 1, t, s)
  BY <1>1, <1>2, CompletedCycle
<1>4. CASE Path(blocks, n, g)
  BY <1>4 DEF NoShortCycle
<1>5. ASSUME NEW m \in 0 .. n - 1, NEW h \in [0 .. m -> Blockable],
             Path(blocks, m, h), h[0] = t, h[m] = s
      PROVE  FALSE
  <2>1. m \in Nat /\ m < MaxDepth
    BY <1>2 DEF Bounds
  <2> QED BY <1>1, <1>5, <2>1, ClearMeansNoPath
<1> QED BY <1>3, <1>4, <1>5 DEF Leads

LEMMA BlockingInvStep ==
    ASSUME Bounds, BlockingInv, [BlockingNext]_blockVars
    PROVE  BlockingInv'
<1> USE DEF BlockingInv
<1>1. BlockingTypeOK'
  BY BlockingTypeStep
<1>2. ASSUME NEW r \in Adders, NEW s \in Blockable, NEW t \in Blockable, Submit(r, s, t)
      PROVE  BlockingInv'
  <2>1. /\ blocks' = blocks /\ ~Holds(r) /\ ~Holds(r)' /\ Fresh(r)'
        /\ \A q \in Adders : q # r => adding'[q] = adding[q]
    BY <1>2 DEF Submit, Holds, Fresh, BlockingTypeOK, NotAdding
  <2>2. OneHolder' /\ \A q \in Adders : Fresh(q)'
    BY <2>1 DEF OneHolder, Holds, Fresh
  <2>3. \A q \in Adders : Holds(q)' => Walk(q)'
    BY <2>1, WalkShrinks DEF Holds
  <2>4. NoShortCycle'
    BY <2>1, NoCycleShrinks
  <2> QED BY <1>1, <2>2, <2>3, <2>4
<1>3. ASSUME NEW r \in Adders, Lock(r) PROVE BlockingInv'
  <2>1. /\ blocks' = blocks /\ r \in DOMAIN adding /\ adding[r] \in Adding
        /\ adding'[r] = [adding[r] EXCEPT !.pc = "walking"]
        /\ \A q \in Adders : q # r => adding'[q] = adding[q] /\ ~Holds(q)
    BY <1>3 DEF Lock, Free, BlockingTypeOK, NotAdding
  <2>2. OneHolder' /\ \A q \in Adders : Fresh(q)'
    BY <2>1 DEF OneHolder, Holds, Fresh, Adding
  <2>3. Walk(r)'
    <3>1. /\ adding'[r].depth = 0 /\ adding'[r].visited = {} /\ adding'[r].pc = "walking"
          /\ adding'[r].frontier = {adding'[r].target}
      BY <2>1, <1>3 DEF Fresh, Lock, Adding
    <3> QED BY <3>1 DEF Walk
  <2>4. \A q \in Adders : Holds(q)' => Walk(q)'
    BY <2>1, <2>3 DEF Holds
  <2>5. NoShortCycle'
    BY <2>1, NoCycleShrinks
  <2> QED BY <1>1, <2>2, <2>4, <2>5
<1>4. ASSUME NEW r \in Adders, Level(r) PROVE BlockingInv'
  <2>1. /\ blocks' = blocks /\ Holds(r) /\ adding'[r].pc # "locking"
        /\ \A q \in Adders : q # r => adding'[q] = adding[q]
    BY <1>4 DEF Level, Holds, BlockingTypeOK, NotAdding, Adding
  <2>2. OneHolder' /\ \A q \in Adders : Fresh(q)'
    BY <2>1 DEF OneHolder, Holds, Fresh
  <2>3. Walk(r)'
    BY <1>4, <2>1, WalkLevel
  <2>4. \A q \in Adders : Holds(q)' => Walk(q)'
    BY <2>1, <2>3, WalkShrinks DEF Holds
  <2>5. NoShortCycle'
    BY <2>1, NoCycleShrinks
  <2> QED BY <1>1, <2>2, <2>4, <2>5
<1>5. ASSUME NEW r \in Adders, RefuseRelation(r) \/ Abort(r) PROVE BlockingInv'
  <2>1. /\ blocks' = blocks /\ adding'[r] = NotAdding
        /\ \A q \in Adders : q # r => adding'[q] = adding[q]
    BY <1>5 DEF RefuseRelation, Abort, Finish, BlockingTypeOK
  <2>2. OneHolder' /\ \A q \in Adders : Fresh(q)'
    BY <2>1 DEF OneHolder, Holds, Fresh, NotAdding
  <2>3. \A q \in Adders : Holds(q)' => Walk(q)'
    BY <2>1, WalkShrinks DEF Holds, NotAdding
  <2>4. NoShortCycle'
    BY <2>1, NoCycleShrinks
  <2> QED BY <1>1, <2>2, <2>3, <2>4
<1>6. ASSUME NEW r \in Adders, InsertRelation(r) PROVE BlockingInv'
  <2>1. /\ Holds(r) /\ adding'[r] = NotAdding
        /\ \A q \in Adders : q # r => adding'[q] = adding[q] /\ ~Holds(q)
    BY <1>6 DEF InsertRelation, Finish, Holds, OneHolder, BlockingTypeOK
  <2>2. \A q \in Adders : ~Holds(q)' /\ Fresh(q)'
    BY <2>1 DEF Holds, Fresh, NotAdding
  <2>3. NoShortCycle'
    BY <1>6, <2>1, InsertMakesNoCycle
  <2> QED BY <1>1, <2>2, <2>3 DEF OneHolder
<1>7. ASSUME NEW e \in blocks, DeleteRelation(e) PROVE BlockingInv'
  <2>1. blocks' \subseteq blocks /\ adding' = adding
    BY <1>7 DEF DeleteRelation
  <2>2. OneHolder' /\ \A q \in Adders : Fresh(q)'
    BY <2>1 DEF OneHolder, Holds, Fresh
  <2>3. \A q \in Adders : Holds(q)' => Walk(q)'
    BY <2>1, WalkShrinks DEF Holds
  <2>4. NoShortCycle'
    BY <2>1, NoCycleShrinks
  <2> QED BY <1>1, <2>2, <2>3, <2>4
<1>8. CASE UNCHANGED blockVars
  <2>1. blocks' = blocks /\ adding' = adding
    BY <1>8 DEF blockVars
  <2>2. OneHolder' /\ \A q \in Adders : Fresh(q)'
    BY <2>1 DEF OneHolder, Holds, Fresh
  <2>3. \A q \in Adders : Holds(q)' => Walk(q)'
    BY <2>1, WalkShrinks DEF Holds
  <2>4. NoShortCycle'
    BY <2>1, NoCycleShrinks
  <2> QED BY <1>1, <2>2, <2>3, <2>4
<1> QED BY <1>2, <1>3, <1>4, <1>5, <1>6, <1>7, <1>8 DEF BlockingNext

(* Blocking relations never close a cycle of at most MaxDepth relations,        *)
(* whatever the number of items and of requests that add or delete relations at *)
(* once: createRelation, hasPath and deleteRelation keep BlockingInv, in which  *)
(* the holder of the advisory lock knows what its walk has shown.               *)
THEOREM BlockingAcyclic == ASSUME Bounds PROVE BlockingSpec => []NoShortCycle
<1>1. BlockingInit => BlockingInv
  BY BlockingInitOK
<1>2. BlockingInv /\ [BlockingNext]_blockVars => BlockingInv'
  BY BlockingInvStep
<1>3. BlockingInv => NoShortCycle
  BY DEF BlockingInv
<1> QED BY <1>1, <1>2, <1>3, PTL DEF BlockingSpec

------------------------------------------------------------------------------
(* Workflow states: archiving leaves no record behind.                          *)

Moved(r) == change[r].pc = "moved"

(* What a request that archives a state knows between its UPDATE and its        *)
(* commit: the rows it holds are still in the state and nobody else's, and      *)
(* whatever else is in the state came late.                                     *)
RowsHeld == \A r \in Changers : Moved(r) =>
    /\ \A i \in change[r].rows : place[i] = change[r].from
    /\ \A i \in Items : place[i] = change[r].from => i \in change[r].rows \cup late
RowsApart == \A q, r \in Changers : Moved(q) /\ Moved(r) /\ q # r =>
    change[q].rows \cap change[r].rows = {}

ArchiveInv == WorkflowTypeOK /\ NoRecordInArchived /\ RowsHeld /\ RowsApart

(* Two kinds of request.                                                        *)
LEMMA RequestShape ==
    ASSUME WorkflowTypeOK, NEW r \in Changers
    PROVE  /\ change[r] = NoChange \/ change[r] \in Placing \/ change[r] \in Archiving
           /\ change[r].pc = "placing" => change[r] \in Placing
           /\ change[r].pc \in {"read", "moved"} => change[r] \in Archiving
           /\ change[r] # NoChange => change[r].pc # "idle"
  BY DEF WorkflowTypeOK, NoChange, Placing, Archiving

(* Outdated touches no request that archives.                                   *)
LEMMA OutdatedKeeps ==
    ASSUME NEW q \in [Changers -> Placing \cup Archiving \cup {NoChange}], NEW S
    PROVE  /\ Outdated(q, S) \in [Changers -> Placing \cup Archiving \cup {NoChange}]
           /\ \A r \in Changers : q[r].pc # "placing" => Outdated(q, S)[r] = q[r]
           /\ \A r \in Changers : Outdated(q, S)[r].pc = q[r].pc
  <1>1. \A a \in Placing : [a EXCEPT !.stale = TRUE] \in Placing /\ [a EXCEPT !.stale = TRUE].pc = a.pc
    BY DEF Placing
  <1>2. \A r \in Changers : q[r].pc = "placing" => q[r] \in Placing
    BY DEF Placing, Archiving, NoChange
  <1> QED
    BY <1>1, <1>2 DEF Outdated

LEMMA ArchiveStep == ArchiveInv /\ [WorkflowNext]_workflowVars => ArchiveInv'
  <1> SUFFICES ASSUME ArchiveInv, [WorkflowNext]_workflowVars PROVE ArchiveInv'
    OBVIOUS
  <1>t. /\ change \in [Changers -> Placing \cup Archiving \cup {NoChange}]
        /\ place \in [Items -> States \cup {Nobody}] /\ archived \subseteq States
        /\ late \subseteq Items /\ kind \in {"task", "flow"}
    BY DEF ArchiveInv, WorkflowTypeOK
  <1>1. CASE UNCHANGED workflowVars
    BY <1>1 DEF workflowVars, ArchiveInv, WorkflowTypeOK, NoRecordInArchived, RowsHeld, RowsApart, Moved
  <1>2. ASSUME NEW r \in Changers,
               \/ \E i \in Items, s \in States : PlaceRead(r, i, s)
               \/ \E s, t \in States : ArchiveRead(r, s, t)
               \/ FailRequest(r)
        PROVE  ArchiveInv'
    <2>1. /\ UNCHANGED <<kind, archived, place, late>>
          /\ change' = [change EXCEPT ![r] = change'[r]]
          /\ change'[r] \in Placing \cup Archiving \cup {NoChange}
          /\ change'[r].pc # "moved"
      <3>1. CASE FailRequest(r)
        BY <3>1, <1>t DEF FailRequest, NoChange
      <3>2. ASSUME NEW i \in Items, NEW s \in States, PlaceRead(r, i, s)
            PROVE  /\ UNCHANGED <<kind, archived, place, late>>
                   /\ change' = [change EXCEPT ![r] = change'[r]]
                   /\ change'[r] \in Placing /\ change'[r].pc # "moved"
        <4> DEFINE a == [pc |-> "placing", item |-> i, to |-> s, stale |-> FALSE]
        <4>1. a \in Placing /\ a.pc # "moved"
          BY DEF Placing
        <4>2. change' = [change EXCEPT ![r] = a] /\ UNCHANGED <<kind, archived, place, late>>
          BY <3>2 DEF PlaceRead
        <4> HIDE DEF a
        <4> QED
          BY <4>1, <4>2, <1>t
      <3>3. ASSUME NEW s \in States, NEW t \in States, ArchiveRead(r, s, t)
            PROVE  /\ UNCHANGED <<kind, archived, place, late>>
                   /\ change' = [change EXCEPT ![r] = change'[r]]
                   /\ change'[r] \in Archiving /\ change'[r].pc # "moved"
        <4> DEFINE a == [pc |-> "read", from |-> s, to |-> t, rows |-> {}]
        <4>1. a \in Archiving /\ a.pc # "moved"
          BY DEF Archiving
        <4>2. change' = [change EXCEPT ![r] = a] /\ UNCHANGED <<kind, archived, place, late>>
          BY <3>3 DEF ArchiveRead
        <4> HIDE DEF a
        <4> QED
          BY <4>1, <4>2, <1>t
      <3> QED
        BY <1>2, <3>1, <3>2, <3>3
    <2> QED
      BY <2>1, <1>t DEF ArchiveInv, WorkflowTypeOK, NoRecordInArchived, RowsHeld, RowsApart, Moved
  <1>3. ASSUME NEW r \in Changers, PlaceWrite(r) PROVE ArchiveInv'
    <2> DEFINE i == change[r].item  s == change[r].to
               q == [change EXCEPT ![r] = NoChange]
    <2>1. i \in Items /\ s \in States
      BY <1>3, RequestShape DEF PlaceWrite, ArchiveInv, Placing
    <2>2. /\ UNCHANGED <<kind, archived>> /\ place' = [place EXCEPT ![i] = s] /\ ~Locked(i)
          /\ late' = IF s \in archived \/ Emptied(s) THEN late \cup {i} ELSE late \ {i}
          /\ change' = Outdated(q, {i}) /\ change[r].pc = "placing"
      BY <1>3 DEF PlaceWrite
    <2>3. q \in [Changers -> Placing \cup Archiving \cup {NoChange}]
      BY <1>t
    <2>4. /\ change' \in [Changers -> Placing \cup Archiving \cup {NoChange}]
          /\ \A p \in Changers : Moved(p)' <=> Moved(p)
          /\ \A p \in Changers : Moved(p) => change'[p] = change[p]
      <3>1. \A p \in Changers : q[p] = IF p = r THEN NoChange ELSE change[p]
        BY <1>t
      <3>2. /\ change' \in [Changers -> Placing \cup Archiving \cup {NoChange}]
            /\ \A p \in Changers : q[p].pc # "placing" => change'[p] = q[p]
            /\ \A p \in Changers : change'[p].pc = q[p].pc
        BY <2>2, <2>3, OutdatedKeeps
      <3>3. change[r].pc = "placing" /\ q[r].pc = "idle"
        BY <2>2, <3>1 DEF NoChange
      <3> HIDE DEF i, s, q
      <3>4. \A p \in Changers : p # r => change'[p].pc = change[p].pc
        BY <3>1, <3>2
      <3>5. \A p \in Changers : p # r /\ change[p].pc = "moved" => change'[p] = change[p]
        BY <3>1, <3>2
      <3> QED
        BY <3>2, <3>3, <3>4, <3>5 DEF Moved
    <2> HIDE DEF i, s, q
    <2>5. WorkflowTypeOK'
      BY <1>t, <2>1, <2>2, <2>4 DEF WorkflowTypeOK
    <2>6. NoRecordInArchived'
      <3> SUFFICES ASSUME NEW j \in Items, place'[j] \in archived, j \notin late' PROVE FALSE
        BY <2>2 DEF NoRecordInArchived
      <3>1. place'[i] = s
        BY <1>t, <2>1, <2>2
      <3>2. s \in archived => i \in late'
        BY <2>2
      <3>3. j # i
        BY <3>1, <3>2
      <3>4. place'[j] = place[j]
        BY <1>t, <2>1, <2>2, <3>3
      <3>5. late' = late \cup {i} \/ late' = late \ {i}
        BY <2>2
      <3>6. place[j] \in archived /\ j \notin late
        BY <3>3, <3>4, <3>5
      <3> QED
        BY <3>6 DEF ArchiveInv, NoRecordInArchived
    <2>7. RowsHeld'
      <3> SUFFICES ASSUME NEW p \in Changers, Moved(p)
                   PROVE  /\ \A j \in change[p].rows : place'[j] = change[p].from
                          /\ \A j \in Items : place'[j] = change[p].from => j \in change[p].rows \cup late'
        BY <2>4 DEF RowsHeld
      <3>1. i \notin change[p].rows /\ change[p].rows \subseteq Items
        BY <2>2, RequestShape DEF Locked, Moved, ArchiveInv, Archiving
      <3>2. s = change[p].from => i \in late'
        BY <2>2 DEF Emptied, Moved
      <3> QED
        BY <1>t, <2>1, <2>2, <3>1, <3>2 DEF ArchiveInv, RowsHeld
    <2>8. RowsApart'
      BY <2>4 DEF ArchiveInv, RowsApart
    <2> QED
      BY <2>5, <2>6, <2>7, <2>8 DEF ArchiveInv
  <1>4. ASSUME NEW r \in Changers, ArchiveMove(r) PROVE ArchiveInv'
    <2> DEFINE rows == {i \in Items : place[i] = change[r].from}
    <2>1. /\ UNCHANGED <<kind, archived, place, late>> /\ change[r].pc = "read"
          /\ change' = [change EXCEPT ![r].pc = "moved", ![r].rows = rows]
          /\ \A i \in rows : ~Locked(i)
      BY <1>4 DEF ArchiveMove, Reassigned
    <2>2. change[r] \in Archiving
      BY <2>1, RequestShape DEF ArchiveInv
    <2>3. \A a \in Archiving, S \in SUBSET Items :
             /\ [a EXCEPT !.pc = "moved", !.rows = S] \in Archiving
             /\ [a EXCEPT !.pc = "moved", !.rows = S].pc = "moved"
             /\ [a EXCEPT !.pc = "moved", !.rows = S].rows = S
             /\ [a EXCEPT !.pc = "moved", !.rows = S].from = a.from
      BY DEF Archiving
    <2>4. /\ change'[r] \in Archiving /\ change'[r].pc = "moved"
          /\ change'[r].rows = rows /\ change'[r].from = change[r].from
          /\ \A p \in Changers \ {r} : change'[p] = change[p]
          /\ change' \in [Changers -> Placing \cup Archiving \cup {NoChange}]
      <3> DEFINE a == [change[r] EXCEPT !.pc = "moved", !.rows = rows]
      <3>1. a \in Archiving /\ a.pc = "moved" /\ a.rows = rows /\ a.from = change[r].from
        <4> HIDE DEF rows
        <4>1. rows \in SUBSET Items
          BY DEF rows
        <4> QED
          BY <2>2, <2>3, <4>1
      <3>2. change' = [change EXCEPT ![r] = a]
        BY <2>1
      <3> HIDE DEF a
      <3> QED
        BY <1>t, <3>1, <3>2
    <2>5. WorkflowTypeOK' /\ NoRecordInArchived'
      BY <1>t, <2>1, <2>4 DEF ArchiveInv, WorkflowTypeOK, NoRecordInArchived
    <2>6. RowsHeld'
      BY <2>1, <2>4 DEF ArchiveInv, RowsHeld, Moved
    <2>7. \A p \in Changers : Moved(p) => change[p].rows \cap rows = {}
      BY <2>1 DEF Locked, Moved
    <2> HIDE DEF rows
    <2>8. RowsApart'
      BY <2>4, <2>7 DEF ArchiveInv, RowsApart, Moved
    <2> QED
      BY <2>5, <2>6, <2>8 DEF ArchiveInv
  <1>5. ASSUME NEW r \in Changers, ArchiveCommit(r) PROVE ArchiveInv'
    <2> DEFINE s == change[r].from  t == change[r].to  rows == change[r].rows
               q == [change EXCEPT ![r] = NoChange]
    <2>1. s \in States /\ t \in States /\ rows \subseteq Items
      BY <1>5, RequestShape DEF ArchiveCommit, ArchiveInv, Archiving
    <2>2. /\ UNCHANGED kind /\ archived' = archived \cup {s} /\ Moved(r)
          /\ place' = [i \in Items |-> IF i \in rows THEN t ELSE place[i]]
          /\ late' = IF t \in archived \/ Emptied(t) THEN late \cup rows ELSE late \ rows
          /\ change' = Outdated(q, rows)
      BY <1>5 DEF ArchiveCommit, Moved
    <2>3. q \in [Changers -> Placing \cup Archiving \cup {NoChange}]
      BY <1>t
    <2>4. /\ change' \in [Changers -> Placing \cup Archiving \cup {NoChange}]
          /\ \A p \in Changers : Moved(p)' => Moved(p) /\ p # r /\ change'[p] = change[p]
      <3>1. \A p \in Changers : q[p] = IF p = r THEN NoChange ELSE change[p]
        BY <1>t
      <3>2. /\ change' \in [Changers -> Placing \cup Archiving \cup {NoChange}]
            /\ \A p \in Changers : q[p].pc # "placing" => change'[p] = q[p]
            /\ \A p \in Changers : change'[p].pc = q[p].pc
        BY <2>2, <2>3, OutdatedKeeps
      <3> QED
        BY <3>1, <3>2 DEF Moved, NoChange
    <2>5. /\ \A i \in rows : place[i] = s
          /\ \A i \in Items : place[i] = s => i \in rows \cup late
      BY <2>2 DEF ArchiveInv, RowsHeld
    <2>6. s = t => rows \subseteq late'
      BY <2>2 DEF Emptied, Moved
    <2> HIDE DEF s, t, rows, q
    <2>7. WorkflowTypeOK'
      BY <1>t, <2>1, <2>2, <2>4 DEF WorkflowTypeOK
    <2>8. NoRecordInArchived'
      BY <1>t, <2>1, <2>2, <2>5, <2>6 DEF ArchiveInv, NoRecordInArchived
    <2>9. ASSUME NEW p \in Changers, Moved(p)'
          PROVE  /\ \A j \in change[p].rows : place'[j] = change[p].from
                 /\ \A j \in Items : place'[j] = change[p].from => j \in change[p].rows \cup late'
      <3>1. Moved(p) /\ p # r /\ change[p].rows \subseteq Items
        BY <2>4, <2>9, RequestShape DEF Moved, ArchiveInv, Archiving
      <3>2. change[p].rows \cap rows = {}
        BY <2>2, <3>1 DEF ArchiveInv, RowsApart, rows
      <3>3. t = change[p].from => rows \subseteq late'
        BY <2>2, <3>1 DEF Emptied, Moved
      <3> QED
        BY <2>1, <2>2, <3>1, <3>2, <3>3 DEF ArchiveInv, RowsHeld
    <2>10. RowsHeld' /\ RowsApart'
      BY <2>4, <2>9 DEF ArchiveInv, RowsHeld, RowsApart
    <2> QED
      BY <2>7, <2>8, <2>10 DEF ArchiveInv
  <1> QED
    BY <1>1, <1>2, <1>3, <1>4, <1>5 DEF WorkflowNext

------------------------------------------------------------------------------
(* No record is in an archived state, but for one that a request put there      *)
(* which had read the state before, in every reachable state.                   *)
THEOREM ArchivedEmpty == WorkflowSpec => []NoRecordInArchived
  <1>1. WorkflowInit => ArchiveInv
    BY DEF WorkflowInit, ArchiveInv, WorkflowTypeOK, NoRecordInArchived, RowsHeld, RowsApart,
           Moved, NoChange
  <1>2. ArchiveInv => NoRecordInArchived
    BY DEF ArchiveInv
  <1> QED
    BY <1>1, <1>2, ArchiveStep, PTL DEF WorkflowSpec

------------------------------------------------------------------------------
(* Claims and decisions.                                                        *)

(* A request that rules names records of the project.                           *)
LEMMA RulingShape ==
    ASSUME MemoryTypeOK, NEW r \in Rulers, ruling[r].pc = "read"
    PROVE  /\ ruling[r].of \in Records /\ ruling[r].by \in Records
           /\ ruling[r].kind \in {"resolve", "supersede"}
  <1>1. ruling[r] \in Ruling \cup {NoRuling}
    BY DEF MemoryTypeOK
  <1>2. ruling[r] # NoRuling
    BY DEF NoRuling
  <1> QED
    BY <1>1, <1>2 DEF Ruling

(* The requests in progress stay well-formed: one ends or begins.               *)
LEMMA RulingKept ==
    ASSUME MemoryTypeOK, NEW r \in Rulers, NEW x \in Records, NEW y \in Records,
           \/ UNCHANGED ruling
           \/ ruling' = [ruling EXCEPT ![r] = NoRuling]
           \/ ruling' = [ruling EXCEPT ![r] = [pc |-> "read", kind |-> "resolve", of |-> x, by |-> x]]
           \/ ruling' = [ruling EXCEPT ![r] = [pc |-> "read", kind |-> "supersede", of |-> x, by |-> y]]
    PROVE  ruling' \in [Rulers -> Ruling \cup {NoRuling}]
  <1>1. /\ [pc |-> "read", kind |-> "resolve", of |-> x, by |-> x] \in Ruling
        /\ [pc |-> "read", kind |-> "supersede", of |-> x, by |-> y] \in Ruling
    BY DEF Ruling
  <1>2. ruling \in [Rulers -> Ruling \cup {NoRuling}]
    BY DEF MemoryTypeOK
  <1> QED
    BY <1>1, <1>2

(* The type invariant is kept.                                                  *)
LEMMA MemoryTypeStep == MemoryTypeOK /\ [MemoryNext]_memoryVars => MemoryTypeOK'
  <1> SUFFICES ASSUME MemoryTypeOK, [MemoryNext]_memoryVars PROVE MemoryTypeOK'
    OBVIOUS
  <1>1. CASE UNCHANGED memoryVars
    BY <1>1 DEF memoryVars, MemoryTypeOK
  <1>2. ASSUME NEW x \in Records, Propose(x) PROVE MemoryTypeOK'
    BY <1>2 DEF Propose, MemoryTypeOK, Status
  <1>3. ASSUME NEW r \in Rulers, NEW x \in Records, ResolveRead(r, x) PROVE MemoryTypeOK'
    <2>1. ruling' \in [Rulers -> Ruling \cup {NoRuling}]
      BY <1>3, RulingKept DEF ResolveRead
    <2> QED
      BY <1>3, <2>1 DEF ResolveRead, MemoryTypeOK
  <1>4. ASSUME NEW r \in Rulers, NEW x \in Records, NEW y \in Records, SupersedeRead(r, x, y)
        PROVE  MemoryTypeOK'
    <2>1. ruling' \in [Rulers -> Ruling \cup {NoRuling}]
      BY <1>4, RulingKept DEF SupersedeRead
    <2> QED
      BY <1>4, <2>1 DEF SupersedeRead, MemoryTypeOK
  <1>5. ASSUME NEW r \in Rulers, Accept(r) \/ Reject(r) \/ Supersede(r)
        PROVE  MemoryTypeOK'
    <2>1. /\ ruling[r].of \in Records /\ ruling[r].by \in Records
          /\ ruling' = [ruling EXCEPT ![r] = NoRuling]
      BY <1>5, RulingShape DEF Accept, Reject, Supersede
    <2>2. ruling' \in [Rulers -> Ruling \cup {NoRuling}]
      BY <2>1, RulingKept
    <2>3. status' \in [Records -> Status]
      BY <1>5, <2>1 DEF Accept, Reject, Supersede, Replaced, MemoryTypeOK, Status
    <2>4. supersededBy' \in [Records -> Records \cup {Unset}]
      BY <1>5, <2>1 DEF Accept, Reject, Supersede, MemoryTypeOK
    <2>5. odd' \subseteq Decisions
      BY <1>5, <2>1 DEF Accept, Reject, Supersede, MemoryTypeOK
    <2> QED
      BY <2>2, <2>3, <2>4, <2>5 DEF MemoryTypeOK
  <1>6. ASSUME NEW r \in Rulers, Abandon(r) PROVE MemoryTypeOK'
    BY <1>6 DEF Abandon, MemoryTypeOK
  <1> QED
    BY <1>1, <1>2, <1>3, <1>4, <1>5, <1>6 DEF MemoryNext

------------------------------------------------------------------------------
(* One accepted answer a question: the step of each action.                     *)
LEMMA OneAnswerStep == MemoryTypeOK /\ OneAnswer /\ [MemoryNext]_memoryVars => OneAnswer'
  <1> SUFFICES ASSUME MemoryTypeOK, OneAnswer, [MemoryNext]_memoryVars PROVE OneAnswer'
    OBVIOUS
  <1> USE DEF SameQuestion
  <1>1. CASE UNCHANGED memoryVars
    BY <1>1 DEF memoryVars, OneAnswer
  <1>2. ASSUME NEW x \in Records, Propose(x) PROVE OneAnswer'
    BY <1>2 DEF Propose, OneAnswer, MemoryTypeOK, Records
  <1>3. ASSUME NEW r \in Rulers, NEW x \in Records, ResolveRead(r, x) PROVE OneAnswer'
    BY <1>3 DEF ResolveRead, OneAnswer
  <1>4. ASSUME NEW r \in Rulers, NEW x \in Records, NEW y \in Records, SupersedeRead(r, x, y)
        PROVE  OneAnswer'
    BY <1>4 DEF SupersedeRead, OneAnswer
  <1>5. ASSUME NEW r \in Rulers, Accept(r) PROVE OneAnswer'
    <2>1. ruling[r].of \in Records
      BY <1>5, RulingShape DEF Accept
    <2> DEFINE x == ruling[r].of
    <2>2. /\ status' = [status EXCEPT ![x] = "accepted"] /\ odd' = odd
          /\ ~\E y \in Decisions \ {x} : SameQuestion(x, y) /\ status[y] = "accepted"
      BY <1>5 DEF Accept, Answered
    <2> HIDE DEF x
    <2>3. ASSUME NEW y \in Decisions, NEW z \in Decisions, QuestionOf[y] = QuestionOf[z],
                 status'[y] = "accepted", status'[z] = "accepted", y # z
          PROVE  y \in odd' \/ z \in odd'
      <3>1. y # x => status[y] = "accepted"
        BY <2>2, <2>3 DEF MemoryTypeOK, Records
      <3>2. z # x => status[z] = "accepted"
        BY <2>2, <2>3 DEF MemoryTypeOK, Records
      <3> QED
        BY <2>2, <2>3, <3>1, <3>2 DEF OneAnswer
    <2> QED
      BY <2>3 DEF OneAnswer
  <1>6. ASSUME NEW r \in Rulers, Reject(r) PROVE OneAnswer'
    <2>1. ruling[r].of \in Records
      BY <1>6, RulingShape DEF Reject
    <2> QED
      BY <1>6, <2>1 DEF Reject, OneAnswer, MemoryTypeOK, Records
  <1>7. ASSUME NEW r \in Rulers, Supersede(r) PROVE OneAnswer'
    <2> DEFINE x == ruling[r].of  y == ruling[r].by
    <2>1. x \in Records /\ y \in Records
      BY <1>7, RulingShape DEF Supersede
    <2>2. /\ status[x] = "accepted"
          /\ status' = [status EXCEPT ![x] = "superseded", ![y] = "accepted"]
      BY <1>7 DEF Supersede, Replaced
    <2>3. odd \subseteq odd'
      BY <1>7 DEF Supersede
    <2>4. y \in Decisions /\ y \notin odd' =>
             x \in Decisions /\ QuestionOf[x] = QuestionOf[y] /\ x \notin odd
      BY <1>7, <2>1 DEF Supersede
    <2> HIDE DEF x, y
    <2>5. ASSUME NEW u \in Decisions, NEW v \in Decisions, QuestionOf[u] = QuestionOf[v],
                 status'[u] = "accepted", status'[v] = "accepted", u # v,
                 u \notin odd', v \notin odd'
          PROVE  FALSE
      <3>1. /\ u # y => status[u] = "accepted" /\ u # x
            /\ v # y => status[v] = "accepted" /\ v # x
        BY <2>1, <2>2, <2>5 DEF MemoryTypeOK, Records
      <3>2. u = y \/ v = y
        BY <2>3, <2>5, <3>1 DEF OneAnswer
      <3> QED
        BY <2>2, <2>3, <2>4, <2>5, <3>1, <3>2 DEF OneAnswer
    <2> QED
      BY <2>5 DEF OneAnswer
  <1>8. ASSUME NEW r \in Rulers, Abandon(r) PROVE OneAnswer'
    BY <1>8 DEF Abandon, OneAnswer
  <1> QED
    BY <1>1, <1>2, <1>3, <1>4, <1>5, <1>6, <1>7, <1>8 DEF MemoryNext

------------------------------------------------------------------------------
(* The successors of a superseded record: the step of each action.              *)
LEMMA SuccessorStep == MemoryTypeOK /\ SuccessorStands /\ [MemoryNext]_memoryVars => SuccessorStands'
  <1> SUFFICES ASSUME MemoryTypeOK, SuccessorStands, [MemoryNext]_memoryVars,
                      NEW S, S \subseteq Records, \A x \in S : status'[x] = "superseded", S # {}
               PROVE  \E x \in S : /\ supersededBy'[x] \in Records \ S
                                   /\ status'[supersededBy'[x]] \in {"accepted", "superseded"}
    BY DEF SuccessorStands
  <1>a. ASSUME \A x \in S : status[x] = "superseded" /\ supersededBy'[x] = supersededBy[x],
               \A z \in Records : status[z] \in {"accepted", "superseded"}
                                  => status'[z] \in {"accepted", "superseded"}
        PROVE  \E x \in S : /\ supersededBy'[x] \in Records \ S
                            /\ status'[supersededBy'[x]] \in {"accepted", "superseded"}
    <2>1. S \in SUBSET {x \in Records : status[x] = "superseded"}
      BY <1>a
    <2>2. PICK x \in S : /\ supersededBy[x] \in Records \ S
                         /\ status[supersededBy[x]] \in {"accepted", "superseded"}
      BY <2>1 DEF SuccessorStands
    <2> QED
      BY <1>a, <2>2
  <1>1. CASE UNCHANGED memoryVars
    BY <1>1, <1>a DEF memoryVars
  <1>2. ASSUME NEW x \in Records, Propose(x) PROVE \A z \in Records :
          /\ status'[z] = "superseded" => status[z] = "superseded"
          /\ status[z] \in {"accepted", "superseded"} => status'[z] \in {"accepted", "superseded"}
          /\ supersededBy' = supersededBy
    BY <1>2 DEF Propose, MemoryTypeOK
  <1>3. ASSUME NEW r \in Rulers, Accept(r) \/ Reject(r) PROVE \A z \in Records :
          /\ status'[z] = "superseded" => status[z] = "superseded"
          /\ status[z] \in {"accepted", "superseded"} => status'[z] \in {"accepted", "superseded"}
          /\ supersededBy' = supersededBy
    <2>1. ruling[r].of \in Records
      BY <1>3, RulingShape DEF Accept, Reject
    <2> QED
      BY <1>3, <2>1 DEF Accept, Reject, MemoryTypeOK
  <1>4. ASSUME NEW r \in Rulers, Supersede(r)
        PROVE  \E x \in S : /\ supersededBy'[x] \in Records \ S
                            /\ status'[supersededBy'[x]] \in {"accepted", "superseded"}
    <2> DEFINE x == ruling[r].of  y == ruling[r].by
    <2>1. x \in Records /\ y \in Records
      BY <1>4, RulingShape DEF Supersede
    <2>2. /\ status[x] = "accepted"
          /\ status' = [status EXCEPT ![x] = "superseded", ![y] = "accepted"]
          /\ supersededBy' = [supersededBy EXCEPT ![x] = y]
      BY <1>4 DEF Supersede, Replaced
    <2> HIDE DEF x, y
    <2>3. y \notin S /\ status'[y] = "accepted"
      BY <2>1, <2>2 DEF MemoryTypeOK
    <2>4. CASE x \in S
      <3>1. supersededBy'[x] = y
        BY <2>1, <2>2 DEF MemoryTypeOK
      <3> QED
        BY <2>1, <2>3, <2>4, <3>1
    <2>5. CASE x \notin S
      <3>1. \A z \in S : status[z] = "superseded" /\ supersededBy'[z] = supersededBy[z]
        BY <2>1, <2>2, <2>3, <2>5 DEF MemoryTypeOK
      <3>2. \A z \in Records : status[z] \in {"accepted", "superseded"}
                               => status'[z] \in {"accepted", "superseded"}
        BY <2>1, <2>2 DEF MemoryTypeOK
      <3> QED
        BY <1>a, <3>1, <3>2
    <2> QED
      BY <2>4, <2>5
  <1>5. ASSUME \/ \E r \in Rulers : Abandon(r)
               \/ \E r \in Rulers, x \in Records : ResolveRead(r, x)
               \/ \E r \in Rulers, x, y \in Records : SupersedeRead(r, x, y)
        PROVE  UNCHANGED <<status, supersededBy>>
    BY <1>5 DEF Abandon, ResolveRead, SupersedeRead
  <1> QED
    BY <1>a, <1>1, <1>2, <1>3, <1>4, <1>5 DEF MemoryNext

------------------------------------------------------------------------------
(* Statuses, successors and requests have their types in every reachable state. *)
THEOREM MemoryTypeCorrect == MemorySpec => []MemoryTypeOK
  <1>1. MemoryInit => MemoryTypeOK
    BY DEF MemoryInit, MemoryTypeOK, Status
  <1> QED
    BY <1>1, MemoryTypeStep, PTL DEF MemorySpec

(* A question never has two accepted answers, but for supersessions that did    *)
(* not look.                                                                    *)
THEOREM AnswersUnique == MemorySpec => []OneAnswer
  <1>1. MemoryInit => OneAnswer
    BY DEF MemoryInit, OneAnswer, Records
  <1> QED
    BY <1>1, MemoryTypeCorrect, OneAnswerStep, PTL DEF MemorySpec

(* The successors of a superseded record lead to an accepted one.               *)
THEOREM SuccessorsStand == MemorySpec => []SuccessorStands
  <1>1. MemoryInit => SuccessorStands
    BY DEF MemoryInit, SuccessorStands
  <1> QED
    BY <1>1, MemoryTypeCorrect, SuccessorStep, PTL DEF MemorySpec

------------------------------------------------------------------------------
(* Stored evidence and its answers.                                             *)

InFlight(r) == upload[r] # NoUpload

(* The bytes under a hash are all there or not at all, and an upload that has   *)
(* checked them can rely on them until the machine stops.                       *)
NoneTorn == \A c \in Contents : disk[c] # "torn"
StoredWhole == \A r \in Uploaders : upload[r].pc = "stored" => disk[upload[r].content] = "whole"

(* Two uploads meet under a key while both are in flight, and so does one that  *)
(* finds an artifact there that came after it had looked.                       *)
RivalsContest == \A q, r \in Uploaders :
    InFlight(q) /\ InFlight(r) /\ upload[q].key = upload[r].key
        => upload[q].content = upload[r].content \/ upload[r].key \in contested
LateContest == \A r \in Uploaders :
    InFlight(r) => recorded[upload[r].key] \in {Unknown, upload[r].content}
                   \/ upload[r].key \in contested

EvidenceInv == /\ EvidenceTypeOK /\ NoneTorn /\ StoredWhole /\ EvidenceReadable
               /\ RivalsContest /\ LateContest /\ AnswersMatch

UnknownApart == Unknown \notin Contents

(* An upload in flight has a key and content.                                   *)
LEMMA InFlightUpload ==
    ASSUME EvidenceTypeOK, NEW r \in Uploaders
    PROVE  /\ InFlight(r) <=> upload[r] \in Upload
           /\ upload[r].pc # "idle" => upload[r] \in Upload
           /\ upload[r] \in Upload => upload[r].pc # "idle"
  BY DEF EvidenceTypeOK, InFlight, NoUpload, Upload

(* Uploads that end or go on under their key.                                   *)
Onward == \A r \in Uploaders :
    upload'[r] = NoUpload
    \/ /\ upload[r] \in Upload /\ upload'[r] \in Upload
       /\ upload'[r].key = upload[r].key /\ upload'[r].content = upload[r].content

LEMMA OnwardContests ==
    ASSUME EvidenceInv, Onward, UNCHANGED <<recorded, contested>>
    PROVE  RivalsContest' /\ LateContest'
  <1>1. \A r \in Uploaders : InFlight(r)' => /\ InFlight(r) /\ upload'[r].key = upload[r].key
                                             /\ upload'[r].content = upload[r].content
    BY InFlightUpload DEF Onward, InFlight, EvidenceInv
  <1> QED
    BY <1>1 DEF EvidenceInv, RivalsContest, LateContest

LEMMA GoOnward ==
    ASSUME EvidenceTypeOK, NEW r \in Uploaders, NEW pc \in {"stored", "missing", "temporary", "renamed"},
           upload[r] \in Upload, Go(r, pc)
    PROVE  /\ upload' \in [Uploaders -> Upload \cup {NoUpload}] /\ Onward
           /\ upload'[r].pc = pc /\ upload'[r].content = upload[r].content
           /\ \A q \in Uploaders : q # r => upload'[q] = upload[q]
  <1> DEFINE u == [upload[r] EXCEPT !.pc = pc]
  <1>1. upload \in [Uploaders -> Upload \cup {NoUpload}] /\ upload' = [upload EXCEPT ![r] = u]
    BY DEF EvidenceTypeOK, Go
  <1>2. u \in Upload /\ u.key = upload[r].key /\ u.content = upload[r].content /\ u.pc = pc
    BY DEF Upload
  <1> HIDE DEF u
  <1> QED
    BY <1>1, <1>2 DEF Onward

LEMMA EndOnward ==
    ASSUME EvidenceTypeOK, NEW r \in Uploaders, EndUpload(r)
    PROVE  /\ upload' \in [Uploaders -> Upload \cup {NoUpload}] /\ Onward
           /\ \A q \in Uploaders : upload'[q] = IF q = r THEN NoUpload ELSE upload[q]
  BY InFlightUpload DEF EvidenceTypeOK, EndUpload, Onward, InFlight

------------------------------------------------------------------------------
(* An upload that goes on without touching the disk or the rows.                *)
LEMMA GoKeeps ==
    ASSUME EvidenceInv, NEW r \in Uploaders, NEW pc \in {"stored", "missing", "temporary", "renamed"},
           upload[r] \in Upload, Go(r, pc),
           pc = "stored" => disk[upload[r].content] = "whole",
           UNCHANGED <<disk, recorded, unflushed, answers, contested, faults>>
    PROVE  EvidenceInv'
  <1>1. /\ upload' \in [Uploaders -> Upload \cup {NoUpload}] /\ Onward
        /\ upload'[r].pc = pc /\ upload'[r].content = upload[r].content
        /\ \A q \in Uploaders : q # r => upload'[q] = upload[q]
    BY GoOnward DEF EvidenceInv
  <1>2. RivalsContest' /\ LateContest'
    BY <1>1, OnwardContests
  <1>3. StoredWhole'
    BY <1>1 DEF EvidenceInv, StoredWhole
  <1> QED
    BY <1>1, <1>2, <1>3
    DEF EvidenceInv, EvidenceTypeOK, NoneTorn, EvidenceReadable, AnswersMatch, faults

LEMMA RecordKeeps ==
    ASSUME EvidenceInv, NEW r \in Uploaders, NEW k \in UploadKeys, NEW c \in Contents, Record(r, k, c)
    PROVE  EvidenceInv'
  <1> DEFINE u == [pc |-> "persist", key |-> k, content |-> c]
  <1>1. /\ upload \in [Uploaders -> Upload \cup {NoUpload}] /\ upload' = [upload EXCEPT ![r] = u]
        /\ recorded[k] = Unknown /\ contested' = contested \cup {x \in {k} : Rivals(k, c) # {}}
        /\ UNCHANGED <<disk, recorded, unflushed, answers, faults>>
    BY DEF Record, EvidenceInv, EvidenceTypeOK
  <1>2. u \in Upload /\ u.key = k /\ u.content = c /\ u.pc = "persist"
    BY DEF Upload
  <1> HIDE DEF u
  <1>3. /\ upload' \in [Uploaders -> Upload \cup {NoUpload}]
        /\ \A q \in Uploaders : upload'[q] = IF q = r THEN u ELSE upload[q]
    BY <1>1, <1>2
  <1>4. contested \subseteq contested' /\ contested' \subseteq UploadKeys
    BY <1>1 DEF EvidenceInv, EvidenceTypeOK
  <1>5. \A q \in Uploaders : q # r /\ InFlight(q) /\ upload[q].key = k
            => upload[q].content = c \/ k \in contested'
    BY <1>1 DEF Rivals, InFlight
  <1>6. RivalsContest'
    <2> SUFFICES ASSUME NEW p \in Uploaders, NEW q \in Uploaders, InFlight(p)', InFlight(q)',
                        upload'[p].key = upload'[q].key
                 PROVE  upload'[p].content = upload'[q].content \/ upload'[q].key \in contested'
      BY DEF RivalsContest
    <2>1. CASE p # r /\ q # r
      BY <2>1, <1>3, <1>4 DEF EvidenceInv, RivalsContest, InFlight
    <2>2. CASE p = r \/ q = r
      BY <2>2, <1>2, <1>3, <1>5 DEF InFlight
    <2> QED
      BY <2>1, <2>2
  <1>7. LateContest'
    BY <1>1, <1>2, <1>3, <1>4 DEF EvidenceInv, LateContest, InFlight
  <1>8. StoredWhole'
    BY <1>1, <1>2, <1>3 DEF EvidenceInv, StoredWhole
  <1>9. AnswersMatch'
    BY <1>1, <1>4 DEF EvidenceInv, AnswersMatch
  <1> QED
    BY <1>1, <1>3, <1>4, <1>6, <1>7, <1>8, <1>9
    DEF EvidenceInv, EvidenceTypeOK, NoneTorn, EvidenceReadable, faults

LEMMA RenameKeeps ==
    ASSUME EvidenceInv, NEW r \in Uploaders, Rename(r)
    PROVE  EvidenceInv'
  <1> DEFINE c == upload[r].content
  <1>1. /\ upload[r].pc = "temporary" /\ Go(r, "renamed")
        /\ disk' = [disk EXCEPT ![c] = "whole"] /\ unflushed' = unflushed \cup {c}
        /\ undone' = undone \ {c} /\ UNCHANGED <<recorded, answers, contested, losses>>
    BY DEF Rename
  <1>2. upload[r] \in Upload /\ c \in Contents
    BY <1>1, InFlightUpload DEF EvidenceInv, Upload
  <1>3. /\ upload' \in [Uploaders -> Upload \cup {NoUpload}] /\ Onward /\ upload'[r].pc = "renamed"
        /\ \A q \in Uploaders : q # r => upload'[q] = upload[q]
    BY <1>1, <1>2, GoOnward DEF EvidenceInv
  <1>4. RivalsContest' /\ LateContest'
    BY <1>1, <1>3, OnwardContests
  <1>5. /\ disk' \in [Contents -> {"absent", "torn", "whole"}]
        /\ \A x \in Contents : disk'[x] = IF x = c THEN "whole" ELSE disk[x]
    BY <1>1 DEF EvidenceInv, EvidenceTypeOK
  <1> HIDE DEF c
  <1>6. StoredWhole'
    <2>1. \A q \in Uploaders : upload[q].pc = "stored" => upload[q].content \in Contents
      BY InFlightUpload DEF EvidenceInv, Upload
    <2> QED
      BY <2>1, <1>3, <1>5 DEF EvidenceInv, StoredWhole
  <1>7. EvidenceReadable'
    BY <1>1, <1>5 DEF EvidenceInv, EvidenceTypeOK, EvidenceReadable
  <1> QED
    BY <1>1, <1>2, <1>3, <1>4, <1>5, <1>6, <1>7
    DEF EvidenceInv, EvidenceTypeOK, NoneTorn, AnswersMatch

(* The row of a stored upload, or the one that was there before it.             *)
LEMMA InsertKeeps ==
    ASSUME UnknownApart, EvidenceInv, NEW r \in Uploaders, Insert(r)
    PROVE  EvidenceInv'
  <1> DEFINE k == upload[r].key  c == upload[r].content
  <1>1. /\ upload[r].pc = "stored" /\ EndUpload(r) /\ Answer(k, c, recorded'[k])
        /\ recorded' = IF recorded[k] = Unknown THEN [recorded EXCEPT ![k] = c] ELSE recorded
        /\ UNCHANGED <<disk, unflushed, contested, faults>>
    BY DEF Insert
  <1>2. upload[r] \in Upload /\ InFlight(r) /\ k \in UploadKeys /\ c \in Contents
    BY <1>1, InFlightUpload DEF EvidenceInv, Upload
  <1>3. /\ upload' \in [Uploaders -> Upload \cup {NoUpload}]
        /\ \A q \in Uploaders : upload'[q] = IF q = r THEN NoUpload ELSE upload[q]
    BY <1>1, EndOnward DEF EvidenceInv
  <1>4. disk[c] = "whole"
    BY <1>1 DEF EvidenceInv, StoredWhole
  <1>5. recorded[k] \in {Unknown, c} \/ k \in contested
    BY <1>2 DEF EvidenceInv, LateContest
  <1>6. \A q \in Uploaders : q # r /\ InFlight(q) /\ upload[q].key = k
            => upload[q].content = c \/ k \in contested
    BY <1>2 DEF EvidenceInv, RivalsContest
  <1>7. \A q \in Uploaders : InFlight(q)' => q # r /\ InFlight(q) /\ upload'[q] = upload[q]
    BY <1>3 DEF InFlight
  <1> HIDE DEF k, c
  <1>8. /\ recorded' \in [UploadKeys -> Contents \cup {Unknown}] /\ recorded'[k] \in Contents
        /\ \A x \in UploadKeys : recorded'[x] = recorded[x] \/ (x = k /\ recorded'[x] = c)
        /\ recorded'[k] = c \/ k \in contested
    BY <1>1, <1>2, <1>5 DEF EvidenceInv, EvidenceTypeOK
  <1>9. LateContest'
    <2>1. \A q \in Uploaders : InFlight(q) => upload[q].key \in UploadKeys
      BY InFlightUpload DEF EvidenceInv, Upload
    <2> QED
      BY <2>1, <1>1, <1>6, <1>7, <1>8 DEF EvidenceInv, LateContest
  <1>10. RivalsContest' /\ StoredWhole'
    BY <1>1, <1>3, <1>7 DEF EvidenceInv, RivalsContest, StoredWhole, NoUpload
  <1>11. EvidenceReadable'
    BY <1>1, <1>4, <1>8 DEF EvidenceInv, EvidenceReadable, faults
  <1>12. AnswersMatch' /\ answers' \subseteq [key : UploadKeys, sent : Contents, got : Contents]
    BY <1>1, <1>2, <1>8 DEF EvidenceInv, EvidenceTypeOK, AnswersMatch, Answer
  <1> QED
    BY <1>1, <1>3, <1>8, <1>9, <1>10, <1>11, <1>12
    DEF EvidenceInv, EvidenceTypeOK, NoneTorn, faults

(* An upload that ends with an error, or with the artifact it meant to record.  *)
LEMMA FailKeeps ==
    ASSUME EvidenceInv, NEW r \in Uploaders, FailUpload(r)
    PROVE  EvidenceInv'
  <1>1. /\ InFlight(r) /\ EndUpload(r)
        /\ UNCHANGED answers \/ Answer(upload[r].key, upload[r].content, upload[r].content)
        /\ UNCHANGED <<disk, recorded, unflushed, contested, faults>>
    BY DEF FailUpload, InFlight
  <1>2. upload[r].key \in UploadKeys /\ upload[r].content \in Contents
    BY <1>1, InFlightUpload DEF EvidenceInv, Upload
  <1>3. /\ upload' \in [Uploaders -> Upload \cup {NoUpload}] /\ Onward
        /\ \A q \in Uploaders : upload'[q] = IF q = r THEN NoUpload ELSE upload[q]
    BY <1>1, EndOnward DEF EvidenceInv
  <1>4. RivalsContest' /\ LateContest'
    BY <1>1, <1>3, OnwardContests
  <1>5. AnswersMatch' /\ answers' \subseteq [key : UploadKeys, sent : Contents, got : Contents]
    BY <1>1, <1>2 DEF EvidenceInv, EvidenceTypeOK, AnswersMatch, Answer
  <1>6. StoredWhole'
    BY <1>1, <1>3 DEF EvidenceInv, StoredWhole, NoUpload
  <1> QED
    BY <1>1, <1>3, <1>4, <1>5, <1>6 DEF EvidenceInv, EvidenceTypeOK, NoneTorn, EvidenceReadable, faults

(* The names a power loss takes back are remembered as undone.                  *)
LEMMA CrashKeeps ==
    ASSUME EvidenceInv, NEW gone \in SUBSET unflushed, EvidenceCrash(gone), MaxLosses \in Nat
    PROVE  EvidenceInv'
  <1>1. /\ losses < MaxLosses /\ losses' = losses + 1
        /\ disk' = [x \in Contents |-> IF x \in gone THEN "absent" ELSE disk[x]]
        /\ undone' = undone \cup gone /\ unflushed' = unflushed \ gone
        /\ upload' = [r \in Uploaders |-> NoUpload] /\ UNCHANGED <<recorded, answers, contested>>
    BY DEF EvidenceCrash
  <1>2. losses' \in 0 .. MaxLosses
    BY <1>1 DEF EvidenceInv, EvidenceTypeOK
  <1>3. EvidenceTypeOK'
    BY <1>1, <1>2 DEF EvidenceInv, EvidenceTypeOK
  <1>4. RivalsContest' /\ LateContest' /\ StoredWhole'
    BY <1>1 DEF RivalsContest, LateContest, StoredWhole, InFlight, NoUpload
  <1>5. NoneTorn' /\ AnswersMatch'
    BY <1>1 DEF EvidenceInv, NoneTorn, AnswersMatch
  <1>6. EvidenceReadable'
    <2> SUFFICES ASSUME NEW k \in UploadKeys, recorded[k] # Unknown, recorded[k] \notin undone'
                 PROVE  disk'[recorded[k]] = "whole"
      BY <1>1 DEF EvidenceReadable
    <2>1. recorded[k] \in Contents /\ recorded[k] \notin undone /\ recorded[k] \notin gone
      BY <1>1 DEF EvidenceInv, EvidenceTypeOK
    <2> QED
      BY <2>1, <1>1 DEF EvidenceInv, EvidenceReadable
  <1> QED
    BY <1>3, <1>4, <1>5, <1>6 DEF EvidenceInv

(* Every step keeps the invariant.                                              *)
LEMMA EvidenceStep ==
    ASSUME UnknownApart, MaxLosses \in Nat
    PROVE  EvidenceInv /\ [EvidenceNext]_evidenceVars => EvidenceInv'
  <1> SUFFICES ASSUME EvidenceInv, [EvidenceNext]_evidenceVars PROVE EvidenceInv'
    OBVIOUS
  <1>1. CASE UNCHANGED evidenceVars
    BY <1>1 DEF evidenceVars, EvidenceInv, EvidenceTypeOK, NoneTorn, StoredWhole, EvidenceReadable,
                RivalsContest, LateContest, AnswersMatch, InFlight
  <1>2. ASSUME NEW r \in Uploaders, NEW k \in UploadKeys, NEW c \in Contents, Replay(r, k, c)
        PROVE  EvidenceInv'
    BY <1>2 DEF Replay, Same, Answer, faults, EvidenceInv, EvidenceTypeOK, NoneTorn, StoredWhole,
                EvidenceReadable, RivalsContest, LateContest, AnswersMatch, InFlight
  <1>3. ASSUME NEW r \in Uploaders, Inspect(r) \/ WriteTemporary(r) \/ Verify(r)
        PROVE  EvidenceInv'
    <2>1. upload[r] \in Upload
      BY <1>3, InFlightUpload DEF Inspect, WriteTemporary, Verify, EvidenceInv
    <2>2. PICK pc \in {"stored", "missing", "temporary"} :
             Go(r, pc) /\ (pc = "stored" => disk[upload[r].content] = "whole")
      BY <1>3 DEF Inspect, WriteTemporary, Verify
    <2>3. UNCHANGED <<disk, recorded, unflushed, answers, contested, faults>>
      BY <1>3 DEF Inspect, WriteTemporary, Verify, Writing
    <2> QED
      BY <2>1, <2>2, <2>3, GoKeeps
  <1>4. CASE Flush
    BY <1>4 DEF Flush, faults, EvidenceInv, EvidenceTypeOK, NoneTorn, StoredWhole, EvidenceReadable,
                RivalsContest, LateContest, AnswersMatch, InFlight
  <1> QED
    BY <1>1, <1>2, <1>3, <1>4, RecordKeeps, RenameKeeps, InsertKeeps, FailKeeps, CrashKeeps
    DEF EvidenceNext

------------------------------------------------------------------------------
LEMMA EvidenceAlways ==
    ASSUME UnknownApart, MaxLosses \in Nat
    PROVE  EvidenceSpec => []EvidenceInv
  <1>1. EvidenceInit => EvidenceInv
    BY DEF EvidenceInit, EvidenceInv, EvidenceTypeOK, NoneTorn, StoredWhole, EvidenceReadable,
           RivalsContest, LateContest, AnswersMatch, InFlight, NoUpload
  <1>2. EvidenceInv /\ [EvidenceNext]_evidenceVars => EvidenceInv'
    BY EvidenceStep
  <1> QED
    BY <1>1, <1>2, PTL DEF EvidenceSpec

(* The bytes of every recorded artifact can be read back, unless the machine    *)
(* lost the name of their file before it was on the disk.                       *)
THEOREM Readable ==
    ASSUME UnknownApart, MaxLosses \in Nat
    PROVE  EvidenceSpec => []EvidenceReadable
  <1>1. EvidenceInv => EvidenceReadable
    BY DEF EvidenceInv
  <1> QED
    BY <1>1, EvidenceAlways, PTL

(* An upload is answered with an artifact of the bytes it sent, unless uploads  *)
(* of different bytes were under way with its key at once.                      *)
THEOREM AnswersKept ==
    ASSUME UnknownApart, MaxLosses \in Nat
    PROVE  EvidenceSpec => []AnswersMatch
  <1>1. EvidenceInv => AnswersMatch
    BY DEF EvidenceInv
  <1> QED
    BY <1>1, EvidenceAlways, PTL

------------------------------------------------------------------------------
(* Artifacts and milestones: requests take effect one at a time.                *)

NothingApart == Nothing \notin Artifact \cup Milestone

AnyRequest == Asking \cup Updating \cup {NoRequest}

(* What a request knows: no version beyond the present one, and under the       *)
(* present one the record as it is; past getArtifact, that it is not refused.   *)
Fits(q) ==
    /\ q \in AnyRequest
    /\ q \in Asking =>
          /\ artifact # Nothing /\ q.expected <= edition
          /\ q.expected = edition => q.seen = artifact
          /\ q.pc # "row" => Allowed(q.op, q.seen)
    /\ q \in Updating =>
          /\ milestone # Nothing /\ q.expected <= issueNo
          /\ q.expected = issueNo => q.seen = milestone

KnowledgeInv == KnowledgeTypeOK /\ \A r \in Askers : Fits(request[r])

(* A change of a record comes with a new version, but for its first one.        *)
ArtifactMoves ==
    \/ UNCHANGED artifacts
    \/ artifact' \in Artifact /\ edition' = edition + 1
    \/ artifact = Nothing /\ artifact' \in Artifact /\ edition' = 1
MilestoneMoves ==
    \/ UNCHANGED milestones
    \/ milestone' \in Milestone /\ issueNo' = issueNo + 1
    \/ milestone = Nothing /\ milestone' \in Milestone /\ issueNo' = 1

(* Three kinds of request.                                                      *)
LEMMA RequestKinds ==
    ASSUME KnowledgeTypeOK, NEW r \in Askers
    PROVE  /\ request[r] \in AnyRequest
           /\ request[r].pc \in {"row", "read", "found", "missing"} => request[r] \in Asking
           /\ request[r].pc = "milestone" => request[r] \in Updating
           /\ request[r].pc \notin {"idle", "milestone"} => request[r] \in Asking
  BY DEF KnowledgeTypeOK, AnyRequest, Asking, Updating, NoRequest

(* Records that move under requests, of which at most one ends.                 *)
LEMMA RecordsMove ==
    ASSUME NothingApart, KnowledgeInv, ArtifactMoves, MilestoneMoves,
           UNCHANGED request \/ \E r \in Askers : End(r)
    PROVE  KnowledgeInv'
  <1>1. /\ request \in [Askers -> AnyRequest]
        /\ artifact \in Artifact \cup {Nothing} /\ milestone \in Milestone \cup {Nothing}
        /\ edition \in Nat /\ issueNo \in Nat
    BY DEF KnowledgeInv, KnowledgeTypeOK, AnyRequest
  <1>2. /\ request' \in [Askers -> AnyRequest]
        /\ \A r \in Askers : request'[r] = request[r] \/ request'[r] = NoRequest
    BY <1>1 DEF End, AnyRequest
  <1>3. /\ artifact' \in Artifact \cup {Nothing} /\ milestone' \in Milestone \cup {Nothing}
        /\ edition' \in Nat /\ issueNo' \in Nat
    BY <1>1 DEF ArtifactMoves, MilestoneMoves, artifacts, milestones
  <1>4. KnowledgeTypeOK'
    BY <1>2, <1>3 DEF KnowledgeTypeOK, AnyRequest
  <1>5. Fits(NoRequest)'
    BY DEF Fits, AnyRequest, NoRequest, Asking, Updating
  <1>6. ASSUME NEW q \in AnyRequest, Fits(q) PROVE Fits(q)'
    <2>1. ASSUME q \in Asking
          PROVE  /\ artifact' # Nothing /\ q.expected <= edition'
                 /\ q.expected = edition' => q.seen = artifact'
                 /\ q.pc # "row" => Allowed(q.op, q.seen)
      <3>1. /\ artifact # Nothing /\ q.expected <= edition /\ q.expected \in Nat
            /\ q.expected = edition => q.seen = artifact
            /\ q.pc # "row" => Allowed(q.op, q.seen)
        BY <1>6, <2>1 DEF Fits, Asking
      <3>2. UNCHANGED artifacts \/ (artifact' \in Artifact /\ edition' = edition + 1)
        BY <3>1 DEF ArtifactMoves
      <3> QED
        BY <3>1, <3>2, <1>1 DEF artifacts, NothingApart
    <2>2. ASSUME q \in Updating
          PROVE  /\ milestone' # Nothing /\ q.expected <= issueNo'
                 /\ q.expected = issueNo' => q.seen = milestone'
      <3>1. /\ milestone # Nothing /\ q.expected <= issueNo /\ q.expected \in Nat
            /\ q.expected = issueNo => q.seen = milestone
        BY <1>6, <2>2 DEF Fits, Updating
      <3>2. UNCHANGED milestones \/ (milestone' \in Milestone /\ issueNo' = issueNo + 1)
        BY <3>1 DEF MilestoneMoves
      <3> QED
        BY <3>1, <3>2, <1>1 DEF milestones, NothingApart
    <2> QED
      BY <2>1, <2>2, <1>6 DEF Fits
  <1> QED
    BY <1>1, <1>2, <1>4, <1>5, <1>6 DEF KnowledgeInv

(* A request that reads.                                                        *)
LEMMA RequestMoves ==
    ASSUME KnowledgeInv, NEW r \in Askers, NEW q, Fits(q),
           request' = [request EXCEPT ![r] = q], UNCHANGED <<artifacts, milestones>>
    PROVE  KnowledgeInv'
  <1>1. q \in AnyRequest /\ request \in [Askers -> AnyRequest]
    BY DEF Fits, KnowledgeInv, KnowledgeTypeOK, AnyRequest
  <1>2. /\ request' \in [Askers -> AnyRequest]
        /\ \A p \in Askers : Fits(request'[p])
    BY <1>1 DEF KnowledgeInv
  <1> QED
    BY <1>2 DEF KnowledgeInv, KnowledgeTypeOK, AnyRequest, Fits, artifacts, milestones

------------------------------------------------------------------------------
(* Under the version the client named, a request has seen the artifact it       *)
(* changes.                                                                     *)
LEMMA WriteSees ==
    ASSUME KnowledgeInv, NEW r \in Askers, NEW op, NEW after, Write(r, op, after)
    PROVE  /\ artifact # Nothing /\ artifact \in Artifact /\ artifact.live
           /\ request[r].seen = artifact
           /\ request[r].pc # "row" => Allowed(op, artifact)
           /\ artifact' = after /\ edition' = edition + 1 /\ End(r) /\ UNCHANGED milestones
  <1>1. request[r] \in Asking
    BY RequestKinds DEF Write, KnowledgeInv
  <1>2. /\ request[r].expected = edition /\ request[r].op = op /\ artifact.live
        /\ artifact' = after /\ edition' = edition + 1 /\ End(r) /\ UNCHANGED milestones
    BY DEF Write, Current, milestones
  <1>3. /\ artifact # Nothing /\ request[r].seen = artifact
        /\ request[r].pc # "row" => Allowed(op, artifact)
    BY <1>1, <1>2 DEF KnowledgeInv, Fits
  <1> QED
    BY <1>2, <1>3 DEF KnowledgeInv, KnowledgeTypeOK

(* What a request that writes the artifact does, by its kind.                   *)
LEMMA ArtifactWritten ==
    ASSUME KnowledgeInv, NEW r \in Askers,
           \/ PromoteArtifactCanonical(r) \/ VerifyRepositoryArtifact(r)
           \/ AddArtifactRevision(r) \/ RelateArtifacts(r)
           \/ \E d \in Rules!Dispositions : SetArtifactDisposition(r, d)
    PROVE  /\ artifact' \in Artifact /\ edition' = edition + 1 /\ End(r) /\ UNCHANGED milestones
           /\ Rules!Change \/ UNCHANGED artifact
  <1>1. CASE PromoteArtifactCanonical(r)
    <2> DEFINE after == [artifact EXCEPT !.standing = "canonical"]
    <2>1. request[r].pc = "read" /\ Write(r, "promote", after)
      BY <1>1 DEF PromoteArtifactCanonical
    <2>2. /\ artifact # Nothing /\ artifact \in Artifact /\ artifact.live
          /\ Allowed("promote", artifact)
          /\ artifact' = after /\ edition' = edition + 1 /\ End(r) /\ UNCHANGED milestones
      BY <2>1, WriteSees
    <2>3. after \in Artifact
      BY <2>2 DEF Artifact
    <2> QED
      BY <2>2, <2>3 DEF Allowed, Rules!Change, Rules!Promote
  <1>2. CASE VerifyRepositoryArtifact(r)
    <2>1. PICK after \in {[artifact EXCEPT !.verified = TRUE, !.stamped = TRUE],
                          [artifact EXCEPT !.stamped = FALSE]} :
             request[r].pc # "row" /\ Write(r, "verify", after)
      BY <1>2 DEF VerifyRepositoryArtifact
    <2>2. /\ artifact # Nothing /\ artifact \in Artifact /\ artifact.live
          /\ Allowed("verify", artifact)
          /\ artifact' = after /\ edition' = edition + 1 /\ End(r) /\ UNCHANGED milestones
      BY <2>1, WriteSees
    <2>3. after \in Artifact
      BY <2>2 DEF Artifact
    <2> QED
      BY <2>2, <2>3 DEF Allowed, Rules!Change, Rules!Verify
  <1>3. CASE AddArtifactRevision(r)
    <2> DEFINE after == [artifact EXCEPT !.newest = request[r].seen.newest + 1]
    <2>1. request[r].pc = "read" /\ Write(r, "revise", after)
      BY <1>3 DEF AddArtifactRevision
    <2>2. /\ artifact # Nothing /\ artifact \in Artifact /\ artifact.live
          /\ Allowed("revise", artifact) /\ request[r].seen = artifact
          /\ artifact' = after /\ edition' = edition + 1 /\ End(r) /\ UNCHANGED milestones
      BY <2>1, WriteSees
    <2>3. after = [artifact EXCEPT !.newest = @ + 1] /\ after \in Artifact
      BY <2>2 DEF Artifact
    <2> QED
      BY <2>2, <2>3 DEF Allowed, Rules!Change, Rules!Revise
  <1>4. CASE RelateArtifacts(r)
    <2>1. request[r].pc = "read" /\ Write(r, "relate", artifact)
      BY <1>4 DEF RelateArtifacts
    <2> QED
      BY <2>1, WriteSees
  <1>5. ASSUME NEW d \in Rules!Dispositions, SetArtifactDisposition(r, d)
        PROVE  /\ artifact' \in Artifact /\ edition' = edition + 1 /\ End(r)
               /\ UNCHANGED milestones /\ Rules!Change
    <2> DEFINE after == [artifact EXCEPT !.standing = d]
    <2>1. request[r].pc = "read" /\ Write(r, "dispose", after)
      BY <1>5 DEF SetArtifactDisposition
    <2>2. /\ artifact # Nothing /\ artifact \in Artifact /\ artifact.live
          /\ artifact' = after /\ edition' = edition + 1 /\ End(r) /\ UNCHANGED milestones
      BY <2>1, WriteSees
    <2>3. after \in Artifact
      BY <2>2 DEF Artifact
    <2> QED
      BY <2>2, <2>3 DEF Rules!Change, Rules!Dispose
  <1> QED
    BY <1>1, <1>2, <1>3, <1>4, <1>5

(* What a request that writes the milestone does.                               *)
LEMMA MilestoneWritten ==
    ASSUME KnowledgeInv, NEW r \in Askers, UpdateMilestone(r) \/ SoftDeleteMilestone(r)
    PROVE  /\ milestone' \in Milestone /\ issueNo' = issueNo + 1 /\ End(r) /\ UNCHANGED artifacts
           /\ Rules!Update \/ Rules!DeleteMilestone \/ UNCHANGED milestone
  <1>1. /\ request[r].pc = "milestone" /\ milestone.live /\ request[r].expected = issueNo
        /\ issueNo' = issueNo + 1 /\ End(r) /\ UNCHANGED artifacts
    BY DEF UpdateMilestone, SoftDeleteMilestone, Matches
  <1>2. milestone # Nothing /\ milestone \in Milestone /\ request[r].seen = milestone
    BY <1>1, RequestKinds DEF KnowledgeInv, KnowledgeTypeOK, Fits
  <1>3. CASE UpdateMilestone(r)
    <2>1. CASE UNCHANGED milestone
      BY <2>1, <1>1, <1>2
    <2>2. CASE milestone' # milestone
      <3>1. PICK s \in Rules!Statuses, d \in Dates \cup {Nothing} :
               /\ d \in Rules!Completed(s, milestone.completedAt)
               /\ milestone' = [milestone EXCEPT !.status = s, !.completedAt = d]
        BY <2>2, <1>2, <1>3 DEF UpdateMilestone
      <3>2. milestone' \in Milestone
        BY <3>1, <1>2 DEF Milestone
      <3> QED
        BY <3>1, <3>2, <1>1, <1>2 DEF Rules!Update
    <2> QED
      BY <2>1, <2>2
  <1>4. CASE SoftDeleteMilestone(r)
    <2>1. milestone' = [milestone EXCEPT !.live = FALSE]
      BY <1>4 DEF SoftDeleteMilestone
    <2>2. milestone' \in Milestone
      BY <2>1, <1>2 DEF Milestone
    <2> QED
      BY <2>1, <2>2, <1>1, <1>2 DEF Rules!DeleteMilestone
  <1> QED
    BY <1>3, <1>4

(* What is made, deleted or brought back without a version.                     *)
LEMMA Unversioned ==
    ASSUME KnowledgeInv,
           \/ RecordArtifact \/ RollbackArtifact
           \/ CreateMilestone \/ RollbackMilestone \/ RestoreMilestone
    PROVE  /\ ArtifactMoves /\ MilestoneMoves /\ UNCHANGED request
           /\ [Rules!RulesNext]_(Rules!rulesVars)
  <1>1. artifact \in Artifact \cup {Nothing} /\ milestone \in Milestone \cup {Nothing}
    BY DEF KnowledgeInv, KnowledgeTypeOK
  <1>2. CASE RecordArtifact
    <2>1. Rules!Native \in Artifact
      BY DEF Rules!Native, Artifact
    <2>2. \A p \in BOOLEAN : Rules!GitBacked(p) \in Artifact
      BY <2>1 DEF Rules!GitBacked, Artifact, Rules!Native
    <2> QED
      BY <1>2, <2>1, <2>2
      DEF RecordArtifact, ArtifactMoves, MilestoneMoves, milestones, Rules!RulesNext, Rules!Record
  <1>3. CASE RollbackArtifact
    <2>1. [artifact EXCEPT !.live = FALSE] \in Artifact
      BY <1>1, <1>3 DEF RollbackArtifact, Artifact
    <2> QED
      BY <1>3, <2>1 DEF RollbackArtifact, ArtifactMoves, MilestoneMoves, milestones,
                        Rules!RulesNext, Rules!DeleteArtifact
  <1>4. CASE CreateMilestone
    <2>1. PICK s \in Rules!Statuses, d \in Dates \cup {Nothing} :
             /\ d \in Rules!Completed(s, Nothing)
             /\ milestone' = [status |-> s, completedAt |-> d, live |-> TRUE]
      BY <1>4 DEF CreateMilestone
    <2>2. milestone' \in Milestone
      BY <2>1 DEF Milestone
    <2>3. milestone = Nothing /\ issueNo' = 1 /\ UNCHANGED <<artifacts, request>>
      BY <1>4 DEF CreateMilestone
    <2> QED
      BY <2>1, <2>2, <2>3 DEF ArtifactMoves, MilestoneMoves, artifacts, Rules!RulesNext, Rules!Plan
  <1>5. CASE RollbackMilestone \/ RestoreMilestone
    <2>1. PICK b \in BOOLEAN : milestone' = [milestone EXCEPT !.live = b]
      BY <1>5 DEF RollbackMilestone, RestoreMilestone
    <2>2. /\ milestone # Nothing /\ issueNo' = issueNo + 1 /\ UNCHANGED <<artifacts, request>>
          /\ Rules!DeleteMilestone \/ Rules!RestoreMilestone
      BY <1>5 DEF RollbackMilestone, RestoreMilestone, Rules!DeleteMilestone, Rules!RestoreMilestone
    <2>3. milestone' \in Milestone
      BY <2>1, <2>2, <1>1 DEF Milestone
    <2> QED
      BY <2>2, <2>3 DEF ArtifactMoves, MilestoneMoves, artifacts, Rules!RulesNext
  <1> QED
    BY <1>2, <1>3, <1>4, <1>5

(* Every step keeps what requests know, and is a step of the rules or none.     *)
LEMMA KnowledgeStep ==
    ASSUME NothingApart
    PROVE  KnowledgeInv /\ [KnowledgeNext]_knowledgeVars
               => KnowledgeInv' /\ [Rules!RulesNext]_(Rules!rulesVars)
  <1> SUFFICES ASSUME KnowledgeInv, [KnowledgeNext]_knowledgeVars
               PROVE  KnowledgeInv' /\ [Rules!RulesNext]_(Rules!rulesVars)
    OBVIOUS
  <1>1. CASE UNCHANGED knowledgeVars
    <2>1. /\ UNCHANGED request /\ ArtifactMoves /\ MilestoneMoves
          /\ UNCHANGED Rules!rulesVars
      BY <1>1 DEF knowledgeVars, ArtifactMoves, MilestoneMoves, artifacts, milestones, Rules!rulesVars
    <2> QED
      BY <2>1, RecordsMove
  <1>2. CASE \/ RecordArtifact \/ RollbackArtifact
             \/ CreateMilestone \/ RollbackMilestone \/ RestoreMilestone
    BY <1>2, Unversioned, RecordsMove
  <1>3. ASSUME NEW r \in Askers,
               \/ PromoteArtifactCanonical(r) \/ VerifyRepositoryArtifact(r)
               \/ AddArtifactRevision(r) \/ RelateArtifacts(r)
               \/ \E d \in Rules!Dispositions : SetArtifactDisposition(r, d)
        PROVE  KnowledgeInv' /\ [Rules!RulesNext]_(Rules!rulesVars)
    <2>1. /\ artifact' \in Artifact /\ edition' = edition + 1 /\ End(r) /\ UNCHANGED milestones
          /\ Rules!Change \/ UNCHANGED artifact
      BY <1>3, ArtifactWritten
    <2>2. ArtifactMoves /\ MilestoneMoves
      BY <2>1 DEF ArtifactMoves, MilestoneMoves
    <2>3. KnowledgeInv'
      BY <2>1, <2>2, RecordsMove
    <2> QED
      BY <2>1, <2>3 DEF milestones, Rules!RulesNext, Rules!rulesVars
  <1>4. ASSUME NEW r \in Askers, UpdateMilestone(r) \/ SoftDeleteMilestone(r)
        PROVE  KnowledgeInv' /\ [Rules!RulesNext]_(Rules!rulesVars)
    <2>1. /\ milestone' \in Milestone /\ issueNo' = issueNo + 1 /\ End(r) /\ UNCHANGED artifacts
          /\ Rules!Update \/ Rules!DeleteMilestone \/ UNCHANGED milestone
      BY <1>4, MilestoneWritten
    <2>2. ArtifactMoves /\ MilestoneMoves
      BY <2>1 DEF ArtifactMoves, MilestoneMoves
    <2>3. KnowledgeInv'
      BY <2>1, <2>2, RecordsMove
    <2> QED
      BY <2>1, <2>3 DEF artifacts, Rules!RulesNext, Rules!rulesVars
  <1>5. ASSUME NEW r \in Askers, Refuse(r)
        PROVE  KnowledgeInv' /\ UNCHANGED <<artifacts, milestones>>
    BY <1>5, RecordsMove DEF Refuse, ArtifactMoves, MilestoneMoves, artifacts, milestones
  <1>6. ASSUME NEW r \in Askers, NEW op \in ArtifactOps, NEW v \in 1 .. edition,
               ReadArtifact(r, op, v)
        PROVE  KnowledgeInv' /\ UNCHANGED <<artifacts, milestones>>
    <2> DEFINE q == [pc |-> "row", op |-> op, expected |-> v, seen |-> artifact]
    <2>1. /\ artifact # Nothing /\ artifact \in Artifact /\ edition \in Nat
          /\ request' = [request EXCEPT ![r] = q] /\ UNCHANGED <<artifacts, milestones>>
      BY <1>6 DEF ReadArtifact, Live, KnowledgeInv, KnowledgeTypeOK
    <2>2. v \in Nat /\ v <= edition
      BY <2>1
    <2>3. q \in Asking /\ q \notin Updating
      BY <2>1, <2>2 DEF Asking, Updating
    <2>4. Fits(q)
      BY <2>1, <2>2, <2>3 DEF Fits, AnyRequest
    <2> HIDE DEF q
    <2> QED
      BY <2>1, <2>4, RequestMoves
  <1>7. ASSUME NEW r \in Askers, NEW v \in 1 .. issueNo, GetMilestone(r, v)
        PROVE  KnowledgeInv' /\ UNCHANGED <<artifacts, milestones>>
    <2> DEFINE q == [pc |-> "milestone", expected |-> v, seen |-> milestone]
    <2>1. /\ milestone # Nothing /\ milestone \in Milestone /\ issueNo \in Nat
          /\ request' = [request EXCEPT ![r] = q] /\ UNCHANGED <<artifacts, milestones>>
      BY <1>7 DEF GetMilestone, Live, KnowledgeInv, KnowledgeTypeOK
    <2>2. v \in Nat /\ v <= issueNo
      BY <2>1
    <2>3. q \in Updating /\ q \notin Asking
      BY <2>1, <2>2 DEF Asking, Updating
    <2>4. Fits(q)
      BY <2>1, <2>2, <2>3 DEF Fits, AnyRequest
    <2> HIDE DEF q
    <2> QED
      BY <2>1, <2>4, RequestMoves
  <1>8. ASSUME NEW r \in Askers, ReadDetails(r)
        PROVE  KnowledgeInv' /\ UNCHANGED <<artifacts, milestones>>
    <2> DEFINE p == request[r]
               s == [p.seen EXCEPT !.pinned = artifact.pinned, !.stamped = artifact.stamped,
                                   !.newest = artifact.newest]
               q == [p EXCEPT !.pc = "read", !.seen = s]
    <2>1. /\ p.pc = "row" /\ Allowed(p.op, s) /\ UNCHANGED <<artifacts, milestones>>
          /\ request' = [request EXCEPT ![r].pc = "read", ![r].seen = s]
      BY <1>8 DEF ReadDetails
    <2>2. request' = [request EXCEPT ![r] = q]
      BY <2>1 DEF KnowledgeInv, KnowledgeTypeOK
    <2>3. /\ p \in Asking /\ artifact # Nothing /\ p.expected <= edition
          /\ p.expected = edition => p.seen = artifact
      BY <2>1, RequestKinds DEF KnowledgeInv, Fits
    <2>4. artifact \in Artifact /\ p.seen \in Artifact
      BY <2>3 DEF KnowledgeInv, KnowledgeTypeOK, Asking
    <2>5. s \in Artifact /\ (p.seen = artifact => s = artifact)
      BY <2>4 DEF Artifact
    <2>6. /\ q \in Asking /\ q \notin Updating
          /\ q.expected = p.expected /\ q.op = p.op /\ q.seen = s
      <3> HIDE DEF s
      <3> QED
        BY <2>3, <2>5 DEF Asking, Updating
    <2>7. Fits(q)
      <3> HIDE DEF s, q
      <3> QED
        BY <2>1, <2>3, <2>5, <2>6 DEF Fits, AnyRequest
    <2> HIDE DEF q
    <2> QED
      BY <2>1, <2>2, <2>7, RequestMoves
  <1>9. ASSUME NEW r \in Askers, FetchRepositoryFile(r)
        PROVE  KnowledgeInv' /\ UNCHANGED <<artifacts, milestones>>
    <2>1. PICK a \in {"found", "missing"} : request' = [request EXCEPT ![r].pc = a]
      BY <1>9 DEF FetchRepositoryFile
    <2> DEFINE p == request[r]  q == [p EXCEPT !.pc = a]
    <2>2. request' = [request EXCEPT ![r] = q]
      BY <2>1 DEF KnowledgeInv, KnowledgeTypeOK
    <2>3. p \in Asking /\ Fits(p) /\ p.pc = "read" /\ UNCHANGED <<artifacts, milestones>>
      BY <1>9, RequestKinds DEF FetchRepositoryFile, KnowledgeInv
    <2>4. /\ q \in Asking /\ q \notin Updating
          /\ q.expected = p.expected /\ q.op = p.op /\ q.seen = p.seen
      BY <2>3 DEF Asking, Updating
    <2>5. Fits(q)
      <3> HIDE DEF p, q
      <3> QED
        BY <2>3, <2>4 DEF Fits, AnyRequest
    <2> HIDE DEF q
    <2> QED
      BY <2>2, <2>3, <2>5, RequestMoves
  <1> QED
    BY <1>1, <1>2, <1>3, <1>4, <1>5, <1>6, <1>7, <1>8, <1>9
    DEF KnowledgeNext, artifacts, milestones, Rules!rulesVars

------------------------------------------------------------------------------
(* Every request that changes an artifact or a milestone has decided on the     *)
(* record as it is when it is changed, whatever other requests do meanwhile.    *)
THEOREM Serialized == ASSUME NothingApart PROVE KnowledgeSpec => ServedInTurn
  <1>1. KnowledgeInit => KnowledgeInv /\ Rules!RulesInit
    <2> SUFFICES ASSUME KnowledgeInit PROVE KnowledgeInv /\ Rules!RulesInit
      OBVIOUS
    <2>1. NoRequest \in AnyRequest /\ NoRequest \notin Asking /\ NoRequest \notin Updating
      BY DEF AnyRequest, NoRequest, Asking, Updating
    <2> QED
      BY <2>1 DEF KnowledgeInit, KnowledgeInv, KnowledgeTypeOK, Fits, AnyRequest, Rules!RulesInit
  <1>2. KnowledgeInv /\ [KnowledgeNext]_knowledgeVars
           => KnowledgeInv' /\ [Rules!RulesNext]_(Rules!rulesVars)
    BY KnowledgeStep
  <1> QED
    BY <1>1, <1>2, PTL DEF KnowledgeSpec, ServedInTurn, Rules!RulesSpec

------------------------------------------------------------------------------
(* Parents of tasks: no cycle but of requests that raced.                       *)

(* A parent is a row, and so is a task that has one.                            *)
ParentsThere ==
    /\ \A t \in Relatives : row[t] = "absent" => parent[t] = NoParent
    /\ \A t \in Relatives : parent[t] # NoParent => row[parent[t]] # "absent"

(* So are the task a request moves and, once it has read it, the parent.        *)
MoveThere(m) ==
    /\ row[m.task] # "absent"
    /\ m.pc = "writing" => m.cursor = NoParent
    /\ m.to # NoParent => \/ row[m.to] # "absent"
                          \/ m.pc = "walking" /\ m.cursor = m.to

(* What a walk has read, while no parent was written since it began: a set of   *)
(* tasks without the one it is for, in which the parent of each is the next the *)
(* walk looks at or in the set again.                                           *)
WalkedOver(m, V) ==
    /\ m.task \notin V
    /\ m.to \in V \cup {m.cursor}
    /\ \A v \in V : row[v] # "absent" /\ parent[v] \in V \cup {m.cursor}
Walked(m) == \E V \in SUBSET Relatives : WalkedOver(m, V)

MovesSound == \A r \in Movers : move[r] # NoMove =>
    MoveThere(move[r]) /\ (~move[r].overtaken => Walked(move[r]))

HInv == HierarchyTypeOK /\ ParentsThere /\ MovesSound /\ CyclesRaced

(* A request under way is a record with all its fields.                         *)
LEMMA Moving ==
    ASSUME HierarchyTypeOK, NEW r \in Movers, move[r] # NoMove
    PROVE  move[r] \in Move
BY DEF HierarchyTypeOK

LEMMA MoveEdits ==
    ASSUME NEW m \in Move
    PROVE  /\ m # NoMove
           /\ [m EXCEPT !.stale = TRUE] \in Move
           /\ [m EXCEPT !.overtaken = TRUE] \in Move
           /\ [m EXCEPT !.pc = "writing"] \in Move
           /\ \A c \in Relatives \cup {NoParent} :
                 [m EXCEPT !.cursor = c, !.depth = m.depth + 1] \in Move
<1>1. m = [pc |-> m.pc, task |-> m.task, to |-> m.to, cursor |-> m.cursor, depth |-> m.depth,
           stale |-> m.stale, overtaken |-> m.overtaken]
  BY DEF Move
<1>2. /\ m.pc \in {"walking", "writing"} /\ m.task \in Relatives
      /\ m.to \in Relatives \cup {NoParent} /\ m.cursor \in Relatives \cup {NoParent}
      /\ m.depth \in Nat /\ m.depth + 1 \in Nat /\ m.stale \in BOOLEAN /\ m.overtaken \in BOOLEAN
  BY DEF Move
<1>3. m # NoMove
  BY <1>2 DEF NoMove
<1> QED BY <1>1, <1>2, <1>3 DEF Move

(* Neither mark touches what a walk has found.                                  *)
LEMMA StaleKeeps ==
    ASSUME NEW m \in [Movers -> Move \cup {NoMove}], NEW t, NEW r \in Movers
    PROVE  /\ Stale(m, t) \in [Movers -> Move \cup {NoMove}]
           /\ (Stale(m, t)[r] = NoMove) <=> (m[r] = NoMove)
           /\ m[r] # NoMove => /\ Stale(m, t)[r].pc = m[r].pc
                               /\ Stale(m, t)[r].task = m[r].task
                               /\ Stale(m, t)[r].to = m[r].to
                               /\ Stale(m, t)[r].cursor = m[r].cursor
                               /\ Stale(m, t)[r].overtaken = m[r].overtaken
<1>1. Stale(m, t)[r] = IF m[r] # NoMove /\ m[r].task = t
                         THEN [m[r] EXCEPT !.stale = TRUE] ELSE m[r]
  BY DEF Stale
<1>2. Stale(m, t) \in [Movers -> Move \cup {NoMove}]
  BY MoveEdits DEF Stale
<1>3. m[r] # NoMove => m[r] \in Move
  OBVIOUS
<1>4. m[r] \in Move => /\ [m[r] EXCEPT !.stale = TRUE].pc = m[r].pc
                       /\ [m[r] EXCEPT !.stale = TRUE].task = m[r].task
                       /\ [m[r] EXCEPT !.stale = TRUE].to = m[r].to
                       /\ [m[r] EXCEPT !.stale = TRUE].cursor = m[r].cursor
                       /\ [m[r] EXCEPT !.stale = TRUE].overtaken = m[r].overtaken
                       /\ [m[r] EXCEPT !.stale = TRUE] # NoMove
  BY MoveEdits DEF Move
<1> QED BY <1>1, <1>2, <1>3, <1>4

LEMMA OvertakenMarks ==
    ASSUME NEW m \in [Movers -> Move \cup {NoMove}], NEW r \in Movers
    PROVE  /\ Overtaken(m) \in [Movers -> Move \cup {NoMove}]
           /\ (Overtaken(m)[r] = NoMove) <=> (m[r] = NoMove)
           /\ m[r] # NoMove => /\ Overtaken(m)[r].pc = m[r].pc
                               /\ Overtaken(m)[r].task = m[r].task
                               /\ Overtaken(m)[r].to = m[r].to
                               /\ Overtaken(m)[r].cursor = m[r].cursor
                               /\ Overtaken(m)[r].overtaken = TRUE
<1>1. Overtaken(m)[r] = IF m[r] # NoMove THEN [m[r] EXCEPT !.overtaken = TRUE] ELSE m[r]
  BY DEF Overtaken
<1>2. Overtaken(m) \in [Movers -> Move \cup {NoMove}]
  BY MoveEdits DEF Overtaken
<1>3. m[r] # NoMove => m[r] \in Move
  OBVIOUS
<1>4. m[r] \in Move => /\ [m[r] EXCEPT !.overtaken = TRUE].pc = m[r].pc
                       /\ [m[r] EXCEPT !.overtaken = TRUE].task = m[r].task
                       /\ [m[r] EXCEPT !.overtaken = TRUE].to = m[r].to
                       /\ [m[r] EXCEPT !.overtaken = TRUE].cursor = m[r].cursor
                       /\ [m[r] EXCEPT !.overtaken = TRUE].overtaken = TRUE
                       /\ [m[r] EXCEPT !.overtaken = TRUE] # NoMove
  BY MoveEdits DEF Move
<1> QED BY <1>1, <1>2, <1>3, <1>4

(* A request for which nothing changed, where the rows that were there still    *)
(* are and their parents are the same.                                          *)
RowsKept ==
    /\ \A t \in Relatives : row[t] # "absent" => row'[t] # "absent"
    /\ \A t \in Relatives : row[t] # "absent" => parent'[t] = parent[t]

SameWalk(m, n) ==
    /\ n.pc = m.pc /\ n.task = m.task /\ n.to = m.to /\ n.cursor = m.cursor
    /\ n.overtaken = m.overtaken

LEMMA ThereKept ==
    ASSUME HierarchyTypeOK, NEW m \in Move, NEW n, SameWalk(m, n), MoveThere(m),
           \A t \in Relatives : row[t] # "absent" => row'[t] # "absent"
    PROVE  MoveThere(n)'
<1>1. m.task \in Relatives /\ m.to \in Relatives \cup {NoParent}
  BY DEF Move
<1> QED BY <1>1 DEF MoveThere, SameWalk

LEMMA WalkKept ==
    ASSUME NEW m \in Move, NEW n, SameWalk(m, n), Walked(m), RowsKept
    PROVE  Walked(n)'
<1>1. PICK V \in SUBSET Relatives : WalkedOver(m, V)
  BY DEF Walked
<1>2. n.task \notin V /\ n.to \in V \cup {n.cursor}
  BY <1>1 DEF WalkedOver, SameWalk
<1>3. \A v \in V : row'[v] # "absent" /\ parent'[v] \in V \cup {n.cursor}
  BY <1>1 DEF WalkedOver, SameWalk, RowsKept
<1> QED BY <1>2, <1>3 DEF Walked, WalkedOver

(* Each request is looked at on its own.                                        *)
LEMMA MovesSoundNext ==
    ASSUME \A r \in Movers : \A n : n = move'[r] /\ n # NoMove =>
               MoveThere(n)' /\ (~n.overtaken => Walked(n)')
    PROVE  MovesSound'
BY DEF MovesSound, MoveThere, Walked, WalkedOver

LEMMA MoveStays ==
    ASSUME HierarchyTypeOK, MovesSound, RowsKept, NEW r \in Movers, move[r] # NoMove,
           NEW n, SameWalk(move[r], n)
    PROVE  MoveThere(n)' /\ (~n.overtaken => Walked(n)')
<1>1. PICK m : m = move[r]
  OBVIOUS
<1>2. m \in Move /\ SameWalk(m, n)
  BY <1>1, Moving
<1>3. MoveThere(m) /\ (~m.overtaken => Walked(m))
  BY <1>1 DEF MovesSound
<1>4. MoveThere(n)'
  BY <1>2, <1>3, ThereKept DEF RowsKept
<1>5. ~n.overtaken => Walked(n)'
  BY <1>2, <1>3, WalkKept DEF SameWalk
<1> QED BY <1>4, <1>5

LEMMA SameRefl == \A m : SameWalk(m, m)
BY DEF SameWalk

------------------------------------------------------------------------------
LEMMA HInit == HierarchyInit => HInv
<1> SUFFICES ASSUME HierarchyInit PROVE HInv
  OBVIOUS
<1>1. HierarchyTypeOK
  BY DEF HierarchyInit, HierarchyTypeOK
<1>2. ParentsThere /\ MovesSound
  BY DEF HierarchyInit, ParentsThere, MovesSound
<1>3. CyclesRaced
  BY NoParentAssumption DEF HierarchyInit, CyclesRaced
<1> QED BY <1>1, <1>2, <1>3 DEF HInv

(* createTask gives the only new parent, to a row nothing names yet.            *)
LEMMA CreateTaskKeeps ==
    ASSUME HInv, NEW t \in Relatives, NEW p \in Relatives \cup {NoParent}, CreateTask(t, p)
    PROVE  HInv'
<1> USE DEF HInv
<1>1. HierarchyTypeOK'
  BY DEF HierarchyTypeOK, CreateTask
<1>2. \A u \in Relatives : /\ row'[u] = IF u = t THEN "live" ELSE row[u]
                           /\ parent'[u] = IF u = t THEN p ELSE parent[u]
  BY DEF CreateTask, HierarchyTypeOK
<1>3. row[t] = "absent" /\ (p # NoParent => p \in Relatives /\ row[p] = "live") /\ move' = move /\ raced' = raced
  BY DEF CreateTask
<1>4. RowsKept
  BY <1>2, <1>3 DEF RowsKept
<1>5. ParentsThere'
  <2>1. \A u \in Relatives : row'[u] = "absent" => parent'[u] = NoParent
    BY <1>2 DEF ParentsThere
  <2>2. \A u \in Relatives : parent'[u] # NoParent => row'[parent'[u]] # "absent"
    <3> SUFFICES ASSUME NEW u \in Relatives, parent'[u] # NoParent
                 PROVE  row'[parent'[u]] # "absent"
      OBVIOUS
    <3>1. parent'[u] \in Relatives
      BY <1>1 DEF HierarchyTypeOK
    <3>2. row[parent'[u]] # "absent"
      BY <1>2, <1>3 DEF ParentsThere
    <3> QED BY <1>2, <3>1, <3>2
  <2> QED BY <2>1, <2>2 DEF ParentsThere
<1>6. MovesSound'
  BY <1>3, <1>4, MoveStays, MovesSoundNext, SameRefl
<1>7. CyclesRaced'
  <2> SUFFICES ASSUME NEW S \in SUBSET (Relatives \ raced), S # {}
               PROVE  \E u \in S : parent'[u] \notin S
    BY <1>3 DEF CyclesRaced
  <2>1. p # t
    BY <1>3, NoParentAssumption
  <2>2. \A u \in Relatives : parent[u] # t
    BY <1>3, NoParentAssumption DEF ParentsThere
  <2>3. CASE S \ {t} = {}
    <3>1. S = {t} /\ parent'[t] = p
      BY <1>2, <2>3
    <3> QED BY <2>1, <3>1
  <2>4. CASE S \ {t} # {}
    <3>1. PICK u \in S \ {t} : parent[u] \notin S \ {t}
      BY <2>4 DEF CyclesRaced
    <3>2. parent'[u] = parent[u] /\ parent[u] # t
      BY <1>2, <2>2
    <3> QED BY <3>1, <3>2
  <2> QED BY <2>3, <2>4
<1> QED BY <1>1, <1>5, <1>6, <1>7

(* What leaves the rows and the parents alone leaves the cycles alone.          *)
LEMMA MoveOnlyKeeps ==
    ASSUME HInv, UNCHANGED <<row, parent, raced>>, HierarchyTypeOK', MovesSound'
    PROVE  HInv'
BY DEF HInv, ParentsThere, CyclesRaced

(* A step of one request that keeps the rows and the parents.                   *)
LEMMA OneMoves ==
    ASSUME HInv, NEW r \in Movers, NEW n \in Move \cup {NoMove},
           move' = [move EXCEPT ![r] = n], UNCHANGED <<row, parent, raced>>,
           n # NoMove => MoveThere(n)' /\ (~n.overtaken => Walked(n)')
    PROVE  HInv'
<1> USE DEF HInv
<1>1. HierarchyTypeOK'
  BY DEF HierarchyTypeOK
<1>2. RowsKept
  BY DEF RowsKept
<1>3. MovesSound'
  <2> SUFFICES ASSUME NEW q \in Movers, NEW o, o = move'[q], o # NoMove
               PROVE  MoveThere(o)' /\ (~o.overtaken => Walked(o)')
    BY MovesSoundNext
  <2>1. CASE q = r
    <3>1. o = n
      BY <2>1 DEF HierarchyTypeOK
    <3> QED BY <3>1
  <2>2. CASE q # r
    <3>1. o = move[q]
      BY <2>2 DEF HierarchyTypeOK
    <3> QED BY <1>2, <3>1, MoveStays, SameRefl
  <2> QED BY <2>1, <2>2
<1> QED BY <1>1, <1>3, MoveOnlyKeeps
(* updateTask up to its walk, which has read nothing.                           *)
LEMMA BeginMoveKeeps ==
    ASSUME HInv, NEW r \in Movers, NEW t \in Relatives, NEW p \in Relatives \cup {NoParent},
           BeginMove(r, t, p)
    PROVE  HInv'
<1> USE DEF HInv
<1>1. PICK n : n = [pc |-> IF p = NoParent THEN "writing" ELSE "walking",
                   task |-> t, to |-> p, cursor |-> p, depth |-> 0,
                   stale |-> FALSE, overtaken |-> FALSE]
  OBVIOUS
<1>2. n \in Move
  BY <1>1 DEF Move
<1>3. move' = [move EXCEPT ![r] = n] /\ UNCHANGED <<row, parent, raced>> /\ row[t] = "live"
  BY <1>1 DEF BeginMove
<1>4. MoveThere(n)'
  BY <1>1, <1>3 DEF MoveThere
<1>5. Walked(n)'
  <2>1. WalkedOver(n, {})'
    BY <1>1 DEF WalkedOver
  <2> QED BY <2>1 DEF Walked
<1> QED BY <1>2, <1>3, <1>4, <1>5, OneMoves

(* A turn of the walk adds the task it read to what it has walked over; it is   *)
(* not the one the walk is for.                                                 *)
LEMMA ClimbKeeps ==
    ASSUME HInv, NEW r \in Movers, Climb(r)
    PROVE  HInv'
<1> USE DEF HInv
<1>1. PICK m : m = move[r]
  OBVIOUS
<1>2. PICK a : a = m.cursor
  OBVIOUS
<1>3. m.pc = "walking" /\ a # NoParent /\ row[a] = "live" /\ a # m.task
  BY <1>1, <1>2 DEF Climb, Refuses
<1>4. m # NoMove /\ m \in Move /\ a \in Relatives
  <2>1. m # NoMove
    BY <1>3 DEF NoMove
  <2> QED BY <1>1, <1>2, <1>3, <2>1, Moving DEF Move
<1>5. parent[a] \in Relatives \cup {NoParent}
  BY <1>4 DEF HierarchyTypeOK
<1>6. PICK n : n = [m EXCEPT !.cursor = parent[a], !.depth = m.depth + 1]
  OBVIOUS
<1>7. n \in Move
  BY <1>4, <1>5, <1>6, MoveEdits
<1>8. move' = [move EXCEPT ![r] = n] /\ UNCHANGED <<row, parent, raced>>
  BY <1>1, <1>2, <1>6 DEF Climb
<1>9. /\ n.pc = m.pc /\ n.task = m.task /\ n.to = m.to /\ n.cursor = parent[a]
      /\ n.overtaken = m.overtaken
  BY <1>4, <1>6 DEF Move
<1>10. MoveThere(m) /\ (~m.overtaken => Walked(m))
  BY <1>1, <1>4 DEF MovesSound
<1>11. MoveThere(n)'
  BY <1>2, <1>3, <1>8, <1>9, <1>10 DEF MoveThere
<1>12. ASSUME ~n.overtaken PROVE Walked(n)'
  <2>1. PICK V \in SUBSET Relatives : WalkedOver(m, V)
    BY <1>9, <1>10, <1>12 DEF Walked
  <2>2. PICK W : W = V \cup {a}
    OBVIOUS
  <2>3. W \in SUBSET Relatives
    BY <1>4, <2>2
  <2>4. n.task \notin W /\ n.to \in W \cup {n.cursor}
    BY <1>2, <1>3, <1>9, <2>1, <2>2 DEF WalkedOver
  <2>5. \A v \in W : row[v] # "absent" /\ parent[v] \in W \cup {n.cursor}
    BY <1>2, <1>3, <1>9, <2>1, <2>2 DEF WalkedOver
  <2>6. WalkedOver(n, W)'
    BY <1>8, <2>4, <2>5 DEF WalkedOver
  <2> QED BY <2>3, <2>6 DEF Walked
<1> QED BY <1>7, <1>8, <1>11, <1>12, OneMoves

LEMMA ArriveKeeps ==
    ASSUME HInv, NEW r \in Movers, Arrive(r)
    PROVE  HInv'
<1> USE DEF HInv
<1>1. PICK m : m = move[r]
  OBVIOUS
<1>2. m.pc = "walking" /\ m.cursor = NoParent
  BY <1>1 DEF Arrive
<1>3. m # NoMove /\ m \in Move
  BY <1>1, <1>2, Moving DEF NoMove
<1>4. PICK n : n = [m EXCEPT !.pc = "writing"]
  OBVIOUS
<1>5. n \in Move
  BY <1>3, <1>4, MoveEdits
<1>6. move' = [move EXCEPT ![r] = n] /\ UNCHANGED <<row, parent, raced>>
  BY <1>1, <1>4 DEF Arrive
<1>7. /\ n.pc = "writing" /\ n.task = m.task /\ n.to = m.to /\ n.cursor = m.cursor
      /\ n.overtaken = m.overtaken
  BY <1>3, <1>4 DEF Move
<1>8. MoveThere(m) /\ (~m.overtaken => Walked(m))
  BY <1>1, <1>3 DEF MovesSound
<1>9. MoveThere(n)'
  BY <1>2, <1>6, <1>7, <1>8 DEF MoveThere
<1>10. ~n.overtaken => Walked(n)'
  BY <1>6, <1>7, <1>8 DEF Walked, WalkedOver
<1> QED BY <1>5, <1>6, <1>9, <1>10, OneMoves

LEMMA GiveUpKeeps ==
    ASSUME HInv, NEW r \in Movers, RefuseMove(r) \/ FailMove(r)
    PROVE  HInv'
<1>1. move' = [move EXCEPT ![r] = NoMove] /\ UNCHANGED <<row, parent, raced>>
  BY DEF RefuseMove, FailMove
<1> QED BY <1>1, OneMoves

LEMMA TrashRestoreKeeps ==
    ASSUME HInv, NEW t \in Relatives, Trash(t) \/ Restore(t)
    PROVE  HInv'
<1> USE DEF HInv
<1>1. move' = Stale(move, t) /\ UNCHANGED <<parent, raced>>
  BY DEF Trash, Restore
<1>2. \A u \in Relatives : (row'[u] = "absent") <=> (row[u] = "absent")
  BY DEF Trash, Restore, HierarchyTypeOK
<1>3. move \in [Movers -> Move \cup {NoMove}]
  BY DEF HierarchyTypeOK
<1>4. HierarchyTypeOK'
  <2>1. move' \in [Movers -> Move \cup {NoMove}]
    <3>1. CASE Movers = {}
      BY <1>1, <3>1 DEF Stale
    <3>2. CASE Movers # {}
      BY <1>1, <1>3, <3>2, StaleKeeps
    <3> QED BY <3>1, <3>2
  <2>2. row' \in [Relatives -> {"absent", "live", "trashed"}]
    BY DEF HierarchyTypeOK, Trash, Restore
  <2> QED BY <1>1, <2>1, <2>2 DEF HierarchyTypeOK
<1>5. RowsKept
  BY <1>1, <1>2 DEF RowsKept
<1>6. ParentsThere'
  <2>1. \A u \in Relatives : parent[u] \in Relatives \cup {NoParent}
    BY DEF HierarchyTypeOK
  <2> QED BY <1>1, <1>2, <2>1 DEF ParentsThere
<1>7. MovesSound'
  <2> SUFFICES ASSUME NEW q \in Movers, NEW n, n = move'[q], n # NoMove
               PROVE  MoveThere(n)' /\ (~n.overtaken => Walked(n)')
    BY MovesSoundNext
  <2>1. move[q] # NoMove /\ SameWalk(move[q], n)
    BY <1>1, <1>3, StaleKeeps DEF SameWalk
  <2> QED BY <1>5, <2>1, MoveStays
<1> QED BY <1>1, <1>4, <1>6, <1>7 DEF CyclesRaced

(* The write of a parent.  If nothing overtook it, what its walk went over      *)
(* holds every ancestor of the new parent and not the task: a cycle through the *)
(* task would go on within it, and was there before.  All other requests are    *)
(* overtaken from here on.                                                      *)
LEMMA WriteParentKeeps ==
    ASSUME HInv, NEW r \in Movers, WriteParent(r)
    PROVE  HInv'
<1> USE DEF HInv
<1>1. PICK m : m = move[r]
  OBVIOUS
<1>2. PICK t : t = m.task
  OBVIOUS
<1>3. /\ m.pc = "writing" /\ row[t] = "live" /\ parent' = [parent EXCEPT ![t] = m.to]
      /\ move' = Overtaken(Stale([move EXCEPT ![r] = NoMove], t))
      /\ raced' = (IF m.overtaken THEN raced \cup {t} ELSE raced \ {t}) /\ row' = row
  BY <1>1, <1>2 DEF WriteParent
<1>4. m # NoMove /\ m \in Move
  BY <1>1, <1>3, Moving DEF NoMove
<1>5. t \in Relatives /\ m.to \in Relatives \cup {NoParent}
  BY <1>2, <1>4 DEF Move
<1>6. MoveThere(m) /\ (~m.overtaken => Walked(m))
  BY <1>1, <1>4 DEF MovesSound
<1>7. \A u \in Relatives : parent'[u] = IF u = t THEN m.to ELSE parent[u]
  BY <1>3, <1>5 DEF HierarchyTypeOK
<1>8. m.to # NoParent => row[m.to] # "absent"
  BY <1>3, <1>6 DEF MoveThere
<1>9. PICK dropped : dropped = [move EXCEPT ![r] = NoMove]
  OBVIOUS
<1>10. dropped \in [Movers -> Move \cup {NoMove}]
  BY <1>9 DEF HierarchyTypeOK
<1>11. PICK staled : staled = Stale(dropped, t)
  OBVIOUS
<1>12. staled \in [Movers -> Move \cup {NoMove}]
  BY <1>10, <1>11, StaleKeeps
<1>13. move' = Overtaken(staled)
  BY <1>3, <1>9, <1>11
<1>14. HierarchyTypeOK'
  <2>1. move' \in [Movers -> Move \cup {NoMove}]
    BY <1>12, <1>13, OvertakenMarks
  <2>2. parent' \in [Relatives -> Relatives \cup {NoParent}] /\ raced' \subseteq Relatives
    BY <1>3, <1>5 DEF HierarchyTypeOK
  <2> QED BY <1>3, <2>1, <2>2 DEF HierarchyTypeOK
<1>15. ParentsThere'
  BY <1>3, <1>7, <1>8 DEF ParentsThere
<1>16. MovesSound'
  <2> SUFFICES ASSUME NEW q \in Movers, NEW n, n = move'[q], n # NoMove
               PROVE  MoveThere(n)' /\ (~n.overtaken => Walked(n)')
    BY MovesSoundNext
  <2>1. /\ staled[q] # NoMove /\ n.pc = staled[q].pc /\ n.task = staled[q].task
        /\ n.to = staled[q].to /\ n.cursor = staled[q].cursor /\ n.overtaken = TRUE
    BY <1>12, <1>13, OvertakenMarks
  <2>2. /\ dropped[q] # NoMove /\ n.pc = dropped[q].pc /\ n.task = dropped[q].task
        /\ n.to = dropped[q].to /\ n.cursor = dropped[q].cursor
    BY <1>10, <1>11, <2>1, StaleKeeps
  <2>3. q # r /\ dropped[q] = move[q] /\ move[q] # NoMove
    BY <1>9, <2>2 DEF HierarchyTypeOK
  <2>4. MoveThere(move[q])
    BY <2>3 DEF MovesSound
  <2>5. MoveThere(n)'
    BY <1>3, <2>2, <2>3, <2>4 DEF MoveThere
  <2> QED BY <2>1, <2>5
<1>17. CyclesRaced'
  <2> SUFFICES ASSUME NEW S \in SUBSET (Relatives \ raced'), S # {}
               PROVE  \E u \in S : parent'[u] \notin S
    BY DEF CyclesRaced
  <2>1. CASE t \notin S
    <3>1. S \in SUBSET (Relatives \ raced)
      BY <1>3, <2>1
    <3>2. PICK u \in S : parent[u] \notin S
      BY <3>1 DEF CyclesRaced
    <3> QED BY <1>7, <2>1, <3>2
  <2>2. CASE t \in S
    <3>1. ~m.overtaken /\ m.cursor = NoParent
      BY <1>3, <1>6, <2>2 DEF MoveThere
    <3>2. PICK V \in SUBSET Relatives : WalkedOver(m, V)
      BY <1>6, <3>1 DEF Walked
    <3>3. CASE m.to \notin S
      BY <1>5, <1>7, <2>2, <3>3
    <3>4. CASE m.to \in S
      <4>1. PICK C : C = S \cap V
        OBVIOUS
      <4>2. m.to \in C
        BY <3>1, <3>2, <3>4, <4>1, NoParentAssumption DEF WalkedOver
      <4>3. t \notin C
        BY <1>2, <3>2, <4>1 DEF WalkedOver
      <4>4. C \in SUBSET (Relatives \ raced)
        BY <1>3, <4>1, <4>3
      <4>5. PICK u \in C : parent[u] \notin C
        BY <4>2, <4>4 DEF CyclesRaced
      <4>6. parent[u] \in V \cup {NoParent}
        BY <3>1, <3>2, <4>1 DEF WalkedOver
      <4>7. parent[u] \notin S
        BY <4>1, <4>5, <4>6, NoParentAssumption
      <4>8. parent'[u] = parent[u] /\ u \in S
        BY <1>7, <4>1, <4>3
      <4> QED BY <4>7, <4>8
    <3> QED BY <3>3, <3>4
  <2> QED BY <2>1, <2>2
<1> QED BY <1>14, <1>15, <1>16, <1>17

LEMMA HStep == HInv /\ [HierarchyNext]_hierarchyVars => HInv'
<1> SUFFICES ASSUME HInv, [HierarchyNext]_hierarchyVars PROVE HInv'
  OBVIOUS
<1>1. ASSUME NEW t \in Relatives, NEW p \in Relatives \cup {NoParent}, CreateTask(t, p)
      PROVE  HInv'
  BY <1>1, CreateTaskKeeps
<1>2. ASSUME NEW t \in Relatives, NEW p \in Relatives \cup {NoParent}, NEW r \in Movers,
             BeginMove(r, t, p)
      PROVE  HInv'
  BY <1>2, BeginMoveKeeps
<1>3. ASSUME NEW r \in Movers,
             Climb(r) \/ RefuseMove(r) \/ Arrive(r) \/ WriteParent(r) \/ FailMove(r)
      PROVE  HInv'
  BY <1>3, ClimbKeeps, ArriveKeeps, GiveUpKeeps, WriteParentKeeps
<1>4. ASSUME NEW t \in Relatives, Trash(t) \/ Restore(t)
      PROVE  HInv'
  BY <1>4, TrashRestoreKeeps
<1>5. CASE UNCHANGED hierarchyVars
  BY <1>5 DEF hierarchyVars, HInv, HierarchyTypeOK, ParentsThere, MovesSound, CyclesRaced,
              MoveThere, Walked, WalkedOver
<1> QED BY <1>1, <1>2, <1>3, <1>4, <1>5 DEF HierarchyNext

(* On every cycle of parents, however long, lies a task whose parent was        *)
(* written after another had been written since the walk for it began: requests *)
(* one after the other never make one, whatever the depth walked.               *)
THEOREM Acyclic == HierarchySpec => []CyclesRaced
<1>1. HierarchyInit => HInv
  BY HInit
<1>2. HInv /\ [HierarchyNext]_hierarchyVars => HInv'
  BY HStep
<1>3. HInv => CyclesRaced
  BY DEF HInv
<1> QED BY <1>1, <1>2, <1>3, PTL DEF HierarchySpec

------------------------------------------------------------------------------
(* Identifiers of tasks: each finds its task.                                   *)

KeysUnique == \A p, q \in Projects : key[p] = key[q] /\ key[p] # Unkeyed => p = q

(* A task is named as long as its row is there, and what it was named once it   *)
(* is named still or has as an alias.                                           *)
NamesKept ==
    /\ \A t \in Tasks : IF stage[t] = "absent" THEN ident[t] = Unkeyed
                        ELSE ident[t] \in Identifier /\ <<ident[t], t>> \in given
    /\ alias \subseteq given
    /\ \A i \in Identifier, t \in Tasks : <<i, t>> \in given =>
          /\ stage[t] # "absent"
          /\ ident[t] = i \/ <<i, t>> \in alias

(* While its key was never given up, an identifier was counted by the project   *)
(* that has the key.                                                            *)
Counted(i) == \E p \in Projects : key[p] = i[1] /\ i[2] < counter[p]
NumbersCounted ==
    \A i \in Identifier, t \in Tasks :
        <<i, t>> \in given /\ i[1] \notin changed => Counted(i)

GivenOnce ==
    \A i \in Identifier, t, u \in Tasks :
        <<i, t>> \in given /\ <<i, u>> \in given /\ i[1] \notin changed => t = u

(* A request that is not stale still finds the row as it read it.               *)
ReadStands(n) ==
    /\ n.pc = "create" /\ ~n.stale => stage[n.task] = "absent"
    /\ n.pc = "move" /\ ~n.stale => stage[n.task] = "live"
ReadsStand == \A r \in Namers : ReadStands(naming[r])

KInv ==
    /\ IdentifierTypeOK /\ KeysUnique /\ NamesKept /\ NumbersCounted /\ GivenOnce
    /\ ReadsStand

(* A request under way is a record with all its fields.                         *)
Rows == [pc : {"create", "move"}, task : Tasks, project : Projects, key : Keys, stale : BOOLEAN]
Renames == [pc : {"rename"}, project : Projects, to : Keys, stale : BOOLEAN]

LEMMA NamingKinds ==
    ASSUME NEW n \in Naming \cup {NoNaming}
    PROVE  /\ n.pc \in {"create", "move"} => n \in Rows
           /\ n.pc = "rename" => n \in Renames
           /\ n.pc \in {"create", "move", "rename", "idle"}
           /\ n.pc = "idle" => n = NoNaming
BY DEF Naming, NoNaming, Rows, Renames

LEMMA NamingStale ==
    ASSUME NEW n \in Naming
    PROVE  /\ [n EXCEPT !.stale = TRUE] \in Naming
           /\ [n EXCEPT !.stale = TRUE].stale = TRUE
<1>1. n \in Rows \/ n \in Renames
  BY DEF Naming, Rows, Renames
<1>2. CASE n \in Rows
  <2>1. n = [pc |-> n.pc, task |-> n.task, project |-> n.project, key |-> n.key,
             stale |-> n.stale]
    BY <1>2 DEF Rows
  <2>2. /\ n.pc \in {"create", "move"} /\ n.task \in Tasks /\ n.project \in Projects
        /\ n.key \in Keys /\ n.stale \in BOOLEAN
    BY <1>2 DEF Rows
  <2> QED BY <2>1, <2>2 DEF Naming
<1>3. CASE n \in Renames
  <2>1. n = [pc |-> n.pc, project |-> n.project, to |-> n.to, stale |-> n.stale]
    BY <1>3 DEF Renames
  <2>2. n.pc = "rename" /\ n.project \in Projects /\ n.to \in Keys /\ n.stale \in BOOLEAN
    BY <1>3 DEF Renames
  <2> QED BY <2>1, <2>2 DEF Naming
<1> QED BY <1>1, <1>2, <1>3

(* What a request read stays, or the request is marked.                         *)
LEMMA OutrunMarks ==
    ASSUME NEW m \in [Namers -> Naming \cup {NoNaming}], NEW S \in SUBSET Namers,
           \A r \in S : m[r] # NoNaming
    PROVE  /\ Outrun(m, S) \in [Namers -> Naming \cup {NoNaming}]
           /\ \A r \in Namers \ S : Outrun(m, S)[r] = m[r]
           /\ \A r \in S : Outrun(m, S)[r].stale = TRUE
<1>1. \A r \in Namers : Outrun(m, S)[r] = IF r \in S THEN [m[r] EXCEPT !.stale = TRUE] ELSE m[r]
  BY DEF Outrun
<1>2. \A r \in S : m[r] \in Naming
  OBVIOUS
<1>3. \A r \in Namers :
          (IF r \in S THEN [m[r] EXCEPT !.stale = TRUE] ELSE m[r]) \in Naming \cup {NoNaming}
  BY <1>2, NamingStale
<1> QED BY <1>1, <1>2, <1>3, NamingStale DEF Outrun

------------------------------------------------------------------------------
LEMMA KInit == IdentifierInit => KInv
<1> SUFFICES ASSUME IdentifierInit PROVE KInv
  OBVIOUS
<1> USE DEF IdentifierInit
<1>1. IdentifierTypeOK
  <2>1. 1 \in 1 .. MaxNumber + 1
    BY NumberAssumption
  <2> QED BY <2>1 DEF IdentifierTypeOK
<1>2. KeysUnique /\ NamesKept /\ NumbersCounted /\ GivenOnce
  BY DEF KeysUnique, NamesKept, NumbersCounted, GivenOnce
<1>3. ReadsStand
  BY DEF ReadsStand, ReadStands, NoNaming
<1> QED BY <1>1, <1>2, <1>3 DEF KInv

(* createProject takes a key nobody has.                                        *)
LEMMA CreateProjectKeeps ==
    ASSUME KInv, NEW p \in Projects, NEW k \in Keys, CreateProject(p, k)
    PROVE  KInv'
<1> USE DEF KInv
<1>1. /\ key' = [key EXCEPT ![p] = k] /\ key[p] = Unkeyed /\ \A q \in Projects : key[q] # k
      /\ UNCHANGED <<counter, stage, home, ident, alias, given, naming, changed>>
  BY DEF CreateProject, KeyFree, tasksKeep
<1>2. \A q \in Projects : key'[q] = IF q = p THEN k ELSE key[q]
  BY <1>1 DEF IdentifierTypeOK
<1>3. IdentifierTypeOK'
  BY <1>1 DEF IdentifierTypeOK
<1>4. KeysUnique'
  BY <1>1, <1>2 DEF KeysUnique
<1>5. NumbersCounted'
  <2> SUFFICES ASSUME NEW i \in Identifier, NEW t \in Tasks, <<i, t>> \in given,
                      i[1] \notin changed
               PROVE  Counted(i)'
    BY <1>1 DEF NumbersCounted
  <2>1. PICK q \in Projects : key[q] = i[1] /\ i[2] < counter[q]
    BY DEF NumbersCounted, Counted
  <2>2. q # p
    BY <1>1, <2>1, UnkeyedAssumption DEF Identifier
  <2> QED BY <1>1, <1>2, <2>1, <2>2 DEF Counted
<1> QED BY <1>1, <1>3, <1>4, <1>5 DEF NamesKept, GivenOnce, ReadsStand, ReadStands

(* What only reads, or gives up, changes one request.                           *)
LEMMA OneReads ==
    ASSUME KInv, NEW r \in Namers, NEW n \in Naming \cup {NoNaming}, ReadStands(n),
           naming' = [naming EXCEPT ![r] = n],
           UNCHANGED <<counter, stage, home, ident, alias, given, key, changed>>
    PROVE  KInv'
<1> USE DEF KInv
<1>1. IdentifierTypeOK'
  BY DEF IdentifierTypeOK
<1>2. \A q \in Namers : naming'[q] = IF q = r THEN n ELSE naming[q]
  BY DEF IdentifierTypeOK
<1>3. \A m : ReadStands(m) => ReadStands(m)'
  BY DEF ReadStands
<1>4. ReadsStand'
  <2>1. \A q \in Namers : ReadStands(IF q = r THEN n ELSE naming[q])
    BY DEF ReadsStand
  <2>2. \A q \in Namers : \A m : m = naming'[q] => ReadStands(m)'
    BY <1>2, <1>3, <2>1
  <2> QED BY <2>2 DEF ReadsStand, ReadStands
<1> QED BY <1>1, <1>4 DEF KeysUnique, NamesKept, NumbersCounted, Counted, GivenOnce

LEMMA RenameReadKeeps ==
    ASSUME KInv, NEW r \in Namers, NEW p \in Projects, NEW k \in Keys, RenameRead(r, p, k)
    PROVE  KInv'
<1>1. PICK n : n = [pc |-> "rename", project |-> p, to |-> k, stale |-> FALSE]
  OBVIOUS
<1>2. n \in Naming /\ ReadStands(n)
  BY <1>1 DEF Naming, ReadStands
<1>3. /\ naming' = [naming EXCEPT ![r] = n]
      /\ UNCHANGED <<counter, stage, home, ident, alias, given, key, changed>>
  BY <1>1 DEF RenameRead, tasksKeep
<1> QED BY <1>2, <1>3, OneReads

LEMMA CreateReadKeeps ==
    ASSUME KInv, NEW r \in Namers, NEW t \in Tasks, NEW p \in Projects, CreateRead(r, t, p)
    PROVE  KInv'
<1>1. PICK n : n = [pc |-> "create", task |-> t, project |-> p, key |-> key[p], stale |-> FALSE]
  OBVIOUS
<1>2. key[p] \in Keys /\ stage[t] = "absent"
  BY DEF CreateRead, KInv, IdentifierTypeOK
<1>3. n \in Naming /\ ReadStands(n)
  BY <1>1, <1>2 DEF Naming, ReadStands
<1>4. /\ naming' = [naming EXCEPT ![r] = n]
      /\ UNCHANGED <<counter, stage, home, ident, alias, given, key, changed>>
  BY <1>1 DEF CreateRead, tasksKeep
<1> QED BY <1>3, <1>4, OneReads

LEMMA MoveReadKeeps ==
    ASSUME KInv, NEW r \in Namers, NEW t \in Tasks, NEW p \in Projects, MoveRead(r, t, p)
    PROVE  KInv'
<1>1. PICK n : n = [pc |-> "move", task |-> t, project |-> p, key |-> key[p], stale |-> FALSE]
  OBVIOUS
<1>2. key[p] \in Keys /\ stage[t] = "live"
  BY DEF MoveRead, KInv, IdentifierTypeOK
<1>3. n \in Naming /\ ReadStands(n)
  BY <1>1, <1>2 DEF Naming, ReadStands
<1>4. /\ naming' = [naming EXCEPT ![r] = n]
      /\ UNCHANGED <<counter, stage, home, ident, alias, given, key, changed>>
  BY <1>1 DEF MoveRead, tasksKeep
<1> QED BY <1>3, <1>4, OneReads

LEMMA FailNamingKeeps ==
    ASSUME KInv, NEW r \in Namers, FailNaming(r)
    PROVE  KInv'
<1>1. /\ naming' = [naming EXCEPT ![r] = NoNaming]
      /\ UNCHANGED <<counter, stage, home, ident, alias, given, key, changed>>
  BY DEF FailNaming, Drop, tasksKeep
<1>2. ReadStands(NoNaming)
  BY DEF ReadStands, NoNaming
<1> QED BY <1>1, <1>2, OneReads

(* updateProject: a key that tasks are named after is given up, so that nothing *)
(* is said of it any more; the other keys keep their projects.                  *)
LEMMA RenameWriteKeeps ==
    ASSUME KInv, NEW r \in Namers, RenameWrite(r)
    PROVE  KInv'
<1> USE DEF KInv
<1>1. PICK n : n = naming[r]
  OBVIOUS
<1>2. PICK p : p = n.project
  OBVIOUS
<1>3. PICK dropped : dropped = [naming EXCEPT ![r] = NoNaming]
  OBVIOUS
<1>4. PICK S : S = Renaming(p) \ {r}
  OBVIOUS
<1>5. /\ n.pc = "rename" /\ \A q \in Projects : key[q] # n.to
      /\ key' = [key EXCEPT ![p] = n.to]
      /\ naming' = Outrun(dropped, S)
      /\ changed' = (IF \E g \in given : g[1][1] = key[p] THEN changed \cup {key[p]} ELSE changed)
      /\ UNCHANGED <<counter, stage, home, ident, alias, given>>
  BY <1>1, <1>2, <1>3, <1>4 DEF RenameWrite, KeyFree, Drop, tasksKeep
<1>6. n \in Renames
  BY <1>1, <1>5, NamingKinds DEF IdentifierTypeOK
<1>7. p \in Projects /\ n.to \in Keys
  BY <1>2, <1>6 DEF Renames
<1>8. dropped \in [Namers -> Naming \cup {NoNaming}] /\ S \in SUBSET Namers
      /\ \A q \in S : dropped[q] # NoNaming
  BY <1>3, <1>4 DEF IdentifierTypeOK, Renaming, NoNaming
<1>9. \A q \in Projects : key'[q] = IF q = p THEN n.to ELSE key[q]
  BY <1>5 DEF IdentifierTypeOK
<1>10. changed \subseteq changed'
  BY <1>5
<1>11. \A i \in Identifier, t \in Tasks :
           <<i, t>> \in given /\ i[1] \notin changed' => i[1] # key[p] /\ i[1] \notin changed
  <2> SUFFICES ASSUME NEW i \in Identifier, NEW t \in Tasks, <<i, t>> \in given, i[1] = key[p]
               PROVE  i[1] \in changed'
    BY <1>10
  <2>1. <<i, t>>[1] = i
    OBVIOUS
  <2>2. \E g \in given : g[1][1] = key[p]
    BY <2>1
  <2> QED BY <1>5, <2>2
<1>12. IdentifierTypeOK'
  <2>1. naming' \in [Namers -> Naming \cup {NoNaming}]
    BY <1>5, <1>8, OutrunMarks
  <2>2. key' \in [Projects -> Keys \cup {Unkeyed}]
    BY <1>5, <1>7 DEF IdentifierTypeOK
  <2>3. changed' \subseteq Keys
    <3>1. CASE \E g \in given : g[1][1] = key[p]
      <4>1. PICK g \in given : g[1][1] = key[p]
        BY <3>1
      <4>2. g[1][1] \in Keys
        BY DEF IdentifierTypeOK, Identifier
      <4> QED BY <1>5, <4>1, <4>2 DEF IdentifierTypeOK
    <3>2. CASE ~\E g \in given : g[1][1] = key[p]
      BY <1>5, <3>2 DEF IdentifierTypeOK
    <3> QED BY <3>1, <3>2
  <2> QED BY <1>5, <2>1, <2>2, <2>3 DEF IdentifierTypeOK
<1>13. KeysUnique'
  BY <1>5, <1>9 DEF KeysUnique
<1>14. NamesKept'
  BY <1>5 DEF NamesKept
<1>15. NumbersCounted'
  <2> SUFFICES ASSUME NEW i \in Identifier, NEW t \in Tasks, <<i, t>> \in given,
                      i[1] \notin changed'
               PROVE  Counted(i)'
    BY <1>5 DEF NumbersCounted
  <2>1. PICK q \in Projects : key[q] = i[1] /\ i[2] < counter[q]
    BY <1>11 DEF NumbersCounted, Counted
  <2>2. q # p
    BY <1>11, <2>1
  <2> QED BY <1>5, <1>9, <2>1, <2>2 DEF Counted
<1>16. GivenOnce'
  BY <1>5, <1>10 DEF GivenOnce
<1>17. ReadsStand'
  <2>1. \A m : ReadStands(m) => ReadStands(m)'
    BY <1>5 DEF ReadStands
  <2>2. \A m : m.stale = TRUE => ReadStands(m)'
    BY DEF ReadStands
  <2>3. \A q \in Namers \ S : ReadStands(dropped[q])
    BY <1>3 DEF ReadsStand, ReadStands, NoNaming, IdentifierTypeOK
  <2>4. \A q \in Namers : \A m : m = naming'[q] => ReadStands(m)'
    BY <1>5, <1>8, <2>1, <2>2, <2>3, OutrunMarks
  <2> QED BY <2>4 DEF ReadsStand, ReadStands
<1> QED BY <1>12, <1>13, <1>14, <1>15, <1>16, <1>17

(* A task takes a number the project counts only now, or one under a key that   *)
(* was given up since it was read.                                              *)
LEMMA NameKeeps ==
    ASSUME KInv, NEW r \in Namers, Name(r)
    PROVE  KInv'
<1> USE DEF KInv
<1>1. PICK n : n = naming[r]
  OBVIOUS
<1>2. PICK t, p : t = n.task /\ p = n.project
  OBVIOUS
<1>3. PICK i : i = <<n.key, counter[p]>>
  OBVIOUS
<1>4. PICK dropped : dropped = [naming EXCEPT ![r] = NoNaming]
  OBVIOUS
<1>5. PICK S : S = About(t) \ {r}
  OBVIOUS
<1>6. /\ n.pc \in {"create", "move"} /\ ~n.stale /\ counter[p] <= MaxNumber
      /\ counter' = [counter EXCEPT ![p] = counter[p] + 1]
      /\ alias' = (IF stage[t] = "live" THEN alias \cup {<<ident[t], t>>} ELSE alias)
      /\ stage' = [stage EXCEPT ![t] = "live"]
      /\ home' = [home EXCEPT ![t] = p]
      /\ ident' = [ident EXCEPT ![t] = i]
      /\ given' = given \cup {<<i, t>>}
      /\ naming' = Outrun(dropped, S)
      /\ changed' = (IF key[p] # n.key THEN changed \cup {n.key} ELSE changed)
      /\ key' = key
  BY <1>1, <1>2, <1>3, <1>4, <1>5 DEF Name, Aliases, Drop
<1>7. n \in Rows
  BY <1>1, <1>6, NamingKinds DEF IdentifierTypeOK
<1>8. t \in Tasks /\ p \in Projects /\ n.key \in Keys
  BY <1>2, <1>7 DEF Rows
<1>9. counter[p] \in Nat /\ counter[p] >= 1 /\ counter[p] + 1 \in 1 .. MaxNumber + 1
      /\ counter[p] \in 1 .. MaxNumber
  BY <1>6, <1>8, NumberAssumption DEF IdentifierTypeOK
<1>10. i \in Identifier /\ i[1] = n.key /\ i[2] = counter[p]
  BY <1>3, <1>8, <1>9 DEF Identifier
<1>11. stage[t] = "absent" \/ stage[t] = "live"
  BY <1>1, <1>2, <1>6 DEF ReadsStand, ReadStands
<1>12. dropped \in [Namers -> Naming \cup {NoNaming}] /\ S \in SUBSET Namers
       /\ \A q \in S : dropped[q] # NoNaming
  BY <1>4, <1>5 DEF IdentifierTypeOK, About, NoNaming
<1>13. \A u \in Tasks : /\ stage'[u] = IF u = t THEN "live" ELSE stage[u]
                        /\ ident'[u] = IF u = t THEN i ELSE ident[u]
  BY <1>6 DEF IdentifierTypeOK
<1>14. \A q \in Projects : counter'[q] = IF q = p THEN counter[p] + 1 ELSE counter[q]
  BY <1>6 DEF IdentifierTypeOK
<1>15. \A q \in Projects : counter[q] \in Nat /\ counter'[q] >= counter[q]
  BY <1>9, <1>14, NumberAssumption DEF IdentifierTypeOK
<1>16. Unkeyed \notin Identifier
  BY UnkeyedAssumption
<1>17. IdentifierTypeOK'
  <2>1. naming' \in [Namers -> Naming \cup {NoNaming}]
    BY <1>6, <1>12, OutrunMarks
  <2>2. counter' \in [Projects -> 1 .. MaxNumber + 1]
    BY <1>6, <1>9 DEF IdentifierTypeOK
  <2>3. /\ stage' \in [Tasks -> {"absent", "live", "trashed"}]
        /\ home' \in [Tasks -> Projects \cup {Unkeyed}]
        /\ ident' \in [Tasks -> Identifier \cup {Unkeyed}]
        /\ given' \subseteq Identifier \X Tasks
        /\ changed' \subseteq Keys
    BY <1>6, <1>8, <1>10 DEF IdentifierTypeOK
  <2>4. alias' \subseteq Identifier \X Tasks
    BY <1>6, <1>8 DEF IdentifierTypeOK, NamesKept
  <2> QED BY <1>6, <2>1, <2>2, <2>3, <2>4 DEF IdentifierTypeOK
<1>18. KeysUnique'
  BY <1>6 DEF KeysUnique
<1>19. NamesKept'
  <2>1. alias' \subseteq given'
    BY <1>6, <1>8 DEF NamesKept
  <2>2. \A u \in Tasks : IF stage'[u] = "absent" THEN ident'[u] = Unkeyed
                         ELSE ident'[u] \in Identifier /\ <<ident'[u], u>> \in given'
    BY <1>6, <1>10, <1>13 DEF NamesKept
  <2>3. ASSUME NEW j \in Identifier, NEW u \in Tasks, <<j, u>> \in given'
        PROVE  stage'[u] # "absent" /\ (ident'[u] = j \/ <<j, u>> \in alias')
    <3>1. CASE u = t /\ j = i
      BY <1>13, <3>1
    <3>2. CASE ~(u = t /\ j = i)
      <4>1. <<j, u>> \in given
        BY <1>6, <2>3, <3>2
      <4>2. stage[u] # "absent" /\ (ident[u] = j \/ <<j, u>> \in alias)
        BY <4>1 DEF NamesKept
      <4>3. CASE u = t
        BY <1>6, <1>11, <1>13, <4>2, <4>3
      <4>4. CASE u # t
        BY <1>6, <1>13, <4>2, <4>4
      <4> QED BY <4>3, <4>4
    <3> QED BY <3>1, <3>2
  <2> QED BY <2>1, <2>2, <2>3 DEF NamesKept
<1>20. NumbersCounted'
  <2> SUFFICES ASSUME NEW j \in Identifier, NEW u \in Tasks, <<j, u>> \in given',
                      j[1] \notin changed'
               PROVE  Counted(j)'
    BY DEF NumbersCounted
  <2>1. j[2] \in Nat
    BY DEF Identifier
  <2>2. CASE <<j, u>> \in given
    <3>1. PICK q \in Projects : key[q] = j[1] /\ j[2] < counter[q]
      BY <1>6, <2>2 DEF NumbersCounted, Counted
    <3>2. j[2] < counter'[q]
      BY <1>14, <1>15, <1>9, <2>1, <3>1
    <3> QED BY <1>6, <3>1, <3>2 DEF Counted
  <2>3. CASE <<j, u>> \notin given
    <3>1. j = i
      BY <1>6, <2>3
    <3>2. key[p] = n.key
      BY <1>6, <1>10, <3>1
    <3>3. j[2] < counter'[p]
      BY <1>8, <1>9, <1>10, <1>14, <3>1
    <3> QED BY <1>6, <1>8, <1>10, <3>1, <3>2, <3>3 DEF Counted
  <2> QED BY <2>2, <2>3
<1>21. ASSUME NEW u \in Tasks, <<i, u>> \in given PROVE n.key \in changed'
  <2>1. CASE key[p] # n.key
    BY <1>6, <2>1
  <2>2. CASE key[p] = n.key
    <3> SUFFICES ASSUME n.key \notin changed PROVE FALSE
      BY <1>6
    <3>1. PICK q \in Projects : key[q] = n.key /\ counter[p] < counter[q]
      BY <1>10, <1>21 DEF NumbersCounted, Counted
    <3>2. n.key # Unkeyed
      BY <1>8, UnkeyedAssumption
    <3>3. q = p
      BY <1>8, <2>2, <3>1, <3>2 DEF KeysUnique
    <3> QED BY <1>9, <3>1, <3>3
  <2> QED BY <2>1, <2>2
<1>22. GivenOnce'
  <2> SUFFICES ASSUME NEW j \in Identifier, NEW u \in Tasks, NEW v \in Tasks,
                      <<j, u>> \in given', <<j, v>> \in given', j[1] \notin changed'
               PROVE  u = v
    BY DEF GivenOnce
  <2>1. j[1] \notin changed
    BY <1>6
  <2>2. CASE j # i
    <3>1. <<j, u>> \in given /\ <<j, v>> \in given
      BY <1>6, <2>2
    <3> QED BY <2>1, <3>1 DEF GivenOnce
  <2>3. CASE j = i
    <3>1. <<i, u>> \notin given /\ <<i, v>> \notin given
      BY <1>10, <1>21, <2>3
    <3> QED BY <1>6, <2>3, <3>1
  <2> QED BY <2>2, <2>3
<1>23. ReadsStand'
  <2>1. \A m : m.stale = TRUE => ReadStands(m)'
    BY DEF ReadStands
  <2>2. ASSUME NEW q \in Namers \ S PROVE \A m : m = dropped[q] => ReadStands(m)'
    <3>1. CASE q = r
      <4>1. dropped[q] = NoNaming
        BY <1>4, <3>1 DEF IdentifierTypeOK
      <4> QED BY <4>1 DEF ReadStands, NoNaming
    <3>2. CASE q # r
      <4>1. PICK m : m = naming[q]
        OBVIOUS
      <4>2. dropped[q] = m
        BY <1>4, <3>2, <4>1 DEF IdentifierTypeOK
      <4>3. ReadStands(m)
        BY <4>1 DEF ReadsStand
      <4>4. m.pc \in {"create", "move"} => m.task # t /\ m.task \in Tasks
        <5>1. m.pc \in {"create", "move"} => m \in Rows
          BY <4>1, NamingKinds DEF IdentifierTypeOK
        <5> QED BY <1>5, <2>2, <3>2, <4>1, <5>1 DEF About, Rows
      <4>5. ReadStands(m)'
        BY <1>13, <4>3, <4>4 DEF ReadStands
      <4> QED BY <4>2, <4>5
    <3> QED BY <3>1, <3>2
  <2>3. \A q \in Namers : \A m : m = naming'[q] => ReadStands(m)'
    BY <1>6, <1>12, <2>1, <2>2, OutrunMarks
  <2> QED BY <2>3 DEF ReadsStand, ReadStands
<1> QED BY <1>17, <1>18, <1>19, <1>20, <1>22, <1>23

(* softDelete and restore keep the row and make what was read of it stale.      *)
LEMMA TrashOrRestoreKeeps ==
    ASSUME KInv, NEW t \in Tasks, TrashOrRestore(t)
    PROVE  KInv'
<1> USE DEF KInv
<1>1. PICK S : S = About(t)
  OBVIOUS
<1>2. /\ naming' = Outrun(naming, S) /\ stage[t] # "absent"
      /\ UNCHANGED <<key, counter, home, ident, alias, given, changed>>
  BY <1>1 DEF TrashOrRestore
<1>3. /\ stage' \in [Tasks -> {"absent", "live", "trashed"}]
      /\ \A u \in Tasks : /\ (stage'[u] = "absent") <=> (stage[u] = "absent")
                          /\ u # t => stage'[u] = stage[u]
  BY DEF TrashOrRestore, IdentifierTypeOK
<1>4. naming \in [Namers -> Naming \cup {NoNaming}] /\ S \in SUBSET Namers
      /\ \A q \in S : naming[q] # NoNaming
  BY <1>1 DEF IdentifierTypeOK, About, NoNaming
<1>5. IdentifierTypeOK'
  <2>1. naming' \in [Namers -> Naming \cup {NoNaming}]
    BY <1>2, <1>4, OutrunMarks
  <2> QED BY <1>2, <1>3, <2>1 DEF IdentifierTypeOK
<1>6. NamesKept'
  BY <1>2, <1>3 DEF NamesKept
<1>7. ReadsStand'
  <2>1. \A m : m.stale = TRUE => ReadStands(m)'
    BY DEF ReadStands
  <2>2. ASSUME NEW q \in Namers \ S PROVE \A m : m = naming[q] => ReadStands(m)'
    <3>1. PICK m : m = naming[q]
      OBVIOUS
    <3>2. ReadStands(m)
      BY <3>1 DEF ReadsStand
    <3>3. m.pc \in {"create", "move"} => m.task # t /\ m.task \in Tasks
      <4>1. m.pc \in {"create", "move"} => m \in Rows
        BY <3>1, NamingKinds DEF IdentifierTypeOK
      <4> QED BY <1>1, <2>2, <3>1, <4>1 DEF About, Rows
    <3>4. ReadStands(m)'
      BY <1>3, <3>2, <3>3 DEF ReadStands
    <3> QED BY <3>1, <3>4
  <2>3. \A q \in Namers : \A m : m = naming'[q] => ReadStands(m)'
    BY <1>2, <1>4, <2>1, <2>2, OutrunMarks
  <2> QED BY <2>3 DEF ReadsStand, ReadStands
<1> QED BY <1>2, <1>5, <1>6, <1>7 DEF KeysUnique, NumbersCounted, Counted, GivenOnce

LEMMA KStep == KInv /\ [IdentifierNext]_identifierVars => KInv'
<1> SUFFICES ASSUME KInv, [IdentifierNext]_identifierVars PROVE KInv'
  OBVIOUS
<1>1. ASSUME NEW p \in Projects, NEW k \in Keys,
             CreateProject(p, k) \/ \E r \in Namers : RenameRead(r, p, k)
      PROVE  KInv'
  BY <1>1, CreateProjectKeeps, RenameReadKeeps
<1>2. ASSUME NEW r \in Namers, NEW t \in Tasks, NEW p \in Projects,
             CreateRead(r, t, p) \/ MoveRead(r, t, p)
      PROVE  KInv'
  BY <1>2, CreateReadKeeps, MoveReadKeeps
<1>3. ASSUME NEW r \in Namers, RenameWrite(r) \/ Name(r) \/ FailNaming(r)
      PROVE  KInv'
  BY <1>3, RenameWriteKeeps, NameKeeps, FailNamingKeeps
<1>4. ASSUME NEW t \in Tasks, TrashOrRestore(t) PROVE KInv'
  BY <1>4, TrashOrRestoreKeeps
<1>5. CASE UNCHANGED identifierVars
  BY <1>5 DEF identifierVars, KInv, IdentifierTypeOK, KeysUnique, NamesKept, NumbersCounted,
              Counted, GivenOnce, ReadsStand, ReadStands
<1> QED BY <1>1, <1>2, <1>3, <1>4, <1>5 DEF IdentifierNext

(* Whoever has an identifier, or had it and left it as an alias, is the one it  *)
(* was given to.                                                                *)
LEMMA KResolves == KInv => IdentifierResolves
<1> SUFFICES ASSUME KInv, NEW g \in given, stage[g[2]] = "live", g[1][1] \notin changed
             PROVE  Resolve(g[1]) = {g[2]}
  BY DEF IdentifierResolves
<1> USE DEF KInv
<1>1. PICK i \in Identifier, t \in Tasks : g = <<i, t>>
  BY DEF IdentifierTypeOK
<1>2. stage[t] = "live" /\ i[1] \notin changed /\ <<i, t>> \in given
  BY <1>1
<1>3. \A u \in Tasks : u \in Direct(i) => u = t
  BY <1>2 DEF Direct, LiveTasks, NamesKept, GivenOnce
<1>4. \A u \in Tasks : <<i, u>> \in alias => u = t
  BY <1>2 DEF NamesKept, GivenOnce
<1>5. ident[t] = i \/ <<i, t>> \in alias
  BY <1>2 DEF NamesKept
<1>6. Resolve(i) = {t}
  <2>1. CASE ident[t] = i
    <3>1. Direct(i) = {t}
      BY <1>2, <1>3, <2>1 DEF Direct, LiveTasks
    <3> QED BY <3>1 DEF Resolve
  <2>2. CASE ident[t] # i
    <3>1. Direct(i) = {}
      BY <1>3, <2>2 DEF Direct, LiveTasks
    <3>2. {u \in LiveTasks : <<i, u>> \in alias} = {t}
      BY <1>2, <1>4, <1>5, <2>2 DEF LiveTasks
    <3> QED BY <3>1, <3>2 DEF Resolve
  <2> QED BY <2>1, <2>2
<1> QED BY <1>1, <1>6

(* A live task is found by every identifier it was ever given, and no other     *)
(* task is, however many projects, tasks and requests there are, as long as no  *)
(* project gave up the key.                                                     *)
THEOREM Resolved == IdentifierSpec => []IdentifierResolves
<1>1. IdentifierInit => KInv
  BY KInit
<1>2. KInv /\ [IdentifierNext]_identifierVars => KInv'
  BY KStep
<1>3. KInv => IdentifierResolves
  BY KResolves
<1> QED BY <1>1, <1>2, <1>3, PTL DEF IdentifierSpec

------------------------------------------------------------------------------
(* Handoff: what a command goes by.                                             *)

(* A slice recorded as clean has no patch.                                      *)
SliceSound(b) == b \in Slices \cup {NoSlice} /\ (b.dirty = "clean" => b.patch = Clean)

(* What a command goes by, on a checkout nobody touched since it looked at it:  *)
(* the tree it inspected, then one that goes on from the slice it was given,    *)
(* with its changes restored before it is ready.                                *)
InspectedAt == [at : {"inspected"}, git : Trees, edited : BOOLEAN]
GivenAt == [at : {"restoring", "ready"}, base : Slices \cup {NoSlice}, edited : BOOLEAN]

GoesBy(c, t) ==
    /\ c.at = "inspected" => c \in InspectedAt /\ (~c.edited => c.git = t)
    /\ c.at \in {"restoring", "ready"} =>
          /\ c \in GivenAt
          /\ c.at = "restoring" => c.base # NoSlice
          /\ ~c.edited /\ c.base # NoSlice =>
                /\ Ancestor(c.base.head, t.head)
                /\ c.base.dirty # "dirty_missing"
                /\ c.at = "ready" => t.patch = c.base.patch
    /\ c.at = "captured" => SliceSound(c.slice)
    /\ c.at \in {"started", "claimed"} => c = [at |-> c.at, run |-> c.run]

HandoffInv ==
    /\ tree \in [Machines -> Trees]
    /\ cmd \in [Machines -> {cmd[m] : m \in Machines}]
    /\ SliceSound(slice) /\ SliceSound(checkpoint)
    /\ \A m \in Machines : GoesBy(cmd[m], tree[m])

LEMMA NotGiven ==
    ASSUME NEW c, NEW t,
           c.at \in {"idle", "started", "claimed", "checkpointed", "released", "finished"},
           c.at \in {"started", "claimed"} => c = [at |-> c.at, run |-> c.run]
    PROVE  GoesBy(c, t)
BY DEF GoesBy

LEMMA CapturedSound ==
    ASSUME NEW t \in Trees
    PROVE  /\ SliceSound(Captured(t))
           /\ Captured(t) \in Slices
           /\ Captured(t).head = t.head /\ Captured(t).patch = t.patch
BY DEF SliceSound, Captured, Trees, Slices

(* A step of one machine leaves the commands of the others alone.               *)
LEMMA OneMachine ==
    ASSUME HandoffInv, NEW m \in Machines, NEW c, NEW t \in Trees,
           cmd' = [cmd EXCEPT ![m] = c], tree' = [tree EXCEPT ![m] = t],
           GoesBy(c, t), SliceSound(slice)', SliceSound(checkpoint)'
    PROVE  HandoffInv'
<1>1. tree' \in [Machines -> Trees]
  BY DEF HandoffInv
<1>2. cmd' \in [Machines -> {cmd'[q] : q \in Machines}]
  BY DEF HandoffInv
<1>3. \A q \in Machines : /\ cmd'[q] = IF q = m THEN c ELSE cmd[q]
                          /\ tree'[q] = IF q = m THEN t ELSE tree[q]
  BY DEF HandoffInv
<1>4. \A q \in Machines : GoesBy(cmd[q], tree[q])
  BY DEF HandoffInv
<1>5. \A q \in Machines : GoesBy(cmd'[q], tree'[q])
  BY <1>3, <1>4
<1> QED BY <1>1, <1>2, <1>5 DEF HandoffInv

LEMMA SliceSoundKept == \A b : SliceSound(b) <=> SliceSound(b)'
BY DEF SliceSound

(* The checkout stays as it is, and so do the slices.                           *)
LEMMA OnlyCommand ==
    ASSUME HandoffInv, NEW m \in Machines, NEW c, cmd' = [cmd EXCEPT ![m] = c],
           UNCHANGED <<tree, slice, checkpoint>>, GoesBy(c, tree[m])
    PROVE  HandoffInv'
<1>1. tree' = [tree EXCEPT ![m] = tree[m]] /\ tree[m] \in Trees
  BY DEF HandoffInv
<1>2. SliceSound(slice)' /\ SliceSound(checkpoint)'
  BY DEF HandoffInv, SliceSound
<1> QED BY <1>1, <1>2, OneMachine

------------------------------------------------------------------------------
LEMMA HandoffInitial == HandoffInit => HandoffInv
<1> SUFFICES ASSUME HandoffInit PROVE HandoffInv
  OBVIOUS
<1> USE DEF HandoffInit
<1>1. tree \in [Machines -> Trees] /\ cmd \in [Machines -> {cmd[m] : m \in Machines}]
  OBVIOUS
<1>2. SliceSound(slice) /\ SliceSound(checkpoint)
  BY DEF SliceSound, NoSlice
<1>3. Idle.at = "idle"
  BY DEF Idle
<1>4. ASSUME NEW m \in Machines PROVE GoesBy(cmd[m], tree[m])
  <2>1. cmd[m] = Idle
    OBVIOUS
  <2>2. GoesBy(Idle, tree[m])
    BY <1>3, NotGiven
  <2> QED BY <2>1, <2>2
<1> QED BY <1>1, <1>2, <1>4 DEF HandoffInv

(* Whoever touches the checkout marks the command that goes by it.              *)
LEMMA PersonStep ==
    ASSUME HandoffInv, NEW m \in Machines, Person(m)
    PROVE  HandoffInv'
<1>1. PICK t \in Trees : tree' = [tree EXCEPT ![m] = t]
  BY DEF Person
<1>2. PICK c : c = cmd[m]
  OBVIOUS
<1>3. GoesBy(c, tree[m])
  BY <1>2 DEF HandoffInv
<1>4. SliceSound(slice)' /\ SliceSound(checkpoint)'
  BY DEF Person, Server, HandoffInv, SliceSound
<1>5. CASE c.at \in {"inspected", "restoring", "ready"}
  <2>1. PICK d : d = [c EXCEPT !.edited = TRUE]
    OBVIOUS
  <2>2. cmd' = [cmd EXCEPT ![m] = d]
    BY <1>2, <1>5, <2>1 DEF Person
  <2>3. c \in InspectedAt \/ c \in GivenAt
    BY <1>3, <1>5 DEF GoesBy
  <2>4. CASE c \in InspectedAt
    <3>1. d \in InspectedAt /\ d.edited = TRUE /\ d.at = "inspected"
      BY <2>1, <2>4 DEF InspectedAt
    <3>2. GoesBy(d, t)
      BY <3>1 DEF GoesBy
    <3> QED BY <1>1, <1>4, <2>2, <3>2, OneMachine
  <2>5. CASE c \in GivenAt
    <3>1. d \in GivenAt /\ d.edited = TRUE /\ d.at \in {"restoring", "ready"}
          /\ d.at = c.at /\ d.base = c.base
      BY <2>1, <2>5 DEF GivenAt
    <3>2. GoesBy(d, t)
      BY <1>3, <3>1 DEF GoesBy
    <3> QED BY <1>1, <1>4, <2>2, <3>2, OneMachine
  <2> QED BY <2>3, <2>4, <2>5
<1>6. CASE c.at \notin {"inspected", "restoring", "ready"}
  <2>1. cmd' = [cmd EXCEPT ![m] = c]
    BY <1>2, <1>6 DEF Person, HandoffInv
  <2>2. GoesBy(c, t)
    BY <1>3, <1>6 DEF GoesBy
  <2> QED BY <1>1, <1>4, <2>1, <2>2, OneMachine
<1> QED BY <1>5, <1>6

LEMMA DieStep ==
    ASSUME HandoffInv, NEW m \in Machines, Die(m)
    PROVE  HandoffInv'
<1>1. cmd' = [cmd EXCEPT ![m] = Idle] /\ UNCHANGED <<tree, slice, checkpoint>>
  BY DEF Die, Proceed, Other, Server
<1>2. GoesBy(Idle, tree[m])
  BY NotGiven DEF Idle
<1> QED BY <1>1, <1>2, OnlyCommand

LEMMA StartStep ==
    ASSUME HandoffInv, NEW m \in Machines, Start(m)
    PROVE  HandoffInv'
<1>1. PICK c : c = [at |-> "ready", base |-> NoSlice, edited |-> FALSE]
  OBVIOUS
<1>2. cmd' = [cmd EXCEPT ![m] = c] /\ UNCHANGED <<tree, slice, checkpoint>>
  BY <1>1 DEF Start, Proceed, Other, Server
<1>3. GoesBy(c, tree[m])
  BY <1>1 DEF GoesBy, GivenAt
<1> QED BY <1>2, <1>3, OnlyCommand

LEMMA ContinueStep ==
    ASSUME HandoffInv, NEW m \in Machines, Continue(m)
    PROVE  HandoffInv'
<1>1. PICK c : c = [at |-> "inspected", git |-> tree[m], edited |-> FALSE]
  OBVIOUS
<1>2. cmd' = [cmd EXCEPT ![m] = c] /\ UNCHANGED <<tree, slice, checkpoint>>
  BY <1>1 DEF Continue, Proceed, Other, Server
<1>3. GoesBy(c, tree[m])
  BY <1>1 DEF GoesBy, InspectedAt, HandoffInv
<1> QED BY <1>2, <1>3, OnlyCommand

(* What reconcile lets through needs a patch restored or goes on as it is.      *)
LEMMA ReconcileStep ==
    ASSUME HandoffInv, NEW m \in Machines, Reconcile(m)
    PROVE  HandoffInv'
<1>1. PICK b : b = PackSlice
  OBVIOUS
<1>2. PICK c : c = cmd[m]
  OBVIOUS
<1>3. PICK g : g = c.git
  OBVIOUS
<1>4. c.at = "inspected" /\ UNCHANGED <<tree, slice, checkpoint>>
  BY <1>2 DEF Reconcile, Other, Server
<1>5. c \in InspectedAt /\ (~c.edited => g = tree[m])
  BY <1>2, <1>3, <1>4 DEF HandoffInv, GoesBy
<1>6. SliceSound(b)
  BY <1>1 DEF PackSlice, HandoffInv
<1>7. CASE GivesUp(b, g)
  <2>1. cmd' = [cmd EXCEPT ![m] = Idle]
    BY <1>1, <1>2, <1>3, <1>7 DEF Reconcile, Proceed
  <2>2. GoesBy(Idle, tree[m])
    BY NotGiven DEF Idle
  <2> QED BY <1>4, <2>1, <2>2, OnlyCommand
<1>8. CASE ~GivesUp(b, g)
  <2>1. PICK pc : pc = IF b.dirty = "dirty_captured" /\ g.patch = Clean THEN "restoring" ELSE "ready"
    OBVIOUS
  <2>2. PICK d : d = [at |-> pc, base |-> b, edited |-> c.edited]
    OBVIOUS
  <2>3. cmd' = [cmd EXCEPT ![m] = d]
    BY <1>1, <1>2, <1>3, <1>8, <2>1, <2>2 DEF Reconcile, Proceed
  <2>4. d \in GivenAt /\ d.at = pc /\ d.base = b /\ d.edited = c.edited
    BY <1>5, <1>6, <2>1, <2>2 DEF GivenAt, InspectedAt, SliceSound
  <2>5. ASSUME ~c.edited, b # NoSlice
        PROVE  /\ Ancestor(b.head, tree[m].head) /\ b.dirty # "dirty_missing"
               /\ pc = "ready" => tree[m].patch = b.patch
    <3>1. b \in Slices /\ (b.dirty = "clean" => b.patch = Clean)
      BY <1>6, <2>5 DEF SliceSound
    <3>2. b.dirty \in {"clean", "dirty_captured", "dirty_missing"}
      BY <3>1 DEF Slices
    <3> QED BY <1>5, <1>8, <2>1, <2>5, <3>1, <3>2 DEF GivesUp
  <2>6. pc \in {"restoring", "ready"} /\ (pc = "restoring" => b # NoSlice)
    BY <2>1 DEF NoSlice
  <2>7. GoesBy(d, tree[m])
    BY <2>4, <2>5, <2>6 DEF GoesBy
  <2> QED BY <1>4, <2>3, <2>7, OnlyCommand
<1> QED BY <1>7, <1>8

(* The tree is inspected again after the patch was applied; its commit is the   *)
(* same.                                                                        *)
LEMMA RestoreStep ==
    ASSUME HandoffInv, NEW m \in Machines, RestorePatch(m)
    PROVE  HandoffInv'
<1>1. PICK c : c = cmd[m]
  OBVIOUS
<1>2. c.at = "restoring" /\ UNCHANGED <<slice, checkpoint>>
  BY <1>1 DEF RestorePatch, Other, Server
<1>3. /\ c \in GivenAt /\ c.base # NoSlice
      /\ ~c.edited => Ancestor(c.base.head, tree[m].head) /\ c.base.dirty # "dirty_missing"
  BY <1>1, <1>2 DEF HandoffInv, GoesBy
<1>4. \A t : GoesBy(Idle, t)
  BY NotGiven DEF Idle
<1>5. SliceSound(slice)' /\ SliceSound(checkpoint)'
  BY <1>2 DEF HandoffInv, SliceSound
<1>6. tree[m] \in Trees /\ c.base \in Slices
  BY <1>3 DEF HandoffInv, GivenAt
<1>7. CASE cmd' = [cmd EXCEPT ![m] = Idle] /\ UNCHANGED tree
  BY <1>2, <1>4, <1>7, OnlyCommand
<1>8. ASSUME NEW p \in Applied(tree[m], c.base), NEW t, t = [tree[m] EXCEPT !.patch = p],
             tree' = [tree EXCEPT ![m] = t],
             cmd' = [cmd EXCEPT ![m] = IF Reproduces(t, c.base) THEN [c EXCEPT !.at = "ready"]
                                       ELSE Idle]
      PROVE  HandoffInv'
  <2>1. p \in Patches \cup {Clean}
    BY <1>6, <1>8 DEF Applied, Slices
  <2>2. t \in Trees /\ t.head = tree[m].head
    BY <1>6, <1>8, <2>1 DEF Trees
  <2>3. CASE Reproduces(t, c.base)
    <3>1. PICK d : d = [c EXCEPT !.at = "ready"]
      OBVIOUS
    <3>2. d \in GivenAt /\ d.at = "ready" /\ d.base = c.base /\ d.edited = c.edited
      BY <1>3, <3>1 DEF GivenAt
    <3>3. GoesBy(d, t)
      BY <1>3, <2>2, <2>3, <3>2 DEF GoesBy, Reproduces
    <3>4. cmd' = [cmd EXCEPT ![m] = d]
      BY <1>8, <2>3, <3>1
    <3> QED BY <1>5, <1>8, <2>2, <3>3, <3>4, OneMachine
  <2>4. CASE ~Reproduces(t, c.base)
    <3>1. cmd' = [cmd EXCEPT ![m] = Idle]
      BY <1>8, <2>4
    <3> QED BY <1>4, <1>5, <1>8, <2>2, <3>1, OneMachine
  <2> QED BY <2>3, <2>4
<1> QED BY <1>1, <1>7, <1>8 DEF RestorePatch, Proceed

(* The later steps of a command take slices of the checkout and go on to a step *)
(* that goes by none.                                                           *)
LEMMA LaterStep ==
    ASSUME HandoffInv, NEW m \in Machines, NEW c, cmd' = [cmd EXCEPT ![m] = c], UNCHANGED tree,
           c.at \in {"idle", "started", "claimed", "checkpointed", "released", "finished"},
           c.at \in {"started", "claimed"} => c = [at |-> c.at, run |-> c.run],
           SliceSound(slice)', SliceSound(checkpoint)'
    PROVE  HandoffInv'
<1>1. tree' = [tree EXCEPT ![m] = tree[m]] /\ tree[m] \in Trees
  BY DEF HandoffInv
<1>2. GoesBy(c, tree[m])
  BY NotGiven
<1> QED BY <1>1, <1>2, OneMachine

LEMMA StartRunStep ==
    ASSUME HandoffInv, NEW m \in Machines, StartRun(m)
    PROVE  HandoffInv'
<1>1. tree[m] \in Trees
  BY DEF HandoffInv
<1>2. SliceSound(slice)' /\ SliceSound(checkpoint)'
  <2>1. slice' = Captured(tree[m]) /\ checkpoint' = checkpoint
    BY DEF StartRun
  <2>2. SliceSound(Captured(tree[m])) /\ SliceSound(checkpoint)
    BY <1>1, CapturedSound DEF HandoffInv
  <2> QED BY <2>1, <2>2 DEF SliceSound
<1>3. PICK c : c = [at |-> "started", run |-> Len(runs')]
  OBVIOUS
<1>4. cmd' = [cmd EXCEPT ![m] = c] /\ UNCHANGED tree
  BY <1>3 DEF StartRun, Proceed
<1>5. c.at = "started" /\ c = [at |-> c.at, run |-> c.run]
  BY <1>3
<1> QED BY <1>2, <1>4, <1>5, LaterStep

LEMMA ClaimLeaseStep ==
    ASSUME HandoffInv, NEW m \in Machines, ClaimLease(m)
    PROVE  HandoffInv'
<1>1. PICK d : d = cmd[m]
  OBVIOUS
<1>2. PICK c : c = [d EXCEPT !.at = "claimed"]
  OBVIOUS
<1>3. cmd' = [cmd EXCEPT ![m] = c] /\ UNCHANGED <<tree, slice, checkpoint>> /\ d.at = "started"
  BY <1>1, <1>2 DEF ClaimLease, Proceed
<1>4. SliceSound(slice)' /\ SliceSound(checkpoint)'
  BY <1>3 DEF HandoffInv, SliceSound
<1>5. d = [at |-> d.at, run |-> d.run]
  BY <1>1, <1>3 DEF HandoffInv, GoesBy
<1>6. c.at = "claimed" /\ c = [at |-> c.at, run |-> c.run]
  BY <1>2, <1>5
<1> QED BY <1>3, <1>4, <1>6, LaterStep

LEMMA WriteStep ==
    ASSUME HandoffInv, NEW m \in Machines, WriteStarted(m) \/ WriteReleased(m) \/ WriteFinished(m)
    PROVE  HandoffInv'
<1>1. cmd' = [cmd EXCEPT ![m] = Idle] /\ UNCHANGED <<tree, slice, checkpoint>>
  BY DEF WriteStarted, WriteReleased, WriteFinished, Proceed, Other, Server
<1>2. SliceSound(slice)' /\ SliceSound(checkpoint)' /\ Idle.at = "idle"
  BY <1>1 DEF HandoffInv, SliceSound, Idle
<1> QED BY <1>1, <1>2, LaterStep

LEMMA CheckpointStep ==
    ASSUME HandoffInv, NEW m \in Machines, Checkpoint(m)
    PROVE  HandoffInv'
<1>1. tree[m] \in Trees /\ tree' = [tree EXCEPT ![m] = tree[m]]
  BY DEF HandoffInv, Checkpoint
<1>2. PICK s : s = Captured(tree[m])
  OBVIOUS
<1>3. SliceSound(s) /\ SliceSound(checkpoint) /\ slice' = s /\ checkpoint' = checkpoint
  BY <1>1, <1>2, CapturedSound DEF HandoffInv, Checkpoint
<1>4. SliceSound(slice)' /\ SliceSound(checkpoint)'
  BY <1>3 DEF SliceSound
<1>5. PICK c : c = [at |-> "captured", slice |-> s]
  OBVIOUS
<1>6. cmd' = [cmd EXCEPT ![m] = c]
  BY <1>3, <1>5 DEF Checkpoint, Proceed
<1>7. GoesBy(c, tree[m])
  BY <1>3, <1>5 DEF GoesBy
<1> QED BY <1>1, <1>4, <1>6, <1>7, OneMachine

LEMMA CreateCheckpointStep ==
    ASSUME HandoffInv, NEW m \in Machines, CreateCheckpoint(m)
    PROVE  HandoffInv'
<1>1. PICK c : c = [at |-> "checkpointed"]
  OBVIOUS
<1>2. cmd' = [cmd EXCEPT ![m] = c] /\ UNCHANGED tree /\ c.at = "checkpointed"
  BY <1>1 DEF CreateCheckpoint, Proceed
<1>3. SliceSound(cmd[m].slice) /\ SliceSound(slice)
  BY DEF CreateCheckpoint, HandoffInv, GoesBy
<1>4. SliceSound(slice)' /\ SliceSound(checkpoint)'
  BY <1>3 DEF CreateCheckpoint, SliceSound
<1> QED BY <1>2, <1>4, LaterStep

LEMMA ReleaseLeaseStep ==
    ASSUME HandoffInv, NEW m \in Machines, ReleaseLease(m)
    PROVE  HandoffInv'
<1>1. PICK c : c = IF file[m].lease => file[m].run \in leased THEN [at |-> "released"] ELSE Idle
  OBVIOUS
<1>2. cmd' = [cmd EXCEPT ![m] = c] /\ UNCHANGED <<tree, slice, checkpoint>>
  BY <1>1 DEF ReleaseLease, Proceed
<1>3. c.at \in {"released", "idle"}
  BY <1>1 DEF Idle
<1>4. SliceSound(slice)' /\ SliceSound(checkpoint)'
  BY <1>2 DEF HandoffInv, SliceSound
<1> QED BY <1>2, <1>3, <1>4, LaterStep

LEMMA FinishRunStep ==
    ASSUME HandoffInv, NEW m \in Machines, FinishRun(m)
    PROVE  HandoffInv'
<1>1. PICK c : c = [at |-> "finished"]
  OBVIOUS
<1>2. /\ cmd' = [cmd EXCEPT ![m] = c] /\ UNCHANGED <<tree, checkpoint>> /\ c.at = "finished"
      /\ slice' = Captured(tree[m])
  BY <1>1 DEF FinishRun, Proceed
<1>3. SliceSound(Captured(tree[m])) /\ SliceSound(checkpoint)
  BY CapturedSound DEF HandoffInv
<1>4. SliceSound(slice)' /\ SliceSound(checkpoint)'
  BY <1>2, <1>3 DEF SliceSound
<1> QED BY <1>2, <1>4, LaterStep

LEMMA AgentStep ==
    ASSUME HandoffInv, NEW m \in Machines, AgentSlice(m) \/ AgentCheckpoint(m)
    PROVE  HandoffInv'
<1>1. UNCHANGED <<tree, cmd>>
  BY DEF AgentSlice, AgentCheckpoint
<1>2. SliceSound(slice)' /\ SliceSound(checkpoint)'
  <2>1. CASE AgentSlice(m)
    <3>1. PICK s : s = Captured(tree[m])
      OBVIOUS
    <3>2. s \in Slices /\ SliceSound(s)
      BY <3>1, CapturedSound DEF HandoffInv
    <3>3. PICK d : d = [s EXCEPT !.dirty = IF s.dirty = "clean" THEN "clean" ELSE "dirty_missing"]
      OBVIOUS
    <3>4. slice' = d /\ checkpoint' = checkpoint
      BY <2>1, <3>1, <3>3 DEF AgentSlice
    <3>5. d \in Slices /\ (d.dirty = "clean" => s.dirty = "clean") /\ d.patch = s.patch
      BY <3>2, <3>3 DEF Slices
    <3>6. SliceSound(d) /\ SliceSound(checkpoint)
      BY <3>2, <3>5 DEF SliceSound, HandoffInv
    <3> QED BY <3>4, <3>6 DEF SliceSound
  <2>2. CASE AgentCheckpoint(m)
    <3>1. slice' = slice /\ checkpoint' = NoSlice
      BY <2>2 DEF AgentCheckpoint
    <3> QED BY <3>1 DEF SliceSound, NoSlice, HandoffInv
  <2> QED BY <2>1, <2>2
<1>3. \A q \in Machines : GoesBy(cmd'[q], tree'[q])
  BY <1>1 DEF HandoffInv
<1> QED BY <1>1, <1>2, <1>3 DEF HandoffInv

LEMMA HandoffStep == HandoffInv /\ [HandoffNext]_handoffVars => HandoffInv'
<1> SUFFICES ASSUME HandoffInv, [HandoffNext]_handoffVars PROVE HandoffInv'
  OBVIOUS
<1>1. CASE UNCHANGED handoffVars
  <2>1. UNCHANGED <<tree, cmd, slice, checkpoint>>
    BY <1>1 DEF handoffVars
  <2>2. SliceSound(slice)' /\ SliceSound(checkpoint)'
    BY <2>1 DEF HandoffInv, SliceSound
  <2>3. \A q \in Machines : GoesBy(cmd'[q], tree'[q])
    BY <2>1 DEF HandoffInv
  <2> QED BY <2>1, <2>2, <2>3 DEF HandoffInv
<1>2. ASSUME NEW m \in Machines,
             Person(m) \/ Die(m) \/ Start(m) \/ Continue(m) \/ Reconcile(m) \/ RestorePatch(m)
      PROVE  HandoffInv'
  BY <1>2, PersonStep, DieStep, StartStep, ContinueStep, ReconcileStep, RestoreStep
<1>3. ASSUME NEW m \in Machines,
             \/ StartRun(m) \/ ClaimLease(m) \/ WriteStarted(m)
             \/ Checkpoint(m) \/ CreateCheckpoint(m) \/ ReleaseLease(m) \/ WriteReleased(m)
             \/ FinishRun(m) \/ WriteFinished(m) \/ AgentSlice(m) \/ AgentCheckpoint(m)
      PROVE  HandoffInv'
  BY <1>3, StartRunStep, ClaimLeaseStep, WriteStep, CheckpointStep, CreateCheckpointStep,
     ReleaseLeaseStep, FinishRunStep, AgentStep
<1> QED BY <1>1, <1>2, <1>3 DEF HandoffNext

(* Only the step that starts a run takes a command from ready to started.       *)
LEMMA ReadyStarts ==
    ASSUME HandoffInv, HandoffNext, NEW m \in Machines,
           cmd[m].at = "ready", cmd'[m].at = "started"
    PROVE  StartRun(m)
<1>1. ASSUME NEW q \in Machines, NEW c, cmd' = [cmd EXCEPT ![q] = c], c.at # "started"
      PROVE  FALSE
  BY <1>1 DEF HandoffInv
<1>2. ASSUME NEW q \in Machines, Person(q) PROVE FALSE
  <2>1. cmd' = cmd \/ \E c : c = [cmd[q] EXCEPT !.edited = TRUE] /\ cmd' = [cmd EXCEPT ![q] = c]
    BY <1>2 DEF Person
  <2>2. CASE cmd' = cmd
    BY <2>2
  <2>3. ASSUME NEW c, c = [cmd[q] EXCEPT !.edited = TRUE], cmd' = [cmd EXCEPT ![q] = c]
        PROVE  FALSE
    <3>1. CASE q = m
      <4>1. cmd[m] \in GivenAt
        BY DEF HandoffInv, GoesBy
      <4>2. c.at = cmd[m].at
        BY <2>3, <3>1, <4>1 DEF GivenAt
      <4> QED BY <1>1, <2>3, <4>2
    <3>2. CASE q # m
      BY <2>3, <3>2 DEF HandoffInv
    <3> QED BY <3>1, <3>2
  <2> QED BY <2>1, <2>2, <2>3
<1>3. ASSUME NEW q \in Machines, Die(q) \/ Start(q) \/ Continue(q) PROVE FALSE
  BY <1>1, <1>3 DEF Die, Start, Continue, Proceed, Idle
<1>4. ASSUME NEW q \in Machines, Reconcile(q) PROVE FALSE
  <2>1. \E c : c.at # "started" /\ cmd' = [cmd EXCEPT ![q] = c]
    BY <1>4 DEF Reconcile, Proceed, Idle
  <2> QED BY <1>1, <2>1
<1>5. ASSUME NEW q \in Machines, cmd[q].at # "ready", q = m PROVE FALSE
  BY <1>5
<1>6. ASSUME NEW q \in Machines, NEW c, cmd' = [cmd EXCEPT ![q] = c], cmd[q].at # "ready"
      PROVE  FALSE
  <2>1. q # m
    BY <1>6
  <2>2. cmd'[m] = cmd[m]
    BY <1>6, <2>1 DEF HandoffInv
  <2> QED BY <2>2
<1>7. ASSUME NEW q \in Machines,
             \/ RestorePatch(q) \/ ClaimLease(q) \/ WriteStarted(q) \/ Checkpoint(q)
             \/ CreateCheckpoint(q) \/ ReleaseLease(q) \/ WriteReleased(q)
             \/ FinishRun(q) \/ WriteFinished(q)
      PROVE  FALSE
  <2>1. cmd[q].at # "ready"
    BY <1>7 DEF RestorePatch, ClaimLease, WriteStarted, Checkpoint, CreateCheckpoint,
                ReleaseLease, WriteReleased, FinishRun, WriteFinished, Idle
  <2>2. \E c : cmd' = [cmd EXCEPT ![q] = c]
    BY <1>7 DEF RestorePatch, ClaimLease, WriteStarted, Checkpoint, CreateCheckpoint,
                ReleaseLease, WriteReleased, FinishRun, WriteFinished, Proceed
  <2> QED BY <1>6, <2>1, <2>2
<1>8. ASSUME NEW q \in Machines, AgentSlice(q) \/ AgentCheckpoint(q) PROVE FALSE
  BY <1>8 DEF AgentSlice, AgentCheckpoint
<1>9. ASSUME NEW q \in Machines, StartRun(q) PROVE StartRun(m)
  <2>1. CASE q = m
    BY <1>9, <2>1
  <2>2. CASE q # m
    <3>1. cmd'[m] = cmd[m]
      BY <1>9, <2>2 DEF StartRun, Proceed, HandoffInv
    <3> QED BY <3>1
  <2> QED BY <2>1, <2>2
<1> QED BY <1>2, <1>3, <1>4, <1>7, <1>8, <1>9 DEF HandoffNext

(* A run that continues a task starts from the slice it was given, for any      *)
(* number of machines, commits and patches, wherever commands die and whatever  *)
(* the patch tool makes of a patch, unless somebody touches the checkout        *)
(* between the inspection and the start.                                        *)
THEOREM Continued == HandoffSpec => ContinuesFromSlice
<1>1. HandoffInv /\ [HandoffNext]_handoffVars =>
        [\A m \in Machines :
            Len(runs') > Len(runs) /\ cmd'[m].at = "started" /\ cmd[m].at = "ready"
               /\ cmd[m].base # NoSlice /\ ~cmd[m].edited
            => ContinuesFrom(cmd[m].base, slice')]_handoffVars
  <2> SUFFICES ASSUME HandoffInv, HandoffNext, NEW m \in Machines, cmd'[m].at = "started",
                      cmd[m].at = "ready", cmd[m].base # NoSlice, ~cmd[m].edited
               PROVE  ContinuesFrom(cmd[m].base, slice')
    OBVIOUS
  <2>1. StartRun(m)
    BY ReadyStarts
  <2>2. slice' = Captured(tree[m]) /\ tree[m] \in Trees
    BY <2>1 DEF StartRun, HandoffInv
  <2>3. slice'.head = tree[m].head /\ slice'.patch = tree[m].patch
    BY <2>2, CapturedSound
  <2>4. GoesBy(cmd[m], tree[m])
    BY DEF HandoffInv
  <2> QED BY <2>3, <2>4 DEF GoesBy, ContinuesFrom
<1> QED BY <1>1, HandoffInitial, HandoffStep, PTL DEF HandoffSpec, ContinuesFromSlice
=============================================================================
