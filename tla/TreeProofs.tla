----------------------------- MODULE TreeProofs -----------------------------
(***************************************************************************)
(* Facts about trees and the recursive operations of TreeFilter: trees     *)
(* nest, so a recursion over their directories has a solution, and what    *)
(* each operation does can be told from the leaves of its tree.            *)
(***************************************************************************)
EXTENDS TreeFilter, WellFoundedInduction, SequenceTheorems, TLAPS

(* Induction over the natural numbers: the least counterexample. *)
LEMMA LeastNatural ==
  ASSUME NEW set, set \subseteq Nat, set # {}
  PROVE  \E n \in set : \A m \in set : n <= m
<1>1. PICK n \in set : \A m \in set : ~(<<m, n>> \in OpToRel(<, Nat))
  BY NatLessThanWellFounded, WFMin
<1>2. \A m \in set : ~(m < n)
  BY <1>1 DEF OpToRel
<1>3. QED
  BY <1>2

-----------------------------------------------------------------------------
(* The levels of trees. *)

LevelOver(below, depth) ==
  TreesOver(FlatEntries \cup (IF depth = 0 THEN {} ELSE {Subtree(tree) : tree \in below}))

(* The equation of the recursion in TreesUpTo has a solution. *)
LEMMA LevelEquation ==
  TreesUpTo = [depth \in Nat |-> LevelOver(TreesUpTo[depth - 1], depth)]
<1> DEFINE Solves(h, k) == \A d \in 0..k : h[d] = LevelOver(h[d - 1], d)
<1>1. ASSUME NEW k \in Nat, NEW h, NEW m \in Nat, NEW g, Solves(h, k), Solves(g, m),
             NEW d \in 0..k, d <= m
      PROVE  h[d] = g[d]
  <2> DEFINE bad == {e \in 0..k : e <= m /\ h[e] # g[e]}
  <2>1. bad \subseteq Nat
    OBVIOUS
  <2>2. ASSUME NEW e \in bad, \A j \in bad : e <= j PROVE FALSE
    <3>1. e \in 0..k /\ e \in 0..m /\ h[e] # g[e]
      BY <2>2
    <3>2. e # 0 => e - 1 \notin bad /\ e - 1 \in 0..k /\ e - 1 <= m
      BY <2>2, <3>1
    <3>3. e # 0 => h[e - 1] = g[e - 1]
      BY <3>2
    <3>4. h[e] = LevelOver(h[e - 1], e) /\ g[e] = LevelOver(g[e - 1], e)
      BY <1>1, <3>1
    <3>5. QED
      BY <3>1, <3>3, <3>4 DEF LevelOver
  <2> HIDE DEF bad
  <2>3. bad = {}
    BY <2>1, <2>2, LeastNatural
  <2>4. QED
    BY <1>1, <2>3 DEF bad
<1>2. \A k \in Nat : \E h : Solves(h, k)
  <2> DEFINE bad == {k \in Nat : ~\E h : Solves(h, k)}
  <2>1. ASSUME NEW k \in bad, \A j \in bad : k <= j PROVE FALSE
    <3>1. CASE k = 0
      <4>1. Solves([d \in {0} |-> LevelOver({}, 0)], k)
        BY <3>1 DEF LevelOver
      <4>2. QED
        BY <2>1, <4>1
    <3>2. CASE k # 0
      <4>1. k - 1 \in Nat /\ k - 1 \notin bad
        BY <2>1, <3>2
      <4>2. PICK h : Solves(h, k - 1)
        BY <4>1
      <4> DEFINE g == [d \in 0..k |-> IF d = k THEN LevelOver(h[k - 1], k) ELSE h[d]]
      <4>3. ASSUME NEW d \in 0..k PROVE g[d] = LevelOver(g[d - 1], d)
        <5>1. CASE d = k
          BY <3>2, <5>1
        <5>2. CASE d # k
          <6>1. g[d] = h[d] /\ d \in 0..(k - 1)
            BY <5>2
          <6>2. d # 0 => g[d - 1] = h[d - 1]
            BY <6>1
          <6>3. QED
            BY <4>2, <6>1, <6>2 DEF LevelOver
        <5>3. QED
          BY <5>1, <5>2
      <4> HIDE DEF g
      <4>4. QED
        BY <2>1, <4>3
    <3>3. QED
      BY <3>1, <3>2
  <2>2. bad \subseteq Nat
    OBVIOUS
  <2> HIDE DEF bad
  <2>3. bad = {}
    BY <2>1, <2>2, LeastNatural
  <2>4. QED
    BY <2>3 DEF bad
<1> DEFINE sol(k) == CHOOSE h : Solves(h, k)
           levels == [d \in Nat |-> sol(d)[d]]
           Body(f) == [d \in Nat |-> LevelOver(f[d - 1], d)]
<1>3. \A k \in Nat : Solves(sol(k), k)
  BY <1>2
<1> HIDE DEF sol
<1>4. ASSUME NEW d \in Nat PROVE levels[d] = LevelOver(levels[d - 1], d)
  <2>1. levels[d] = LevelOver(sol(d)[d - 1], d)
    BY <1>3
  <2>2. CASE d = 0
    BY <2>1, <2>2 DEF LevelOver
  <2>3. CASE d # 0
    <3>1. Solves(sol(d), d) /\ Solves(sol(d - 1), d - 1) /\ d - 1 \in Nat
      BY <1>3, <2>3
    <3> HIDE DEF Solves
    <3>2. sol(d)[d - 1] = sol(d - 1)[d - 1]
      BY <1>1, <3>1
    <3>3. levels[d - 1] = sol(d - 1)[d - 1]
      BY <3>1
    <3>4. QED
      BY <2>1, <3>2, <3>3
  <2>4. QED
    BY <2>2, <2>3
<1>5. levels = Body(levels)
  <2>1. levels = [d \in Nat |-> levels[d]]
    OBVIOUS
  <2> HIDE DEF levels
  <2>2. QED
    BY <1>4, <2>1
<1>6. TreesUpTo = CHOOSE f : f = Body(f)
  BY DEF TreesUpTo, LevelOver
<1> HIDE DEF levels, Body
<1>7. TreesUpTo = Body(TreesUpTo)
  BY <1>5, <1>6
<1>8. QED
  BY <1>7 DEF Body

Level(depth) == TreesUpTo[depth]
LEMMA LevelMembers ==
  ASSUME NEW depth \in Nat, NEW t
  PROVE  t \in Level(depth) <=>
           /\ t = [n \in DOMAIN t |-> t[n]] /\ DOMAIN t \subseteq Names
           /\ \A n \in DOMAIN t :
                \/ t[n] \in FlatEntries
                \/ depth # 0 /\ \E s \in Level(depth - 1) : t[n] = Subtree(s)
<1>1. Level(depth) = LevelOver(Level(depth - 1), depth)
  BY LevelEquation DEF Level
<1> HIDE DEF Level
<1> DEFINE Entries == FlatEntries \cup
              (IF depth = 0 THEN {} ELSE {Subtree(tree) : tree \in Level(depth - 1)})
<1>2. Level(depth) = TreesOver(Entries)
  BY <1>1 DEF LevelOver
<1>3. \A e : e \in Entries <=>
        \/ e \in FlatEntries
        \/ depth # 0 /\ \E s \in Level(depth - 1) : e = Subtree(s)
  OBVIOUS
<1> HIDE DEF Entries
<1>4. t \in TreesOver(Entries) <=>
        /\ t = [n \in DOMAIN t |-> t[n]] /\ DOMAIN t \subseteq Names
        /\ \A n \in DOMAIN t : t[n] \in Entries
  BY DEF TreesOver
<1>5. QED
  BY <1>2, <1>3, <1>4

LEMMA FlatFacts == \A e \in FlatEntries : e.type # "tree" /\ (e.type = "blob" => e.size \in Nat)
BY SizesAssumption DEF FlatEntries, Blob, Gitlink

LEMMA LevelSubtrees ==
  ASSUME NEW depth \in Nat, NEW t \in Level(depth), NEW n \in Subtrees(t)
  PROVE  /\ depth - 1 \in Nat
         /\ t[n].tree \in Level(depth - 1) /\ t[n] = Subtree(t[n].tree)
<1>1. n \in DOMAIN t /\ t[n].type = "tree"
  BY DEF Subtrees
<1>2. PICK s \in Level(depth - 1) : depth # 0 /\ t[n] = Subtree(s)
  BY <1>1, LevelMembers, FlatFacts
<1>3. t[n].tree = s
  BY <1>2 DEF Subtree
<1>4. QED
  BY <1>2, <1>3

LEMMA LevelsGrow ==
  ASSUME NEW depth \in Nat
  PROVE  Level(depth) \subseteq Level(depth + 1)
<1> DEFINE bad == {d \in Nat : ~(Level(d) \subseteq Level(d + 1))}
<1>1. ASSUME NEW d \in bad, \A e \in bad : d <= e PROVE FALSE
  <2>1. d # 0 => d - 1 \in Nat /\ d - 1 \notin bad
    BY <1>1
  <2>2. d # 0 => Level(d - 1) \subseteq Level(d)
    BY <2>1
  <2>3. ASSUME NEW t \in Level(d) PROVE t \in Level(d + 1)
    <3>1. d \in Nat /\ d + 1 \in Nat /\ (d + 1) - 1 = d /\ d + 1 # 0
      BY <1>1
    <3>2. /\ t = [n \in DOMAIN t |-> t[n]] /\ DOMAIN t \subseteq Names
          /\ \A n \in DOMAIN t : t[n] \in FlatEntries \/ \E s \in Level(d) : t[n] = Subtree(s)
      BY <2>2, <3>1, LevelMembers
    <3> DEFINE e == d + 1
    <3>3. e \in Nat /\ e # 0 /\ Level(e - 1) = Level(d)
      BY <3>1
    <3> HIDE DEF e
    <3>4. t \in Level(e)
      BY <3>2, <3>3, LevelMembers
    <3>5. QED
      BY <3>4 DEF e
  <2>4. QED
    BY <1>1, <2>3
<1>2. bad \subseteq Nat
  OBVIOUS
<1> HIDE DEF bad
<1>3. bad = {}
  BY <1>1, <1>2, LeastNatural
<1>4. QED
  BY <1>3 DEF bad

-----------------------------------------------------------------------------
(* Trees. *)

LEMMA SubtreeFacts ==
  ASSUME NEW t \in Trees, NEW n \in Subtrees(t)
  PROVE  t[n].tree \in Trees /\ t[n] = Subtree(t[n].tree) /\ n \in DOMAIN t
<1>1. MaxDepth \in Nat /\ t \in Level(MaxDepth)
  BY DepthAssumption DEF Trees, Level
<1>2. MaxDepth - 1 \in Nat /\ t[n].tree \in Level(MaxDepth - 1) /\ t[n] = Subtree(t[n].tree)
  BY <1>1, LevelSubtrees
<1>3. Level(MaxDepth - 1) \subseteq Level((MaxDepth - 1) + 1)
  BY <1>2, LevelsGrow
<1>4. (MaxDepth - 1) + 1 = MaxDepth
  BY <1>1
<1>5. t[n].tree \in Level(MaxDepth)
  BY <1>2, <1>3, <1>4
<1>6. QED
  BY <1>2, <1>5 DEF Trees, Level, Subtrees

LEMMA EntryFacts ==
  ASSUME NEW t \in Trees
  PROVE  /\ t = [n \in DOMAIN t |-> t[n]]
         /\ DOMAIN t \subseteq Names
         /\ \A n \in DOMAIN t :
              /\ n \in Subtrees(t) <=> t[n].type = "tree"
              /\ t[n].type = "blob" => t[n].size \in Nat
<1>1. MaxDepth \in Nat /\ t \in Level(MaxDepth)
  BY DepthAssumption DEF Trees, Level
<1>2. /\ t = [n \in DOMAIN t |-> t[n]] /\ DOMAIN t \subseteq Names
      /\ \A n \in DOMAIN t : t[n] \in FlatEntries \/ \E s : t[n] = Subtree(s)
  BY <1>1, LevelMembers
<1>3. QED
  BY <1>2, FlatFacts DEF Subtrees, Subtree

LEMMA EmptyTreeFacts ==
  /\ DOMAIN EmptyTree = {}
  /\ \A t \in Trees : t = EmptyTree <=> DOMAIN t = {}
BY EntryFacts DEF EmptyTree

(* Directories nest: what holds of a tree if it holds of its subtrees      *)
(* holds of every tree.                                                    *)
LEMMA TreeInduction ==
  ASSUME NEW good,
         \A t \in Trees : (\A n \in Subtrees(t) : t[n].tree \in good) => t \in good
  PROVE  Trees \subseteq good
<1> DEFINE bad == {d \in Nat : \E t \in Trees : t \in Level(d) /\ t \notin good}
<1>1. ASSUME NEW d \in bad, \A e \in bad : d <= e PROVE FALSE
  <2>1. PICK t \in Trees : t \in Level(d) /\ t \notin good
    BY <1>1
  <2>2. PICK n \in Subtrees(t) : t[n].tree \notin good
    BY <2>1
  <2>3. t[n].tree \in Trees
    BY SubtreeFacts
  <2>4. d - 1 \in Nat /\ t[n].tree \in Level(d - 1)
    BY <1>1, <2>1, LevelSubtrees
  <2>5. d - 1 \in bad
    BY <2>2, <2>3, <2>4
  <2>6. QED
    BY <1>1, <2>5
<1>2. bad \subseteq Nat
  OBVIOUS
<1> HIDE DEF bad
<1>3. bad = {}
  BY <1>1, <1>2, LeastNatural
<1>4. MaxDepth \in Nat /\ \A t \in Trees : t \in Level(MaxDepth)
  BY DepthAssumption DEF Trees, Level
<1>5. QED
  BY <1>3, <1>4 DEF bad

(* A tree made by taking entries from another one, and by pruning its      *)
(* directories, is not deeper than that one.                               *)
NoDeeper(u, t) == \A depth \in Nat : t \in Level(depth) => u \in Level(depth)

LEMMA NoDeeperIsTree ==
  ASSUME NEW t \in Trees, NEW u, NoDeeper(u, t)
  PROVE  u \in Trees
BY DepthAssumption DEF NoDeeper, Trees, Level

LEMMA PrunedIsNoDeeper ==
  ASSUME NEW t \in Trees, NEW u, u = [n \in DOMAIN u |-> u[n]], DOMAIN u \subseteq DOMAIN t,
         \A n \in DOMAIN u :
           \/ u[n] = t[n]
           \/ n \in Subtrees(t) /\ \E s : u[n] = Subtree(s) /\ NoDeeper(s, t[n].tree)
  PROVE  NoDeeper(u, t)
<1> SUFFICES ASSUME NEW depth \in Nat, t \in Level(depth) PROVE u \in Level(depth)
  BY DEF NoDeeper
<1>1. DOMAIN u \subseteq Names
  BY EntryFacts
<1>2. ASSUME NEW n \in DOMAIN u
      PROVE  \/ u[n] \in FlatEntries
             \/ depth # 0 /\ \E s \in Level(depth - 1) : u[n] = Subtree(s)
  <2>1. CASE u[n] = t[n]
    BY <2>1, LevelMembers
  <2>2. CASE n \in Subtrees(t) /\ \E s : u[n] = Subtree(s) /\ NoDeeper(s, t[n].tree)
    <3>1. depth - 1 \in Nat /\ t[n].tree \in Level(depth - 1)
      BY <2>2, LevelSubtrees
    <3>2. QED
      BY <2>2, <3>1 DEF NoDeeper
  <2>3. QED
    BY <2>1, <2>2
<1>3. QED
  BY <1>1, <1>2, LevelMembers

-----------------------------------------------------------------------------
(* Recursion over trees.  C gives what a tree may be mapped to, and        *)
(* G[t][f] what t is mapped to when f maps the subtrees of t.              *)

Typed(C) == {f \in [Trees -> UNION {C[t] : t \in Trees}] : \A t \in Trees : f[t] \in C[t]}

LEMMA TypedFacts ==
  ASSUME NEW C, NEW f
  PROVE  f \in Typed(C) <=> f = [t \in Trees |-> f[t]] /\ \A t \in Trees : f[t] \in C[t]
BY DEF Typed

Recursion(C, G) ==
  \A t \in Trees :
    /\ C[t] # {}
    /\ \A f \in Typed(C) : G[t][f] \in C[t]
    /\ \A f, g \in Typed(C) :
         (\A n \in Subtrees(t) : f[t[n].tree] = g[t[n].tree]) => G[t][f] = G[t][g]
Solution(f, C, G) == f \in Typed(C) /\ \A t \in Trees : f[t] = G[t][f]

LEMMA TreeRecursion ==
  ASSUME NEW C, NEW G, Recursion(C, G)
  PROVE  \E f : Solution(f, C, G)
<1> USE DEF Recursion
<1> DEFINE F == Typed(C)
           Down(S) == S \subseteq Trees /\ \A t \in S : \A n \in Subtrees(t) : t[n].tree \in S
           Solves(h, S) == h \in F /\ \A t \in S : h[t] = G[t][h]
           Solved(t, h) == \E S : Down(S) /\ t \in S /\ Solves(h, S)
           U == {t \in Trees : \E h : Solved(t, h)}
           sol(t) == CHOOSE h : Solved(t, h)
           g == [t \in Trees |-> IF t \in U THEN sol(t)[t] ELSE CHOOSE c : c \in C[t]]
<1>1. ASSUME NEW S, NEW T, NEW h, NEW k, Down(S), Down(T), Solves(h, S), Solves(k, T)
      PROVE  \A x \in S \cap T : h[x] = k[x]
  <2> DEFINE good == {x \in Trees : x \in S \cap T => h[x] = k[x]}
  <2>1. ASSUME NEW t \in Trees, \A n \in Subtrees(t) : t[n].tree \in good PROVE t \in good
    <3>1. SUFFICES ASSUME t \in S \cap T PROVE h[t] = k[t]
      OBVIOUS
    <3>2. \A n \in Subtrees(t) : h[t[n].tree] = k[t[n].tree]
      BY <1>1, <2>1, <3>1
    <3>3. G[t][h] = G[t][k]
      BY <1>1, <3>2
    <3>4. QED
      BY <1>1, <3>1, <3>3
  <2> HIDE DEF good
  <2>2. Trees \subseteq good
    BY <2>1, TreeInduction
  <2>3. QED
    BY <1>1, <2>2 DEF good
<1>2. \A t \in U : Solved(t, sol(t))
  OBVIOUS
<1> HIDE DEF sol
<1>3. ASSUME NEW t \in Trees, NEW h, Solved(t, h)
      PROVE  t \in U /\ g[t] = h[t]
  <2>1. t \in U /\ g[t] = sol(t)[t] /\ Solved(t, sol(t))
    BY <1>2, <1>3
  <2>2. sol(t)[t] = h[t]
    <3> HIDE DEF Down, Solves
    <3> QED BY <1>1, <1>3, <2>1
  <2>3. QED
    BY <2>1, <2>2
<1>4. g \in F
  <2>1. ASSUME NEW t \in Trees PROVE g[t] \in C[t]
    <3>1. CASE t \in U
      BY <1>2, <3>1, TypedFacts
    <3>2. CASE t \notin U
      BY <3>2
    <3>3. QED
      BY <3>1, <3>2
  <2>2. g = [t \in Trees |-> g[t]]
    OBVIOUS
  <2> HIDE DEF g
  <2>3. QED
    BY <2>1, <2>2, TypedFacts
<1> HIDE DEF g
<1>5. ASSUME NEW t \in U
      PROVE  g[t] = G[t][g] /\ \A n \in Subtrees(t) : t[n].tree \in U
  <2>1. PICK S : Down(S) /\ t \in S /\ Solves(sol(t), S)
    BY <1>2
  <2>2. \A x \in S : Solved(x, sol(t)) /\ x \in Trees
    BY <2>1
  <2>3. \A x \in S : x \in U /\ g[x] = sol(t)[x]
    <3> HIDE DEF Solved, U
    <3> QED BY <1>3, <2>2
  <2>4. \A n \in Subtrees(t) : t[n].tree \in S
    BY <2>1
  <2>5. G[t][g] = G[t][sol(t)]
    BY <1>4, <2>1, <2>3, <2>4
  <2>6. QED
    BY <2>1, <2>3, <2>4, <2>5
<1>6. ASSUME NEW t \in Trees, \A n \in Subtrees(t) : t[n].tree \in U PROVE t \in U
  <2> DEFINE h == [x \in Trees |-> IF x = t THEN G[t][g] ELSE g[x]]
             S == U \cup {t}
  <2>1. h \in F
    <3>1. \A x \in Trees : h[x] \in C[x]
      BY <1>4, TypedFacts
    <3>2. h = [x \in Trees |-> h[x]]
      OBVIOUS
    <3> HIDE DEF h
    <3>3. QED
      BY <3>1, <3>2, TypedFacts
  <2>2. Down(S)
    BY <1>5, <1>6
  <2>3. CASE t \in U
    BY <2>3
  <2>4. CASE t \notin U
    <3>1. ASSUME NEW x \in S PROVE h[x] = G[x][h]
      <4>1. \A n \in Subtrees(x) : x[n].tree \in U /\ x[n].tree \in Trees /\ x[n].tree # t
        <5>1. U \subseteq Trees
          OBVIOUS
        <5> HIDE DEF U, h
        <5>2. x \in U \/ x = t
          BY <3>1
        <5>3. \A n \in Subtrees(x) : x[n].tree \in U
          BY <1>5, <1>6, <5>2
        <5>4. QED
          BY <2>4, <5>1, <5>3
      <4>2. \A n \in Subtrees(x) : h[x[n].tree] = g[x[n].tree]
        BY <4>1
      <4>3. x \in Trees /\ h[x] = G[x][g]
        BY <1>5, <2>4, <3>1
      <4> HIDE DEF h, U
      <4>4. G[x][h] = G[x][g]
        BY <1>4, <2>1, <4>2, <4>3
      <4>5. QED
        BY <4>3, <4>4
    <3>2. Solved(t, h)
      BY <2>1, <2>2, <3>1
    <3>3. QED
      BY <3>2
  <2>5. QED
    BY <2>3, <2>4
<1> HIDE DEF U
<1>7. Trees \subseteq U
  BY <1>6, TreeInduction
<1>8. \A t \in Trees : g[t] = G[t][g]
  BY <1>5, <1>7
<1>9. QED
  BY <1>4, <1>8 DEF Solution

-----------------------------------------------------------------------------
(* RemoveFilename and RemoveLargeBlobs. *)

Pruned == [t \in Trees |-> {u \in Trees : NoDeeper(u, t)}]

LEMMA PrunedFacts ==
  ASSUME NEW t \in Trees
  PROVE  /\ \A u : u \in Pruned[t] <=> u \in Trees /\ NoDeeper(u, t)
         /\ t \in Pruned[t]
BY NoDeeperIsTree DEF Pruned, NoDeeper

LEMMA RebuildPrunes ==
  ASSUME NEW t \in Trees, NEW kept, kept \subseteq DOMAIN t,
         NEW subs, DOMAIN subs = Subtrees(t),
         \A n \in Subtrees(t) : subs[n] \in Pruned[t[n].tree]
  PROVE  Rebuild(t, kept, subs) \in Pruned[t]
<1> DEFINE u == Rebuild(t, kept, subs)
<1>1. /\ u = [n \in DOMAIN u |-> u[n]] /\ DOMAIN u \subseteq DOMAIN t
      /\ \A n \in DOMAIN u : u[n] = IF n \in DOMAIN subs THEN Subtree(subs[n]) ELSE t[n]
  BY DEF Rebuild
<1>2. \A n \in Subtrees(t) : NoDeeper(subs[n], t[n].tree)
  BY SubtreeFacts, PrunedFacts
<1> HIDE DEF u
<1>3. NoDeeper(u, t)
  BY <1>1, <1>2, PrunedIsNoDeeper
<1>4. QED
  BY <1>3, NoDeeperIsTree, PrunedFacts DEF u

(* A removal that rebuilds every tree from what it keeps of it, as both    *)
(* operations do, is defined by its equation.                              *)
LEMMA RebuildRecursion ==
  ASSUME NEW K, \A t \in Trees : K[t] \subseteq DOMAIN t,
         NEW h, h = CHOOSE f : f = [t \in Trees |->
                      Rebuild(t, K[t], [n \in Subtrees(t) |-> f[t[n].tree]])]
  PROVE  \A t \in Trees :
           /\ h[t] = Rebuild(t, K[t], [n \in Subtrees(t) |-> h[t[n].tree]])
           /\ h[t] \in Pruned[t]
<1> DEFINE Body(t, f) == Rebuild(t, K[t], [n \in Subtrees(t) |-> f[t[n].tree]])
           G == [t \in Trees |-> [f \in Typed(Pruned) |-> Body(t, f)]]
<1>1. \A t \in Trees : Pruned[t] # {}
  BY PrunedFacts
<1>2. ASSUME NEW t \in Trees, NEW f \in Typed(Pruned) PROVE Body(t, f) \in Pruned[t]
  <2>1. \A n \in Subtrees(t) : f[t[n].tree] \in Pruned[t[n].tree]
    BY SubtreeFacts, TypedFacts
  <2>2. QED
    BY <2>1, RebuildPrunes
<1>3. ASSUME NEW t \in Trees, NEW f, NEW g, \A n \in Subtrees(t) : f[t[n].tree] = g[t[n].tree]
      PROVE  Body(t, f) = Body(t, g)
  <2>1. [n \in Subtrees(t) |-> f[t[n].tree]] = [n \in Subtrees(t) |-> g[t[n].tree]]
    BY <1>3
  <2>2. QED
    BY <2>1
<1> HIDE DEF Body
<1>4. PICK f \in Typed(Pruned) : \A t \in Trees : f[t] = G[t][f]
  <2>1. \A t \in Trees : \A f \in Typed(Pruned) : G[t][f] = Body(t, f)
    OBVIOUS
  <2> HIDE DEF G
  <2>2. \A t \in Trees : \A f \in Typed(Pruned) : G[t][f] \in Pruned[t]
    BY <1>2, <2>1
  <2>3. \A t \in Trees : \A f, g \in Typed(Pruned) :
          (\A n \in Subtrees(t) : f[t[n].tree] = g[t[n].tree]) => G[t][f] = G[t][g]
    BY <1>3, <2>1
  <2>4. Recursion(Pruned, G)
    BY <1>1, <2>2, <2>3 DEF Recursion
  <2>5. QED
    BY <2>4, TreeRecursion DEF Solution
<1>5. f = [t \in Trees |-> Body(t, f)]
  <2>1. \A t \in Trees : f[t] = Body(t, f)
    BY <1>4
  <2>2. QED
    BY <2>1, TypedFacts
<1>6. h = [t \in Trees |-> Body(t, h)]
  <2>1. h = CHOOSE x : x = [t \in Trees |-> Body(t, x)]
    BY DEF Body
  <2>2. QED
    BY <1>5, <2>1
<1>7. Trees \subseteq {t \in Trees : h[t] = f[t]}
  <2> DEFINE good == {t \in Trees : h[t] = f[t]}
  <2>1. ASSUME NEW t \in Trees, \A n \in Subtrees(t) : t[n].tree \in good PROVE t \in good
    <3>1. Body(t, h) = Body(t, f)
      BY <1>3, <2>1
    <3>2. h[t] = Body(t, h) /\ f[t] = Body(t, f)
      BY <1>5, <1>6
    <3>3. QED
      BY <3>1, <3>2
  <2> HIDE DEF good
  <2>2. Trees \subseteq good
    BY <2>1, TreeInduction
  <2>3. QED
    BY <2>2 DEF good
<1>8. ASSUME NEW t \in Trees PROVE h[t] = Body(t, h) /\ h[t] \in Pruned[t]
  BY <1>6, <1>7, TypedFacts
<1>9. QED
  BY <1>8 DEF Body

FilenameKept(t, filename) == {n \in DOMAIN t : t[n].type # "tree" => n # filename}
LEMMA RemoveFilenameEquation ==
  ASSUME NEW filename, NEW t \in Trees
  PROVE  /\ RemoveFilename(t, filename) =
              Rebuild(t, FilenameKept(t, filename),
                      [n \in Subtrees(t) |-> RemoveFilename(t[n].tree, filename)])
         /\ RemoveFilename(t, filename) \in Pruned[t]
<1> DEFINE K == [x \in Trees |-> FilenameKept(x, filename)]
           h == CHOOSE f : f = [x \in Trees |->
                  Rebuild(x, K[x], [n \in Subtrees(x) |-> f[x[n].tree]])]
<1>1. \A x : RemoveFilename(x, filename) = h[x]
  <2>1. \A f : [x \in Trees |-> Rebuild(x, K[x], [n \in Subtrees(x) |-> f[x[n].tree]])]
               = [x \in Trees |-> Rebuild(x, FilenameKept(x, filename),
                                          [n \in Subtrees(x) |-> f[x[n].tree]])]
    OBVIOUS
  <2>2. QED
    BY <2>1 DEF RemoveFilename, FilenameKept
<1>2. \A x \in Trees : K[x] \subseteq DOMAIN x
  BY DEF FilenameKept
<1>3. K[t] = FilenameKept(t, filename)
  OBVIOUS
<1> HIDE DEF K
<1>4. /\ h[t] = Rebuild(t, K[t], [n \in Subtrees(t) |-> h[t[n].tree]])
      /\ h[t] \in Pruned[t]
  BY <1>2, RebuildRecursion
<1> HIDE DEF h
<1>5. [n \in Subtrees(t) |-> h[t[n].tree]] = [n \in Subtrees(t) |-> RemoveFilename(t[n].tree, filename)]
  BY <1>1
<1>6. QED
  BY <1>1, <1>3, <1>4, <1>5

SmallKept(t, max) == {n \in DOMAIN t : t[n].type = "blob" => t[n].size <= max}
LEMMA RemoveLargeBlobsEquation ==
  ASSUME NEW max, NEW t \in Trees
  PROVE  /\ RemoveLargeBlobs(t, max) =
              Rebuild(t, SmallKept(t, max),
                      [n \in Subtrees(t) |-> RemoveLargeBlobs(t[n].tree, max)])
         /\ RemoveLargeBlobs(t, max) \in Pruned[t]
<1> DEFINE K == [x \in Trees |-> SmallKept(x, max)]
           h == CHOOSE f : f = [x \in Trees |->
                  Rebuild(x, K[x], [n \in Subtrees(x) |-> f[x[n].tree]])]
<1>1. \A x : RemoveLargeBlobs(x, max) = h[x]
  <2>1. \A f : [x \in Trees |-> Rebuild(x, K[x], [n \in Subtrees(x) |-> f[x[n].tree]])]
               = [x \in Trees |-> Rebuild(x, SmallKept(x, max),
                                          [n \in Subtrees(x) |-> f[x[n].tree]])]
    OBVIOUS
  <2>2. QED
    BY <2>1 DEF RemoveLargeBlobs, SmallKept
<1>2. \A x \in Trees : K[x] \subseteq DOMAIN x
  BY DEF SmallKept
<1>3. K[t] = SmallKept(t, max)
  OBVIOUS
<1> HIDE DEF K
<1>4. /\ h[t] = Rebuild(t, K[t], [n \in Subtrees(t) |-> h[t[n].tree]])
      /\ h[t] \in Pruned[t]
  BY <1>2, RebuildRecursion
<1> HIDE DEF h
<1>5. [n \in Subtrees(t) |-> h[t[n].tree]] = [n \in Subtrees(t) |-> RemoveLargeBlobs(t[n].tree, max)]
  BY <1>1
<1>6. QED
  BY <1>1, <1>3, <1>4, <1>5

-----------------------------------------------------------------------------
(* ContainsFilename, ContainsLargeBlob and FindsPath. *)

(* A search that succeeds at the trees of A and above them. *)
LEMMA SearchRecursion ==
  ASSUME NEW A,
         NEW h, h = CHOOSE f : f = [t \in Trees |-> t \in A \/ \E n \in Subtrees(t) : f[t[n].tree]]
  PROVE  \A t \in Trees : h[t] <=> t \in A \/ \E n \in Subtrees(t) : h[t[n].tree]
<1> DEFINE C == [t \in Trees |-> BOOLEAN]
           Body(t, f) == t \in A \/ \E n \in Subtrees(t) : f[t[n].tree]
           G == [t \in Trees |-> [f \in Typed(C) |-> Body(t, f)]]
<1>1. \A t \in Trees : \A f \in Typed(C) : G[t][f] = Body(t, f)
  OBVIOUS
<1>2. \A t \in Trees : \A f, g :
        (\A n \in Subtrees(t) : f[t[n].tree] = g[t[n].tree]) => Body(t, f) = Body(t, g)
  OBVIOUS
<1>3. \A t \in Trees : \A f : C[t] # {} /\ Body(t, f) \in C[t]
  OBVIOUS
<1> HIDE DEF Body, G, C
<1>4. Recursion(C, G)
  BY <1>1, <1>2, <1>3 DEF Recursion
<1>5. PICK f : Solution(f, C, G)
  BY <1>4, TreeRecursion
<1>6. f = [t \in Trees |-> Body(t, f)]
  <2>1. \A t \in Trees : f[t] = Body(t, f)
    BY <1>1, <1>5 DEF Solution
  <2>2. QED
    BY <1>5, <2>1, TypedFacts DEF Solution
<1>7. h = [t \in Trees |-> Body(t, h)]
  <2>1. h = CHOOSE x : x = [t \in Trees |-> Body(t, x)]
    BY DEF Body
  <2>2. QED
    BY <1>6, <2>1
<1>8. \A t \in Trees : h[t] = Body(t, h)
  BY <1>7
<1>9. QED
  BY <1>8 DEF Body

LEMMA ContainsFilenameEquation ==
  ASSUME NEW filename, NEW t \in Trees
  PROVE  ContainsFilename(t, filename) <=>
           \/ filename \in DOMAIN t \ Subtrees(t)
           \/ \E n \in Subtrees(t) : ContainsFilename(t[n].tree, filename)
<1> DEFINE A == {x \in Trees : filename \in DOMAIN x \ Subtrees(x)}
           h == CHOOSE f : f = [x \in Trees |-> x \in A \/ \E n \in Subtrees(x) : f[x[n].tree]]
<1>1. \A x : ContainsFilename(x, filename) = h[x]
  <2> DEFINE Here(x, f) == x \in A \/ \E n \in Subtrees(x) : f[x[n].tree]
             There(x, f) == \/ filename \in DOMAIN x \ Subtrees(x)
                            \/ \E n \in Subtrees(x) : f[x[n].tree]
  <2>1. \A x \in Trees : \A f : Here(x, f) = There(x, f)
    OBVIOUS
  <2>2. \A x : ContainsFilename(x, filename) = (CHOOSE f : f = [y \in Trees |-> There(y, f)])[x]
    BY DEF ContainsFilename
  <2> HIDE DEF Here, There
  <2>3. \A f : [x \in Trees |-> Here(x, f)] = [x \in Trees |-> There(x, f)]
    BY <2>1
  <2>4. h = CHOOSE f : f = [x \in Trees |-> Here(x, f)]
    BY DEF Here
  <2> HIDE DEF h
  <2>5. QED
    BY <2>2, <2>3, <2>4
<1>2. t \in A <=> filename \in DOMAIN t \ Subtrees(t)
  OBVIOUS
<1> HIDE DEF A
<1>3. h[t] <=> t \in A \/ \E n \in Subtrees(t) : h[t[n].tree]
  BY SearchRecursion
<1> HIDE DEF h
<1>4. QED
  BY <1>1, <1>2, <1>3

LEMMA ContainsLargeBlobEquation ==
  ASSUME NEW max, NEW t \in Trees
  PROVE  ContainsLargeBlob(t, max) <=>
           \/ \E n \in DOMAIN t : t[n].type = "blob" /\ t[n].size > max
           \/ \E n \in Subtrees(t) : ContainsLargeBlob(t[n].tree, max)
<1> DEFINE A == {x \in Trees : \E n \in DOMAIN x : x[n].type = "blob" /\ x[n].size > max}
           h == CHOOSE f : f = [x \in Trees |-> x \in A \/ \E n \in Subtrees(x) : f[x[n].tree]]
<1>1. \A x : ContainsLargeBlob(x, max) = h[x]
  <2> DEFINE Here(x, f) == x \in A \/ \E n \in Subtrees(x) : f[x[n].tree]
             There(x, f) == \/ \E n \in DOMAIN x : x[n].type = "blob" /\ x[n].size > max
                            \/ \E n \in Subtrees(x) : f[x[n].tree]
  <2>1. \A x \in Trees : \A f : Here(x, f) = There(x, f)
    OBVIOUS
  <2>2. \A x : ContainsLargeBlob(x, max) = (CHOOSE f : f = [y \in Trees |-> There(y, f)])[x]
    BY DEF ContainsLargeBlob
  <2> HIDE DEF Here, There
  <2>3. \A f : [x \in Trees |-> Here(x, f)] = [x \in Trees |-> There(x, f)]
    BY <2>1
  <2>4. h = CHOOSE f : f = [x \in Trees |-> Here(x, f)]
    BY DEF Here
  <2> HIDE DEF h
  <2>5. QED
    BY <2>2, <2>3, <2>4
<1>2. t \in A <=> \E n \in DOMAIN t : t[n].type = "blob" /\ t[n].size > max
  OBVIOUS
<1> HIDE DEF A
<1>3. h[t] <=> t \in A \/ \E n \in Subtrees(t) : h[t[n].tree]
  BY SearchRecursion
<1> HIDE DEF h
<1>4. QED
  BY <1>1, <1>2, <1>3

LEMMA FindsPathEquation ==
  ASSUME NEW t \in Trees, NEW p \in Paths
  PROVE  FindsPath(t, p) <=>
           /\ p[1] \in DOMAIN t
           /\ \/ Len(p) = 1
              \/ /\ Len(p) > 1 /\ p[1] \in Subtrees(t)
                 /\ Tail(p) = <<"">> \/ FindsPath(t[p[1]].tree, Tail(p))
<1> DEFINE C == [x \in Trees |-> [Paths -> BOOLEAN]]
           Found(x, f, q) ==
             /\ q[1] \in DOMAIN x
             /\ \/ Len(q) = 1
                \/ /\ Len(q) > 1 /\ q[1] \in Subtrees(x)
                   /\ Tail(q) = <<"">> \/ f[x[q[1]].tree][Tail(q)]
           Body(x, f) == [q \in Paths |-> Found(x, f, q)]
           G == [x \in Trees |-> [f \in Typed(C) |-> Body(x, f)]]
           h == CHOOSE f : f = [x \in Trees |-> Body(x, f)]
<1>0. \A x, q : FindsPath(x, q) = h[x][q]
  BY DEF FindsPath
<1>1. \A x \in Trees : \A f \in Typed(C) : G[x][f] = Body(x, f)
  OBVIOUS
<1>2. ASSUME NEW x \in Trees, NEW f, NEW g,
             \A n \in Subtrees(x) : f[x[n].tree] = g[x[n].tree]
      PROVE  Body(x, f) = Body(x, g)
  <2>1. \A q \in Paths : Found(x, f, q) = Found(x, g, q)
    BY <1>2
  <2> HIDE DEF Found
  <2>2. QED
    BY <2>1
<1>3. ASSUME NEW x \in Trees, NEW f PROVE C[x] # {} /\ Body(x, f) \in C[x]
  <2>1. \A q \in Paths : Found(x, f, q) \in BOOLEAN
    OBVIOUS
  <2> HIDE DEF Found
  <2>2. Body(x, f) \in [Paths -> BOOLEAN]
    BY <2>1
  <2>3. C[x] = [Paths -> BOOLEAN]
    OBVIOUS
  <2> HIDE DEF C
  <2>4. QED
    BY <2>2, <2>3
<1> HIDE DEF Body, G, C
<1>4. Recursion(C, G)
  BY <1>1, <1>2, <1>3 DEF Recursion
<1>5. PICK f : Solution(f, C, G)
  BY <1>4, TreeRecursion
<1>6. f = [x \in Trees |-> Body(x, f)]
  <2>1. \A x \in Trees : f[x] = Body(x, f)
    BY <1>1, <1>5 DEF Solution
  <2>2. QED
    BY <1>5, <2>1, TypedFacts DEF Solution
<1>7. h = [x \in Trees |-> Body(x, h)]
  BY <1>6
<1> HIDE DEF h
<1>8. h[t] = Body(t, h)
  BY <1>7
<1>9. h[t][p] = Found(t, h, p)
  BY <1>8 DEF Body
<1>10. QED
  BY <1>0, <1>9

-----------------------------------------------------------------------------
(* RemovePath. *)

LEMMA WithoutFacts ==
  ASSUME NEW t \in Trees, NEW n
  PROVE  /\ DOMAIN Without(t, n) = DOMAIN t \ {n}
         /\ \A m \in DOMAIN t \ {n} : Without(t, n)[m] = t[m]
         /\ Without(t, n) \in Pruned[t]
<1> DEFINE u == Without(t, n)
<1>1. /\ u = [m \in DOMAIN u |-> u[m]] /\ DOMAIN u = DOMAIN t \ {n}
      /\ \A m \in DOMAIN u : u[m] = t[m]
  BY DEF Without, Restrict
<1> HIDE DEF u
<1>2. NoDeeper(u, t)
  BY <1>1, PrunedIsNoDeeper
<1>3. u \in Pruned[t]
  BY <1>2, NoDeeperIsTree, PrunedFacts
<1>4. QED
  BY <1>1, <1>3 DEF u

LEMMA ReplaceFacts ==
  ASSUME NEW t \in Trees, NEW n \in Subtrees(t), NEW s \in Pruned[t[n].tree]
  PROVE  /\ DOMAIN ReplaceSubtree(t, n, s) = IF s = EmptyTree THEN DOMAIN t \ {n} ELSE DOMAIN t
         /\ s # EmptyTree => ReplaceSubtree(t, n, s)[n] = Subtree(s)
         /\ \A m \in DOMAIN t \ {n} : ReplaceSubtree(t, n, s)[m] = t[m]
         /\ ReplaceSubtree(t, n, s) \in Pruned[t]
<1>1. CASE s = EmptyTree
  BY <1>1, WithoutFacts DEF ReplaceSubtree
<1>2. CASE s # EmptyTree
  <2> DEFINE u == ReplaceSubtree(t, n, s)
  <2>1. n \in DOMAIN t /\ t[n].tree \in Trees
    BY SubtreeFacts
  <2>2. t = [m \in DOMAIN t |-> t[m]]
    BY EntryFacts
  <2>3. u = [t EXCEPT ![n] = Subtree(s)]
    BY <1>2 DEF ReplaceSubtree
  <2> HIDE DEF u
  <2>4. /\ u = [m \in DOMAIN u |-> u[m]] /\ DOMAIN u = DOMAIN t
        /\ u[n] = Subtree(s) /\ \A m \in DOMAIN t \ {n} : u[m] = t[m]
    BY <2>1, <2>2, <2>3
  <2>5. NoDeeper(s, t[n].tree)
    BY <2>1, PrunedFacts
  <2>6. NoDeeper(u, t)
    BY <2>4, <2>5, PrunedIsNoDeeper
  <2>7. u \in Pruned[t]
    BY <2>6, NoDeeperIsTree, PrunedFacts
  <2>8. QED
    BY <1>2, <2>4, <2>7 DEF u
<1>3. QED
  BY <1>1, <1>2

(* What a path removes from t when f removes paths from its subtrees.      *)
Cut(t, f, p) ==
  IF Len(p) = 1 THEN {Without(t, n) : n \in DOMAIN t \cap {p[1]}}
  ELSE IF p[1] = "" \/ Tail(p) = <<"">> THEN {}
  ELSE UNION {{ReplaceSubtree(t, n, subtree) : subtree \in f[t[n].tree][Tail(p)]} :
                n \in Subtrees(t) \cap {p[1]}}

LEMMA PathFacts ==
  ASSUME NEW p \in Paths
  PROVE  /\ Len(p) \in Nat \ {0} /\ DOMAIN p = 1..Len(p)
         /\ Len(p) # 1 => Tail(p) \in Paths /\ Len(Tail(p)) = Len(p) - 1
<1>1. p \in Seq(Names \cup {""}) /\ p # <<>>
  BY DEF Paths
<1>2. Len(p) \in Nat \ {0} /\ DOMAIN p = 1..Len(p)
  BY <1>1, LenProperties, EmptySeq
<1>3. /\ Tail(p) \in Seq(Names \cup {""}) /\ Len(Tail(p)) = Len(p) - 1
      /\ \A i \in 1..Len(Tail(p)) : Tail(p)[i] = p[i + 1]
  BY <1>1, HeadTailProperties
<1>4. ASSUME Len(p) # 1 PROVE Tail(p) # <<>>
  <2> DEFINE k == Len(p)
             m == Len(Tail(p))
  <2>1. k \in Nat \ {0} /\ m = k - 1 /\ k # 1
    BY <1>2, <1>3, <1>4
  <2> HIDE DEF k, m
  <2>2. m # 0
    BY <2>1
  <2>3. Len(<<>>) = 0
    OBVIOUS
  <2>4. QED
    BY <2>2, <2>3 DEF m
<1>5. QED
  BY <1>2, <1>3, <1>4 DEF Paths

LEMMA TailNames ==
  ASSUME NEW p \in Paths
  PROVE  \A i \in 1..Len(p) - 1 : Tail(p)[i] = p[i + 1]
<1>1. p \in Seq(Names \cup {""}) /\ p # <<>>
  BY DEF Paths
<1>2. Len(Tail(p)) = Len(p) - 1 /\ \A i \in 1..Len(Tail(p)) : Tail(p)[i] = p[i + 1]
  BY <1>1, HeadTailProperties
<1>3. QED
  BY <1>2

LEMMA CutPrunes ==
  ASSUME NEW t \in Trees, NEW f, NEW p \in Paths,
         \A n \in Subtrees(t) : \A q \in Paths : f[t[n].tree][q] \subseteq Pruned[t[n].tree]
  PROVE  Cut(t, f, p) \subseteq Pruned[t]
<1> SUFFICES ASSUME NEW u \in Cut(t, f, p) PROVE u \in Pruned[t]
  OBVIOUS
<1>1. CASE Len(p) = 1
  <2>1. PICK n \in DOMAIN t : u = Without(t, n)
    BY <1>1 DEF Cut
  <2>2. QED
    BY <2>1, WithoutFacts
<1>2. CASE Len(p) # 1
  <2>0. u \in UNION {{ReplaceSubtree(t, n, subtree) : subtree \in f[t[n].tree][Tail(p)]} :
                      n \in Subtrees(t) \cap {p[1]}}
    BY <1>2 DEF Cut
  <2>1. PICK n \in Subtrees(t) : \E s \in f[t[n].tree][Tail(p)] : u = ReplaceSubtree(t, n, s)
    BY <2>0
  <2>2. PICK s : s \in Pruned[t[n].tree] /\ u = ReplaceSubtree(t, n, s)
    BY <1>2, <2>1, PathFacts
  <2>3. QED
    BY <2>2, ReplaceFacts
<1>3. QED
  BY <1>1, <1>2

(* The case of a path of several names, after what its rest makes of the   *)
(* subtree.                                                                *)
CutBelow(t, subtrees, p, u) ==
  /\ p[1] # "" /\ Tail(p) # <<"">> /\ p[1] \in Subtrees(t)
  /\ \E s \in subtrees : u = ReplaceSubtree(t, p[1], s)

LEMMA CutMembers ==
  ASSUME NEW t, NEW f, NEW p, NEW u
  PROVE  /\ Len(p) = 1 =>
              (u \in Cut(t, f, p) <=> p[1] \in DOMAIN t /\ u = Without(t, p[1]))
         /\ Len(p) # 1 =>
              (u \in Cut(t, f, p) <=> CutBelow(t, f[t[p[1]].tree][Tail(p)], p, u))
<1>1. CASE Len(p) = 1
  BY <1>1 DEF Cut
<1>2. CASE Len(p) # 1
  <2> DEFINE Part(n) == {ReplaceSubtree(t, n, subtree) : subtree \in f[t[n].tree][Tail(p)]}
  <2>1. Cut(t, f, p) = IF p[1] = "" \/ Tail(p) = <<"">> THEN {}
                       ELSE UNION {Part(n) : n \in Subtrees(t) \cap {p[1]}}
    BY <1>2 DEF Cut
  <2>2. \A n : u \in Part(n) <=> \E s \in f[t[n].tree][Tail(p)] : u = ReplaceSubtree(t, n, s)
    OBVIOUS
  <2> HIDE DEF Part
  <2>3. CASE p[1] = "" \/ Tail(p) = <<"">>
    <3>1. Cut(t, f, p) = {}
      BY <2>1, <2>3
    <3>2. QED
      BY <1>2, <2>3, <3>1 DEF CutBelow
  <2>4. CASE ~(p[1] = "" \/ Tail(p) = <<"">>)
    <3>1. Cut(t, f, p) = UNION {Part(n) : n \in Subtrees(t) \cap {p[1]}}
      BY <2>1, <2>4
    <3>2. u \in Cut(t, f, p) <=> p[1] \in Subtrees(t) /\ u \in Part(p[1])
      BY <3>1
    <3>3. QED
      BY <1>2, <2>2, <2>4, <3>2 DEF CutBelow
  <2>5. QED
    BY <2>3, <2>4
<1>3. QED
  BY <1>1, <1>2

LEMMA RemovePathEquation ==
  ASSUME NEW t \in Trees, NEW p \in Paths
  PROVE  /\ Len(p) = 1 => \A u :
              u \in RemovePath(t, p) <=> p[1] \in DOMAIN t /\ u = Without(t, p[1])
         /\ Len(p) # 1 => \A u :
              u \in RemovePath(t, p) <=> CutBelow(t, RemovePath(t[p[1]].tree, Tail(p)), p, u)
         /\ RemovePath(t, p) \subseteq Pruned[t]
<1> DEFINE C == [x \in Trees |-> [Paths -> SUBSET Pruned[x]]]
           Body(x, f) == [q \in Paths |-> Cut(x, f, q)]
           G == [x \in Trees |-> [f \in Typed(C) |-> Body(x, f)]]
           h == CHOOSE f : f = [x \in Trees |-> Body(x, f)]
<1>0. \A x, q : RemovePath(x, q) = h[x][q]
  BY DEF RemovePath, Cut
<1>1. \A x \in Trees : \A f \in Typed(C) : G[x][f] = Body(x, f)
  OBVIOUS
<1>2. ASSUME NEW x \in Trees, NEW f, NEW g,
             \A n \in Subtrees(x) : f[x[n].tree] = g[x[n].tree]
      PROVE  Body(x, f) = Body(x, g)
  <2>1. \A q \in Paths : Cut(x, f, q) = Cut(x, g, q)
    <3> SUFFICES ASSUME NEW q \in Paths, NEW u PROVE u \in Cut(x, f, q) <=> u \in Cut(x, g, q)
      OBVIOUS
    <3>1. q[1] \in Subtrees(x) => f[x[q[1]].tree] = g[x[q[1]].tree]
      BY <1>2
    <3>2. CASE Len(q) = 1
      BY <3>2, CutMembers
    <3>3. CASE Len(q) # 1
      <4>1. q[1] \in Subtrees(x) => f[x[q[1]].tree][Tail(q)] = g[x[q[1]].tree][Tail(q)]
        BY <3>1
      <4>2. CutBelow(x, f[x[q[1]].tree][Tail(q)], q, u) <=> CutBelow(x, g[x[q[1]].tree][Tail(q)], q, u)
        BY <4>1 DEF CutBelow
      <4>3. QED
        BY <3>3, <4>2, CutMembers, Zenon
    <3>4. QED
      BY <3>2, <3>3
  <2>2. QED
    BY <2>1
<1>3. ASSUME NEW x \in Trees, NEW f \in Typed(C) PROVE Body(x, f) \in C[x]
  <2>0. \A y \in Trees : C[y] = [Paths -> SUBSET Pruned[y]]
    OBVIOUS
  <2> HIDE DEF C
  <2>1. ASSUME NEW n \in Subtrees(x), NEW q \in Paths
        PROVE  f[x[n].tree][q] \subseteq Pruned[x[n].tree]
    <3>1. f[x[n].tree] \in [Paths -> SUBSET Pruned[x[n].tree]]
      BY <2>0, SubtreeFacts, TypedFacts
    <3>2. QED
      BY <3>1
  <2>2. Body(x, f) \in [Paths -> SUBSET Pruned[x]]
    BY <2>1, CutPrunes
  <2> HIDE DEF Body
  <2>3. QED
    BY <2>0, <2>2
<1> HIDE DEF Body, G, C
<1>4. Recursion(C, G)
  <2>0. ASSUME NEW x \in Trees PROVE C[x] # {}
    <3>1. [q \in Paths |-> {}] \in C[x]
      BY DEF C
    <3>2. QED
      BY <3>1
  <2>1. \A x \in Trees : \A f \in Typed(C) : G[x][f] \in C[x]
    BY <1>1, <1>3
  <2>2. \A x \in Trees : \A f, g \in Typed(C) :
          (\A n \in Subtrees(x) : f[x[n].tree] = g[x[n].tree]) => G[x][f] = G[x][g]
    BY <1>1, <1>2
  <2>3. QED
    BY <2>0, <2>1, <2>2 DEF Recursion
<1>5. PICK f : Solution(f, C, G)
  BY <1>4, TreeRecursion
<1>6. f = [x \in Trees |-> Body(x, f)]
  <2>1. \A x \in Trees : f[x] = Body(x, f)
    BY <1>1, <1>5 DEF Solution
  <2>2. QED
    BY <1>5, <2>1, TypedFacts DEF Solution
<1>7. h = [x \in Trees |-> Body(x, h)]
  BY <1>6
<1> HIDE DEF h
<1>8. \A x \in Trees : h[x] = Body(x, h)
  BY <1>7
<1>9. \A x \in Trees : \A q \in Paths : h[x][q] = Cut(x, h, q)
  BY <1>8 DEF Body
<1>10. ASSUME NEW x \in Trees PROVE \A q \in Paths : h[x][q] \subseteq Pruned[x]
  <2> DEFINE good == {y \in Trees : \A q \in Paths : h[y][q] \subseteq Pruned[y]}
  <2>1. ASSUME NEW y \in Trees, \A n \in Subtrees(y) : y[n].tree \in good PROVE y \in good
    BY <1>9, <2>1, CutPrunes
  <2> HIDE DEF good
  <2>2. Trees \subseteq good
    BY <2>1, TreeInduction
  <2>3. QED
    BY <2>2 DEF good
<1>11. RemovePath(t, p) = Cut(t, h, p) /\ RemovePath(t, p) \subseteq Pruned[t]
  BY <1>0, <1>9, <1>10
<1>12. RemovePath(t[p[1]].tree, Tail(p)) = h[t[p[1]].tree][Tail(p)]
  BY <1>0
<1>13. CASE Len(p) = 1
  <2>1. \A u : u \in Cut(t, h, p) <=> p[1] \in DOMAIN t /\ u = Without(t, p[1])
    BY <1>13, CutMembers, Zenon
  <2>2. QED
    BY <1>11, <1>13, <2>1
<1>14. CASE Len(p) # 1
  <2>1. \A u : u \in Cut(t, h, p) <=> CutBelow(t, h[t[p[1]].tree][Tail(p)], p, u)
    BY <1>14, CutMembers, Zenon
  <2>2. QED
    BY <1>11, <1>12, <1>14, <2>1
<1>15. QED
  BY <1>13, <1>14

-----------------------------------------------------------------------------
(* Leaves. *)

Below(n, leaf) == [path |-> <<n>> \o leaf.path, entry |-> leaf.entry]
LeafAt(t, n) == [path |-> <<n>>, entry |-> t[n]]
IsDeep(t, n) == t[n].type = "tree" /\ t[n].tree # EmptyTree

(* The leaves of t at or below its entry n, whose subtree has the leaves   *)
(* given, if it is one.                                                    *)
Gathered(t, n, leaves) ==
  IF IsDeep(t, n) THEN {Below(n, leaf) : leaf \in leaves} ELSE {LeafAt(t, n)}
LeavesAt(t, n) == Gathered(t, n, Leaves(t[n].tree))

LeafRecords == [path : Seq(Names) \ {<<>>}, entry : FlatEntries \cup {Subtree(EmptyTree)}]

LEMMA LeafFacts ==
  ASSUME NEW leaf \in LeafRecords
  PROVE  /\ leaf = [path |-> leaf.path, entry |-> leaf.entry]
         /\ leaf.path \in Seq(Names) /\ leaf.path # <<>>
         /\ leaf.entry \in FlatEntries \cup {Subtree(EmptyTree)}
         /\ Len(leaf.path) \in Nat \ {0} /\ DOMAIN leaf.path = 1..Len(leaf.path)
         /\ \A i \in 1..Len(leaf.path) : leaf.path[i] \in Names
<1>1. /\ leaf = [path |-> leaf.path, entry |-> leaf.entry]
      /\ leaf.path \in Seq(Names) /\ leaf.path # <<>>
      /\ leaf.entry \in FlatEntries \cup {Subtree(EmptyTree)}
  BY DEF LeafRecords
<1>2. /\ Len(leaf.path) \in Nat \ {0} /\ DOMAIN leaf.path = 1..Len(leaf.path)
      /\ \A i \in 1..Len(leaf.path) : leaf.path[i] \in Names
  BY <1>1, LenProperties, EmptySeq, ElementOfSeq
<1>3. QED
  BY <1>1, <1>2

LEMMA BelowFacts ==
  ASSUME NEW n \in Names, NEW leaf \in LeafRecords
  PROVE  /\ Below(n, leaf) \in LeafRecords
         /\ Below(n, leaf).entry = leaf.entry
         /\ Len(Below(n, leaf).path) = Len(leaf.path) + 1
         /\ Below(n, leaf).path[1] = n
         /\ \A i \in 1..Len(leaf.path) : Below(n, leaf).path[i + 1] = leaf.path[i]
<1>1. leaf.path \in Seq(Names) /\ <<n>> \in Seq(Names) /\ Len(<<n>>) = 1 /\ <<n>>[1] = n
  BY LeafFacts
<1> DEFINE path == <<n>> \o leaf.path
<1>2. /\ path \in Seq(Names) /\ Len(path) = 1 + Len(leaf.path)
      /\ \A i \in 1..1 + Len(leaf.path) : path[i] = IF i <= 1 THEN <<n>>[i] ELSE leaf.path[i - 1]
  BY <1>1, ConcatProperties
<1> HIDE DEF path
<1>3. Len(leaf.path) \in Nat \ {0} /\ leaf.entry \in FlatEntries \cup {Subtree(EmptyTree)}
  BY LeafFacts
<1>4. path[1] = n /\ \A i \in 1..Len(leaf.path) : path[i + 1] = leaf.path[i]
  <2>1. 1 \in 1..1 + Len(leaf.path)
    BY <1>3
  <2>2. path[1] = n
    BY <1>1, <1>2, <2>1
  <2>3. ASSUME NEW i \in 1..Len(leaf.path) PROVE path[i + 1] = leaf.path[i]
    <3>1. i + 1 \in 1..1 + Len(leaf.path) /\ ~(i + 1 <= 1) /\ (i + 1) - 1 = i
      BY <1>3
    <3>2. path[i + 1] = leaf.path[(i + 1) - 1]
      BY <1>2, <3>1
    <3>3. QED
      BY <3>1, <3>2
  <2>4. QED
    BY <2>2, <2>3
<1>5. path # <<>>
  <2>1. Len(<<>>) = 0
    OBVIOUS
  <2>2. QED
    BY <1>2, <1>3, <2>1
<1>6. Below(n, leaf) = [path |-> path, entry |-> leaf.entry]
  BY DEF Below, path
<1>7. QED
  BY <1>2, <1>3, <1>4, <1>5, <1>6 DEF LeafRecords

LEMMA LeafAtFacts ==
  ASSUME NEW t \in Trees, NEW n \in DOMAIN t, ~IsDeep(t, n)
  PROVE  /\ LeafAt(t, n) \in LeafRecords
         /\ LeafAt(t, n).path = <<n>> /\ LeafAt(t, n).entry = t[n]
<1>1. n \in Names
  BY EntryFacts
<1>2. t[n] \in FlatEntries \/ n \in Subtrees(t)
  BY DepthAssumption, LevelMembers DEF Trees, Level, Subtrees, Subtree
<1>3. n \in Subtrees(t) => t[n] = Subtree(EmptyTree)
  BY SubtreeFacts, EntryFacts DEF IsDeep
<1>4. <<n>> \in Seq(Names) /\ <<n>> # <<>>
  BY <1>1
<1>5. QED
  BY <1>2, <1>3, <1>4 DEF LeafAt, LeafRecords

LEMMA GatheredFacts ==
  ASSUME NEW t \in Trees, NEW n \in DOMAIN t, NEW leaves,
         n \in Subtrees(t) => leaves \subseteq LeafRecords
  PROVE  \A x \in Gathered(t, n, leaves) : x \in LeafRecords /\ x.path[1] = n
<1>1. CASE IsDeep(t, n)
  <2>1. leaves \subseteq LeafRecords
    BY <1>1, EntryFacts DEF IsDeep
  <2>2. n \in Names
    BY EntryFacts
  <2>3. QED
    BY <1>1, <2>1, <2>2, BelowFacts DEF Gathered
<1>2. CASE ~IsDeep(t, n)
  BY <1>2, LeafAtFacts DEF Gathered
<1>3. QED
  BY <1>1, <1>2

LEMMA LeavesEquation ==
  ASSUME NEW t \in Trees
  PROVE  /\ Leaves(t) = UNION {LeavesAt(t, n) : n \in DOMAIN t}
         /\ Leaves(t) \subseteq LeafRecords
<1> DEFINE C == [x \in Trees |-> SUBSET LeafRecords]
           Body(x, f) == UNION {Gathered(x, n, f[x[n].tree]) : n \in DOMAIN x}
           G == [x \in Trees |-> [f \in Typed(C) |-> Body(x, f)]]
           h == CHOOSE f : f = [x \in Trees |-> Body(x, f)]
<1>0. \A x : Leaves(x) = h[x]
  BY DEF Leaves, Gathered, Below, LeafAt, IsDeep
<1>1. \A x \in Trees : \A f \in Typed(C) : G[x][f] = Body(x, f)
  OBVIOUS
<1>2. ASSUME NEW x \in Trees, NEW f, NEW g,
             \A n \in Subtrees(x) : f[x[n].tree] = g[x[n].tree]
      PROVE  Body(x, f) = Body(x, g)
  <2>1. \A n \in DOMAIN x : Gathered(x, n, f[x[n].tree]) = Gathered(x, n, g[x[n].tree])
    BY <1>2, EntryFacts DEF Gathered, IsDeep
  <2>2. QED
    BY <2>1
<1>3. ASSUME NEW x \in Trees, NEW f,
             \A n \in Subtrees(x) : f[x[n].tree] \subseteq LeafRecords
      PROVE  Body(x, f) \subseteq LeafRecords
  BY <1>3, GatheredFacts
<1> HIDE DEF Body
<1>4. Recursion(C, G)
  <2>1. \A x \in Trees : C[x] = SUBSET LeafRecords /\ C[x] # {}
    OBVIOUS
  <2> HIDE DEF G, C
  <2>2. ASSUME NEW x \in Trees, NEW f \in Typed(C) PROVE G[x][f] \in C[x]
    <3>1. \A n \in Subtrees(x) : f[x[n].tree] \subseteq LeafRecords
      BY <2>1, SubtreeFacts, TypedFacts
    <3>2. QED
      BY <1>1, <1>3, <2>1, <3>1
  <2>3. \A x \in Trees : \A f, g \in Typed(C) :
          (\A n \in Subtrees(x) : f[x[n].tree] = g[x[n].tree]) => G[x][f] = G[x][g]
    BY <1>1, <1>2
  <2>4. QED
    BY <2>1, <2>2, <2>3 DEF Recursion
<1> HIDE DEF G, C
<1>5. PICK f : Solution(f, C, G)
  BY <1>4, TreeRecursion
<1>6. f = [x \in Trees |-> Body(x, f)]
  <2>1. \A x \in Trees : f[x] = Body(x, f)
    BY <1>1, <1>5 DEF Solution
  <2>2. QED
    BY <1>5, <2>1, TypedFacts DEF Solution
<1>7. h = [x \in Trees |-> Body(x, h)]
  BY <1>6
<1> HIDE DEF h
<1>8. \A x \in Trees : h[x] = Body(x, h)
  BY <1>7
<1>9. Trees \subseteq {x \in Trees : h[x] \subseteq LeafRecords}
  <2> DEFINE good == {x \in Trees : h[x] \subseteq LeafRecords}
  <2>1. ASSUME NEW x \in Trees, \A n \in Subtrees(x) : x[n].tree \in good PROVE x \in good
    BY <1>3, <1>8, <2>1
  <2> HIDE DEF good
  <2>2. Trees \subseteq good
    BY <2>1, TreeInduction
  <2>3. QED
    BY <2>2 DEF good
<1>10. Leaves(t) = Body(t, h) /\ Leaves(t) \subseteq LeafRecords
  BY <1>0, <1>8, <1>9
<1>11. \A n : Gathered(t, n, h[t[n].tree]) = LeavesAt(t, n)
  BY <1>0 DEF LeavesAt
<1>12. QED
  BY <1>10, <1>11 DEF Body

(* A leaf is at or below the entry its path begins with. *)
LEMMA LeafIsAt ==
  ASSUME NEW t \in Trees, NEW x
  PROVE  /\ x \in Leaves(t) <=> x.path[1] \in DOMAIN t /\ x \in LeavesAt(t, x.path[1])
         /\ \A n \in DOMAIN t : x \in LeavesAt(t, n) => x \in Leaves(t) /\ x.path[1] = n
<1>1. ASSUME NEW n \in DOMAIN t, x \in LeavesAt(t, n) PROVE x.path[1] = n
  <2>1. n \in Subtrees(t) => Leaves(t[n].tree) \subseteq LeafRecords
    BY SubtreeFacts, LeavesEquation
  <2>2. QED
    BY <1>1, <2>1, GatheredFacts DEF LeavesAt
<1>2. x \in Leaves(t) <=> \E n \in DOMAIN t : x \in LeavesAt(t, n)
  BY LeavesEquation
<1>3. QED
  BY <1>1, <1>2
=============================================================================
