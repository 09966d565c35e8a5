-------------------------- MODULE TreeFilterProofs --------------------------
(***************************************************************************)
(* Proofs about TreeFilter, for every tree, of any depth, and every        *)
(* filter: what a rule matches and what it removes, told from the leaves   *)
(* of the tree, and from it what becomes of a commit's tree.               *)
(***************************************************************************)
EXTENDS TreeProofs

-----------------------------------------------------------------------------
(* Leaves and entries. *)

LEMMA DeepFacts ==
  ASSUME NEW t \in Trees, NEW n \in DOMAIN t
  PROVE  /\ n \in Names
         /\ IsDeep(t, n) =>
              /\ n \in Subtrees(t) /\ t[n].tree \in Trees /\ Leaves(t[n].tree) \subseteq LeafRecords
              /\ \A x : x \in LeavesAt(t, n) <=> \E leaf \in Leaves(t[n].tree) : x = Below(n, leaf)
         /\ ~IsDeep(t, n) => LeavesAt(t, n) = {LeafAt(t, n)}
BY EntryFacts, SubtreeFacts, LeavesEquation DEF IsDeep, LeavesAt, Gathered

(* Every tree but the empty one has a leaf. *)
LEMMA EmptyLeaves ==
  ASSUME NEW t \in Trees
  PROVE  Leaves(t) = {} <=> t = EmptyTree
<1> DEFINE good == {x \in Trees : DOMAIN x # {} => Leaves(x) # {}}
<1>1. ASSUME NEW x \in Trees, \A n \in Subtrees(x) : x[n].tree \in good PROVE x \in good
  <2>1. SUFFICES ASSUME NEW n \in DOMAIN x PROVE Leaves(x) # {}
    OBVIOUS
  <2>2. CASE IsDeep(x, n)
    <3>1. Leaves(x[n].tree) # {}
      BY <1>1, <2>2, DeepFacts, EmptyTreeFacts DEF IsDeep
    <3>2. LeavesAt(x, n) # {}
      <4>1. PICK leaf : leaf \in Leaves(x[n].tree)
        BY <3>1
      <4>2. Below(n, leaf) \in LeavesAt(x, n)
        BY <2>2, <4>1, DeepFacts
      <4>3. QED
        BY <4>2
    <3>3. QED
      BY <3>2, LeafIsAt
  <2>3. CASE ~IsDeep(x, n)
    BY <2>3, DeepFacts, LeafIsAt
  <2>4. QED
    BY <2>2, <2>3
<1> HIDE DEF good
<1>2. Trees \subseteq good
  BY <1>1, TreeInduction
<1>3. DOMAIN t # {} => Leaves(t) # {}
  BY <1>2 DEF good
<1>4. DOMAIN t = {} => Leaves(t) = {}
  BY LeafIsAt
<1>5. QED
  BY <1>3, <1>4, EmptyTreeFacts

LEMMA EntryHasLeaf ==
  ASSUME NEW t \in Trees, NEW n \in DOMAIN t
  PROVE  \E x \in Leaves(t) : x.path[1] = n
<1>1. CASE IsDeep(t, n)
  <2>1. t[n].tree \in Trees /\ t[n].tree # EmptyTree
    BY <1>1, DeepFacts DEF IsDeep
  <2>2. PICK leaf : leaf \in Leaves(t[n].tree)
    BY <2>1, EmptyLeaves
  <2>3. Below(n, leaf) \in LeavesAt(t, n)
    BY <1>1, <2>2, DeepFacts
  <2>4. QED
    BY <2>3, LeafIsAt
<1>2. CASE ~IsDeep(t, n)
  <2>1. LeafAt(t, n) \in LeavesAt(t, n)
    BY <1>2, DeepFacts
  <2>2. QED
    BY <2>1, LeafIsAt
<1>3. QED
  BY <1>1, <1>2

(* Trees that agree but for one entry agree on the leaves elsewhere. *)
LEMMA LeavesElsewhere ==
  ASSUME NEW t \in Trees, NEW u \in Trees, NEW n, DOMAIN u \subseteq DOMAIN t,
         \A m \in DOMAIN t \ {n} : m \in DOMAIN u /\ u[m] = t[m]
  PROVE  \A x : x.path[1] # n => (x \in Leaves(u) <=> x \in Leaves(t))
<1> SUFFICES ASSUME NEW x, x.path[1] # n PROVE x \in Leaves(u) <=> x \in Leaves(t)
  OBVIOUS
<1>1. x.path[1] \in DOMAIN u <=> x.path[1] \in DOMAIN t
  OBVIOUS
<1>2. x.path[1] \in DOMAIN t => LeavesAt(u, x.path[1]) = LeavesAt(t, x.path[1])
  <2>1. x.path[1] \in DOMAIN t => u[x.path[1]] = t[x.path[1]]
    OBVIOUS
  <2>2. QED
    BY <2>1 DEF LeavesAt, Gathered, IsDeep, LeafAt
<1>3. QED
  BY <1>1, <1>2, LeafIsAt

-----------------------------------------------------------------------------
(* Paths and leaves. *)

(* The first k names of the two are the same; the names of the one after   *)
(* its first are the first k of the other.                                 *)
Agree(k, path, names) == \A i \in 1..k : path[i] = names[i]
Shifted(k, path, names) == \A i \in 1..k : path[i + 1] = names[i]

Prefix(p, path) == Len(p) <= Len(path) /\ Agree(Len(p), path, p)

(* The path ends in a slash after a directory that the leaf is or lies in. *)
EndsAtDirectory(p, leaf) ==
  /\ Len(p) > 1 /\ p[Len(p)] = ""
  /\ Len(p) - 1 <= Len(leaf.path) /\ Agree(Len(p) - 1, leaf.path, p)
  /\ Len(p) - 1 < Len(leaf.path) \/ leaf.entry.type = "tree"

LEMMA OneElement ==
  ASSUME NEW S, NEW q \in Seq(S), Len(q) = 1
  PROVE  q = <<q[1]>>
OBVIOUS

LEMMA SlashFacts ==
  ASSUME NEW p \in Paths, Len(p) # 1
  PROVE  Tail(p) = <<"">> <=> Len(p) = 2 /\ p[2] = ""
<1> DEFINE q == Tail(p)
           k == Len(p)
           m == Len(q)
<1>1. k \in Nat \ {0} /\ k # 1 /\ m = k - 1
  BY PathFacts
<1>2. q \in Seq(Names \cup {""})
  BY PathFacts DEF Paths
<1>3. \A i \in 1..k - 1 : q[i] = p[i + 1]
  BY TailNames
<1>4. Len(<<"">>) = 1 /\ <<"">>[1] = ""
  OBVIOUS
<1> HIDE DEF k, m
<1>5. m = 1 => q = <<q[1]>>
  BY <1>2, OneElement DEF m
<1> HIDE DEF q
<1>6. q = <<"">> => m = 1
  BY <1>4 DEF m
<1>7. m = 1 <=> k = 2
  BY <1>1
<1>8. k = 2 => q[1] = p[2]
  <2>1. SUFFICES ASSUME k = 2 PROVE q[1] = p[2]
    OBVIOUS
  <2>2. 1 \in 1..k - 1 /\ 1 + 1 = 2
    BY <2>1
  <2>3. QED
    BY <1>3, <2>2
<1>9. QED
  BY <1>4, <1>5, <1>6, <1>7, <1>8 DEF q, k

LEMMA OneName ==
  ASSUME NEW p \in Paths, Len(p) = 1, NEW leaf \in LeafRecords
  PROVE  /\ Prefix(p, leaf.path) <=> leaf.path[1] = p[1]
         /\ ~EndsAtDirectory(p, leaf)
BY LeafFacts DEF Prefix, EndsAtDirectory, Agree

LEMMA SeveralNames ==
  ASSUME NEW p \in Paths, Len(p) # 1, NEW leaf \in LeafRecords
  PROVE  Prefix(p, leaf.path) \/ EndsAtDirectory(p, leaf) => leaf.path[1] = p[1]
<1> DEFINE k == Len(p)
<1>1. k \in Nat \ {0} /\ k # 1
  BY PathFacts
<1> HIDE DEF k
<1>2. 1 \in 1..k /\ 1 \in 1..k - 1
  BY <1>1
<1>3. QED
  BY <1>2 DEF Prefix, EndsAtDirectory, Agree, k

(* Comparing one name further down. *)
LEMMA ShiftedNames ==
  ASSUME NEW k \in Nat, NEW path, NEW names, NEW p, NEW q,
         Shifted(k, path, names), Shifted(k, p, q)
  PROVE  Agree(k + 1, path, p) <=> path[1] = p[1] /\ Agree(k, names, q)
<1>1. ASSUME Agree(k + 1, path, p) PROVE path[1] = p[1] /\ Agree(k, names, q)
  <2>1. path[1] = p[1]
    BY <1>1 DEF Agree
  <2>2. ASSUME NEW i \in 1..k PROVE names[i] = q[i]
    <3>1. i + 1 \in 1..k + 1
      OBVIOUS
    <3>2. path[i + 1] = p[i + 1]
      BY <1>1, <3>1 DEF Agree
    <3>3. QED
      BY <3>2 DEF Shifted
  <2>3. QED
    BY <2>1, <2>2 DEF Agree
<1>2. ASSUME path[1] = p[1], Agree(k, names, q), NEW i \in 1..k + 1 PROVE path[i] = p[i]
  <2>1. CASE i = 1
    BY <1>2, <2>1
  <2>2. CASE i # 1
    <3>1. i - 1 \in 1..k /\ (i - 1) + 1 = i
      BY <2>2
    <3>2. path[i] = names[i - 1] /\ p[i] = q[i - 1] /\ names[i - 1] = q[i - 1]
      BY <1>2, <3>1 DEF Agree, Shifted
    <3>3. QED
      BY <3>2
  <2>3. QED
    BY <2>1, <2>2
<1>3. QED
  BY <1>1, <1>2 DEF Agree

LEMMA ShiftFewer ==
  ASSUME NEW k \in Nat, NEW m \in Nat, k <= m, NEW path, NEW names, Shifted(m, path, names)
  PROVE  Shifted(k, path, names)
BY DEF Shifted

LEMMA ShiftBelow ==
  ASSUME NEW n \in Names, NEW leaf \in LeafRecords
  PROVE  /\ Shifted(Len(leaf.path), Below(n, leaf).path, leaf.path)
         /\ Below(n, leaf).path[1] = n /\ Len(Below(n, leaf).path) = Len(leaf.path) + 1
         /\ Len(leaf.path) \in Nat \ {0} /\ Below(n, leaf).entry = leaf.entry
BY BelowFacts, LeafFacts DEF Shifted

LEMMA ShiftTail ==
  ASSUME NEW p \in Paths
  PROVE  Shifted(Len(p) - 1, p, Tail(p))
BY TailNames DEF Shifted

LEMMA PrefixBelow ==
  ASSUME NEW p \in Paths, Len(p) # 1, NEW n \in Names, NEW leaf \in LeafRecords
  PROVE  Prefix(p, Below(n, leaf).path) <=> p[1] = n /\ Prefix(Tail(p), leaf.path)
<1> DEFINE path == Below(n, leaf).path
           q == Tail(p)
           k == Len(p) - 1
           m == Len(leaf.path)
<1>1. /\ Shifted(m, path, leaf.path) /\ path[1] = n /\ Len(path) = m + 1
      /\ m \in Nat \ {0}
  BY ShiftBelow
<1>2. k \in Nat /\ Len(p) = k + 1 /\ Len(q) = k
  BY PathFacts
<1>3. Shifted(k, p, q)
  BY ShiftTail
<1>4. Prefix(p, path) <=> Len(p) <= Len(path) /\ Agree(Len(p), path, p)
  BY DEF Prefix
<1>5. Prefix(q, leaf.path) <=> Len(q) <= m /\ Agree(Len(q), leaf.path, q)
  BY DEF Prefix
<1> HIDE DEF path, q, k, m
<1>6. Prefix(p, path) <=> k + 1 <= m + 1 /\ Agree(k + 1, path, p)
  BY <1>1, <1>2, <1>4
<1>7. Prefix(q, leaf.path) <=> k <= m /\ Agree(k, leaf.path, q)
  BY <1>2, <1>5
<1>8. CASE k > m
  BY <1>1, <1>2, <1>6, <1>7, <1>8 DEF path, q
<1>9. CASE k <= m
  <2>1. Shifted(k, path, leaf.path)
    BY <1>1, <1>2, <1>9, ShiftFewer
  <2>2. Agree(k + 1, path, p) <=> path[1] = p[1] /\ Agree(k, leaf.path, q)
    BY <1>2, <1>3, <2>1, ShiftedNames
  <2>3. k + 1 <= m + 1
    BY <1>1, <1>2, <1>9
  <2>4. QED
    BY <1>1, <1>6, <1>7, <1>9, <2>2, <2>3 DEF path, q
<1>10. QED
  BY <1>1, <1>2, <1>8, <1>9

LEMMA DirectoryBelow ==
  ASSUME NEW p \in Paths, Len(p) # 1, NEW n \in Names, NEW leaf \in LeafRecords
  PROVE  EndsAtDirectory(p, Below(n, leaf)) <=>
           p[1] = n /\ (Tail(p) = <<"">> \/ EndsAtDirectory(Tail(p), leaf))
<1> DEFINE path == Below(n, leaf).path
           q == Tail(p)
           k == Len(p) - 2
           l == Len(p)
           j == Len(q)
           m == Len(leaf.path)
           e == leaf.entry.type
<1>1. /\ Shifted(m, path, leaf.path) /\ path[1] = n /\ Len(path) = m + 1
      /\ m \in Nat \ {0} /\ Below(n, leaf).entry.type = e
  BY ShiftBelow
<1>2. l \in Nat \ {0} /\ l # 1 /\ j = l - 1 /\ k = l - 2
  BY PathFacts
<1>3. Shifted(l - 1, p, q)
  BY ShiftTail
<1>4. q = <<"">> <=> l = 2 /\ p[2] = ""
  BY SlashFacts
<1>5. EndsAtDirectory(p, Below(n, leaf)) <=>
        /\ l > 1 /\ p[l] = "" /\ l - 1 <= Len(path) /\ Agree(l - 1, path, p)
        /\ (l - 1 < Len(path) \/ e = "tree")
  BY <1>1 DEF EndsAtDirectory
<1>6. EndsAtDirectory(q, leaf) <=>
        /\ j > 1 /\ q[j] = "" /\ j - 1 <= m /\ Agree(j - 1, leaf.path, q)
        /\ j - 1 < m \/ e = "tree"
  BY DEF EndsAtDirectory
<1> HIDE DEF path, q, k, l, j, m, e
<1>7. k \in Nat /\ l = k + 2 /\ j = k + 1 /\ l - 1 = k + 1 /\ j - 1 = k
  BY <1>2
<1>8. q[k + 1] = p[k + 2]
  <2>1. k + 1 \in 1..l - 1 /\ (k + 1) + 1 = k + 2
    BY <1>7
  <2>2. QED
    BY <1>3, <2>1 DEF Shifted
<1>9. EndsAtDirectory(p, Below(n, leaf)) <=>
        /\ p[k + 2] = "" /\ k <= m /\ Agree(k + 1, path, p) /\ (k < m \/ e = "tree")
  <2> DEFINE w == Len(path)
  <2>1. w = m + 1
    BY <1>1
  <2> HIDE DEF w
  <2>2. l > 1 /\ (l - 1 <= w <=> k <= m) /\ (l - 1 < w <=> k < m)
    BY <1>1, <1>7, <2>1
  <2>3. p[l] = p[k + 2] /\ (Agree(l - 1, path, p) <=> Agree(k + 1, path, p))
    BY <1>7
  <2>4. QED
    BY <1>5, <2>2, <2>3 DEF w
<1>10. EndsAtDirectory(q, leaf) <=>
        /\ k > 0 /\ p[k + 2] = "" /\ k <= m /\ Agree(k, leaf.path, q) /\ (k < m \/ e = "tree")
  <2>1. (j > 1 <=> k > 0) /\ (j - 1 <= m <=> k <= m) /\ (j - 1 < m <=> k < m)
    BY <1>1, <1>7
  <2>2. q[j] = p[k + 2] /\ (Agree(j - 1, leaf.path, q) <=> Agree(k, leaf.path, q))
    BY <1>7, <1>8
  <2>3. QED
    BY <1>6, <2>1, <2>2
<1>11. q = <<"">> <=> k = 0 /\ p[k + 2] = ""
  <2>1. l = 2 <=> k = 0
    BY <1>7
  <2>2. k = 0 => p[k + 2] = p[2]
    OBVIOUS
  <2>3. QED
    BY <1>4, <2>1, <2>2
<1>12. ASSUME k <= m PROVE Agree(k + 1, path, p) <=> n = p[1] /\ Agree(k, leaf.path, q)
  <2>1. Shifted(k, path, leaf.path)
    BY <1>1, <1>7, <1>12, ShiftFewer
  <2>2. Shifted(k, p, q)
    BY <1>3, <1>7, ShiftFewer
  <2>3. QED
    BY <1>1, <1>7, <2>1, <2>2, ShiftedNames
<1>13. k = 0 => Agree(k, leaf.path, q) /\ k < m /\ k <= m
  BY <1>1 DEF Agree
<1>14. k = 0 \/ k > 0
  BY <1>7
<1>15. (n = p[1] /\ (q = <<"">> \/ EndsAtDirectory(q, leaf))) <=> EndsAtDirectory(p, Below(n, leaf))
  <2>1. CASE k = 0
    BY <1>9, <1>10, <1>11, <1>12, <1>13, <2>1
  <2>2. CASE k > 0
    <3>1. k # 0
      BY <1>7, <2>2
    <3>2. q # <<"">>
      BY <1>11, <3>1
    <3>3. QED
      BY <1>9, <1>10, <1>12, <2>2, <3>2
  <2>3. QED
    BY <1>14, <2>1, <2>2
<1>16. QED
  BY <1>15 DEF q

(* A leaf that is an entry of the tree itself. *)
LEMMA AtTheTop ==
  ASSUME NEW t \in Trees, NEW n \in DOMAIN t, ~IsDeep(t, n), NEW p \in Paths, Len(p) # 1
  PROVE  /\ ~Prefix(p, LeafAt(t, n).path)
         /\ EndsAtDirectory(p, LeafAt(t, n)) <=>
              Tail(p) = <<"">> /\ n = p[1] /\ t[n].type = "tree"
<1> DEFINE k == Len(p)
           path == LeafAt(t, n).path
<1>1. k \in Nat \ {0} /\ k # 1
  BY PathFacts
<1>2. path = <<n>> /\ LeafAt(t, n).entry = t[n] /\ path[1] = n
  BY LeafAtFacts
<1>3. Len(path) = 1
  BY <1>2
<1>4. Prefix(p, path) => k <= 1
  BY <1>3 DEF Prefix
<1>5. EndsAtDirectory(p, LeafAt(t, n)) <=>
        /\ k > 1 /\ p[k] = "" /\ k - 1 <= 1 /\ Agree(k - 1, path, p)
        /\ k - 1 < 1 \/ t[n].type = "tree"
  BY <1>2, <1>3 DEF EndsAtDirectory
<1>6. Agree(1, path, p) <=> n = p[1]
  BY <1>2 DEF Agree
<1>7. Tail(p) = <<"">> <=> k = 2 /\ p[2] = ""
  BY SlashFacts
<1> HIDE DEF k
<1>8. k > 1 /\ ~(k <= 1) /\ (k - 1 <= 1 <=> k = 2) /\ ~(k - 1 < 1)
  BY <1>1
<1>9. k = 2 => k - 1 = 1 /\ p[k] = p[2]
  OBVIOUS
<1>10. k = 2 => (Agree(k - 1, path, p) <=> Agree(1, path, p))
  BY <1>9
<1>11. QED
  BY <1>4, <1>5, <1>6, <1>7, <1>8, <1>9, <1>10

(* The tree has a leaf that the path names, or that is in or is a          *)
(* directory that the path names with a slash after it.                    *)
Reaches(t, p) == \E leaf \in Leaves(t) : Prefix(p, leaf.path) \/ EndsAtDirectory(p, leaf)

(* What reaches a leaf of a directory, told from the leaves of the         *)
(* directory.                                                              *)
LEMMA ReachesBelow ==
  ASSUME NEW t \in Trees, NEW p \in Paths, Len(p) # 1, p[1] \in DOMAIN t, IsDeep(t, p[1])
  PROVE  Reaches(t, p) <=> Tail(p) = <<"">> \/ Reaches(t[p[1]].tree, Tail(p))
<1> DEFINE n == p[1]
<1>1. /\ n \in Names /\ t[n].tree \in Trees /\ Leaves(t[n].tree) \subseteq LeafRecords
      /\ \A x : x \in LeavesAt(t, n) <=> \E leaf \in Leaves(t[n].tree) : x = Below(n, leaf)
  BY DeepFacts
<1>2. ASSUME NEW x \in Leaves(t), Prefix(p, x.path) \/ EndsAtDirectory(p, x)
      PROVE  Tail(p) = <<"">> \/ Reaches(t[n].tree, Tail(p))
  <2>1. x \in LeafRecords
    BY LeavesEquation
  <2>2. x.path[1] = n
    BY <1>2, <2>1, SeveralNames
  <2>3. x \in LeavesAt(t, n)
    BY <2>2, LeafIsAt
  <2>4. PICK leaf \in Leaves(t[n].tree) : x = Below(n, leaf)
    BY <1>1, <2>3
  <2>5. leaf \in LeafRecords
    BY <1>1
  <2>6. QED
    BY <1>1, <1>2, <2>4, <2>5, PrefixBelow, DirectoryBelow DEF Reaches
<1>3. ASSUME NEW leaf \in Leaves(t[n].tree),
             \/ Tail(p) = <<"">>
             \/ Prefix(Tail(p), leaf.path) \/ EndsAtDirectory(Tail(p), leaf)
      PROVE  Reaches(t, p)
  <2>1. Below(n, leaf) \in Leaves(t)
    BY <1>1, LeafIsAt
  <2>2. Prefix(p, Below(n, leaf).path) \/ EndsAtDirectory(p, Below(n, leaf))
    BY <1>1, <1>3, PrefixBelow, DirectoryBelow
  <2>3. QED
    BY <2>1, <2>2 DEF Reaches
<1>4. \E leaf : leaf \in Leaves(t[n].tree)
  BY <1>1, EmptyLeaves DEF IsDeep
<1>5. QED
  BY <1>2, <1>3, <1>4 DEF Reaches

(* A path finds something exactly if it reaches a leaf. *)
LEMMA FindsPathReaches ==
  ASSUME NEW t \in Trees, NEW p \in Paths
  PROVE  FindsPath(t, p) <=> Reaches(t, p)
<1> DEFINE good == {x \in Trees : \A q \in Paths : FindsPath(x, q) <=> Reaches(x, q)}
<1>1. ASSUME NEW x \in Trees, \A n \in Subtrees(x) : x[n].tree \in good, NEW q \in Paths
      PROVE  FindsPath(x, q) <=> Reaches(x, q)
  <2>1. CASE Len(q) = 1
    <3>1. FindsPath(x, q) <=> q[1] \in DOMAIN x
      BY <2>1, FindsPathEquation
    <3>2. ASSUME q[1] \in DOMAIN x PROVE Reaches(x, q)
      <4>1. PICK leaf \in Leaves(x) : leaf.path[1] = q[1]
        BY <3>2, EntryHasLeaf
      <4>2. leaf \in LeafRecords
        BY LeavesEquation
      <4>3. QED
        BY <2>1, <4>1, <4>2, OneName DEF Reaches
    <3>3. ASSUME NEW leaf \in Leaves(x), Prefix(q, leaf.path) \/ EndsAtDirectory(q, leaf)
          PROVE  q[1] \in DOMAIN x
      <4>1. leaf \in LeafRecords
        BY LeavesEquation
      <4>2. leaf.path[1] = q[1]
        BY <2>1, <3>3, <4>1, OneName
      <4>3. QED
        BY <4>2, LeafIsAt
    <3>4. QED
      BY <3>1, <3>2, <3>3 DEF Reaches
  <2>2. CASE Len(q) # 1
    <3>0. Len(q) > 1
      <4> DEFINE k == Len(q)
      <4>1. k \in Nat \ {0} /\ k # 1
        BY <2>2, PathFacts
      <4> HIDE DEF k
      <4>2. k > 1
        BY <4>1
      <4>3. QED
        BY <4>2 DEF k
    <3>1. FindsPath(x, q) <=> q[1] \in Subtrees(x)
                              /\ (Tail(q) = <<"">> \/ FindsPath(x[q[1]].tree, Tail(q)))
      BY <2>2, <3>0, FindsPathEquation, SubtreeFacts
    <3>2. CASE q[1] \in DOMAIN x /\ IsDeep(x, q[1])
      <4>1. q[1] \in Subtrees(x)
        BY <3>2, DeepFacts
      <4>2. FindsPath(x[q[1]].tree, Tail(q)) <=> Reaches(x[q[1]].tree, Tail(q))
        BY <1>1, <2>2, <4>1, PathFacts
      <4>3. QED
        BY <2>2, <3>1, <3>2, <4>1, <4>2, ReachesBelow
    <3>3. CASE ~(q[1] \in DOMAIN x /\ IsDeep(x, q[1]))
      <4>1. ASSUME NEW leaf \in Leaves(x), Prefix(q, leaf.path) \/ EndsAtDirectory(q, leaf)
            PROVE  q[1] \in Subtrees(x) /\ Tail(q) = <<"">>
        <5>1. leaf \in LeafRecords
          BY LeavesEquation
        <5>2. leaf.path[1] = q[1]
          BY <2>2, <4>1, <5>1, SeveralNames
        <5>3. q[1] \in DOMAIN x /\ leaf \in LeavesAt(x, q[1])
          BY <5>2, LeafIsAt
        <5>4. leaf = LeafAt(x, q[1])
          BY <3>3, <5>3, DeepFacts
        <5>5. QED
          BY <2>2, <3>3, <4>1, <5>3, <5>4, AtTheTop, EntryFacts
      <4>2. ASSUME q[1] \in Subtrees(x), Tail(q) = <<"">> PROVE Reaches(x, q)
        <5>1. q[1] \in DOMAIN x /\ x[q[1]].type = "tree"
          BY <4>2 DEF Subtrees
        <5>2. LeafAt(x, q[1]) \in Leaves(x)
          BY <3>3, <5>1, DeepFacts, LeafIsAt
        <5>3. EndsAtDirectory(q, LeafAt(x, q[1]))
          BY <2>2, <3>3, <4>2, <5>1, AtTheTop
        <5>4. QED
          BY <5>2, <5>3 DEF Reaches
      <4>3. ASSUME q[1] \in Subtrees(x) PROVE ~FindsPath(x[q[1]].tree, Tail(q))
        <5>1. x[q[1]].tree = EmptyTree /\ x[q[1]].tree \in Trees /\ Tail(q) \in Paths
          BY <2>2, <3>3, <4>3, SubtreeFacts, EntryFacts, PathFacts DEF IsDeep
        <5>2. QED
          BY <5>1, FindsPathEquation, EmptyTreeFacts
      <4>4. QED
        BY <3>1, <4>1, <4>2, <4>3 DEF Reaches
    <3>4. QED
      BY <3>2, <3>3
  <2>3. QED
    BY <2>1, <2>2
<1> HIDE DEF good
<1>2. \A x \in Trees : (\A n \in Subtrees(x) : x[n].tree \in good) => x \in good
  BY <1>1 DEF good
<1>3. Trees \subseteq good
  BY <1>2, TreeInduction
<1>4. QED
  BY <1>3 DEF good

-----------------------------------------------------------------------------
(* Removing a path. *)

LEMMA LastOfTail ==
  ASSUME NEW p \in Paths, Len(p) # 1
  PROVE  Tail(p)[Len(Tail(p))] = p[Len(p)]
<1> DEFINE k == Len(p)
           q == Tail(p)
<1>1. k \in Nat \ {0} /\ k # 1 /\ Len(q) = k - 1
  BY PathFacts
<1>2. Shifted(k - 1, p, q)
  BY ShiftTail
<1> HIDE DEF k, q
<1>3. k - 1 \in 1..k - 1 /\ (k - 1) + 1 = k
  BY <1>1
<1>4. q[k - 1] = p[k]
  BY <1>2, <1>3 DEF Shifted
<1>5. q[Len(q)] = p[k]
  BY <1>1, <1>4
<1>6. QED
  BY <1>5 DEF k, q

(* No leaf has an empty name, so the rest of a path that a leaf has is not *)
(* just a slash.                                                           *)
LEMMA NoEmptyName ==
  ASSUME NEW leaf \in LeafRecords
  PROVE  ~Prefix(<<"">>, leaf.path)
<1> DEFINE k == Len(leaf.path)
           first == leaf.path[1]
<1>1. k \in Nat \ {0} /\ \A i \in 1..k : leaf.path[i] \in Names
  BY LeafFacts
<1> HIDE DEF k
<1>2. 1 \in 1..k
  BY <1>1
<1>3. first # ""
  BY <1>1, <1>2, NamesAssumption
<1>4. Prefix(<<"">>, leaf.path) => first = ""
  <2>1. Prefix(<<"">>, leaf.path) => Agree(1, leaf.path, <<"">>)
    BY DEF Prefix
  <2>2. <<"">>[1] = "" /\ 1 \in 1..1
    OBVIOUS
  <2>3. Agree(1, leaf.path, <<"">>) => first = ""
    BY <2>2 DEF Agree
  <2>4. QED
    BY <2>1, <2>3
<1>5. QED
  BY <1>3, <1>4

(* The leaves that a path leaves to a tree are the ones it is no prefix    *)
(* of; it fails only if there are none to remove, and if it ends in a      *)
(* slash.                                                                  *)
Trims(t, p) ==
  /\ \A u \in RemovePath(t, p) : \A x : x \in Leaves(u) <=> x \in Leaves(t) /\ ~Prefix(p, x.path)
  /\ RemovePath(t, p) = {} <=> \A x \in Leaves(t) : ~Prefix(p, x.path)
  /\ RemovePath(t, p) # {} => p[Len(p)] # ""

LEMMA TrimsName ==
  ASSUME NEW t \in Trees, NEW p \in Paths, Len(p) = 1
  PROVE  Trims(t, p)
<1> DEFINE n == p[1]
           u == Without(t, n)
<1>1. \A v : v \in RemovePath(t, p) <=> n \in DOMAIN t /\ v = u
  BY RemovePathEquation
<1>2. \A x \in Leaves(t) : Prefix(p, x.path) <=> x.path[1] = n
  BY OneName, LeavesEquation
<1>3. /\ DOMAIN u = DOMAIN t \ {n} /\ \A m \in DOMAIN t \ {n} : u[m] = t[m]
      /\ u \in Trees
  BY WithoutFacts, PrunedFacts, NoDeeperIsTree
<1>4. \A x : x.path[1] # n => (x \in Leaves(u) <=> x \in Leaves(t))
  BY <1>3, LeavesElsewhere
<1>5. \A x : x.path[1] = n => x \notin Leaves(u)
  BY <1>3, LeafIsAt
<1>6. n \in DOMAIN t => n # "" /\ \E x \in Leaves(t) : x.path[1] = n
  BY EntryHasLeaf, EntryFacts, NamesAssumption
<1>7. \A x \in Leaves(t) : x.path[1] \in DOMAIN t
  BY LeafIsAt
<1> HIDE DEF u, n
<1>8. \A x : x \in Leaves(u) <=> x \in Leaves(t) /\ ~Prefix(p, x.path)
  BY <1>2, <1>4, <1>5
<1>9. RemovePath(t, p) = {} <=> n \notin DOMAIN t
  BY <1>1
<1>10. n = p[Len(p)]
  BY DEF n
<1>11. QED
  BY <1>1, <1>2, <1>6, <1>7, <1>8, <1>9, <1>10 DEF Trims

LEMMA ReplaceLeaves ==
  ASSUME NEW t \in Trees, NEW p \in Paths, Len(p) # 1, p[1] \in Subtrees(t), IsDeep(t, p[1]),
         NEW s \in Pruned[t[p[1]].tree],
         \A x : x \in Leaves(s) <=> x \in Leaves(t[p[1]].tree) /\ ~Prefix(Tail(p), x.path)
  PROVE  \A x : x \in Leaves(ReplaceSubtree(t, p[1], s)) <=> x \in Leaves(t) /\ ~Prefix(p, x.path)
<1> DEFINE n == p[1]
           u == ReplaceSubtree(t, n, s)
           below == t[n].tree
<1>1. /\ DOMAIN u = IF s = EmptyTree THEN DOMAIN t \ {n} ELSE DOMAIN t
      /\ s # EmptyTree => u[n] = Subtree(s)
      /\ \A m \in DOMAIN t \ {n} : u[m] = t[m]
      /\ u \in Pruned[t]
  BY ReplaceFacts
<1>2. n \in DOMAIN t /\ n \in Names /\ below \in Trees /\ Leaves(below) \subseteq LeafRecords
  BY DeepFacts, SubtreeFacts
<1>3. u \in Trees /\ s \in Trees
  BY <1>1, <1>2, PrunedFacts, NoDeeperIsTree
<1>4. \A x : x \in LeavesAt(t, n) <=> \E leaf \in Leaves(below) : x = Below(n, leaf)
  BY <1>2, DeepFacts
<1>5. \A leaf \in Leaves(below) : Prefix(p, Below(n, leaf).path) <=> Prefix(Tail(p), leaf.path)
  BY <1>2, PrefixBelow
<1>6. \A leaf : leaf \in Leaves(s) <=> leaf \in Leaves(below) /\ ~Prefix(Tail(p), leaf.path)
  OBVIOUS
<1> HIDE DEF u, below
<1>7. ASSUME NEW x, x.path[1] # n PROVE x \in Leaves(u) <=> x \in Leaves(t) /\ ~Prefix(p, x.path)
  <2>1. DOMAIN u \subseteq DOMAIN t /\ \A m \in DOMAIN t \ {n} : m \in DOMAIN u /\ u[m] = t[m]
    BY <1>1
  <2>2. x \in Leaves(u) <=> x \in Leaves(t)
    BY <1>3, <1>7, <2>1, LeavesElsewhere
  <2>3. x \in Leaves(t) => ~Prefix(p, x.path)
    BY <1>7, LeavesEquation, SeveralNames
  <2>4. QED
    BY <2>2, <2>3
<1>8. ASSUME NEW x, x.path[1] = n PROVE x \in Leaves(u) <=> x \in Leaves(t) /\ ~Prefix(p, x.path)
  <2>1. x \in Leaves(t) <=> \E leaf \in Leaves(below) : x = Below(n, leaf)
    BY <1>2, <1>4, <1>8, LeafIsAt
  <2>2. CASE s = EmptyTree
    <3>1. x \notin Leaves(u)
      BY <1>1, <1>3, <1>8, <2>2, LeafIsAt
    <3>2. \A leaf \in Leaves(below) : Prefix(Tail(p), leaf.path)
      BY <1>3, <1>6, <2>2, EmptyLeaves
    <3>3. QED
      BY <1>5, <2>1, <3>1, <3>2
  <2>3. CASE s # EmptyTree
    <3>1. n \in DOMAIN u /\ u[n].type = "tree" /\ u[n].tree = s
      BY <1>1, <1>2, <2>3 DEF Subtree
    <3>2. IsDeep(u, n)
      BY <2>3, <3>1 DEF IsDeep
    <3>3. \A y : y \in LeavesAt(u, n) <=> \E leaf \in Leaves(s) : y = Below(n, leaf)
      BY <1>3, <3>1, <3>2, DeepFacts
    <3>4. x \in Leaves(u) <=> \E leaf \in Leaves(s) : x = Below(n, leaf)
      BY <1>3, <1>8, <3>1, <3>3, LeafIsAt
    <3>5. QED
      BY <1>5, <1>6, <2>1, <3>4
  <2>4. QED
    BY <2>2, <2>3
<1>9. QED
  BY <1>7, <1>8 DEF u

LEMMA TrimsPath ==
  ASSUME NEW t \in Trees, NEW p \in Paths, Len(p) # 1,
         p[1] \in Subtrees(t) => Trims(t[p[1]].tree, Tail(p))
  PROVE  Trims(t, p)
<1> DEFINE n == p[1]
           q == Tail(p)
           below == t[n].tree
<1>1. \A u : u \in RemovePath(t, p) <=>
              /\ n # "" /\ q # <<"">> /\ n \in Subtrees(t)
              /\ \E s \in RemovePath(below, q) : u = ReplaceSubtree(t, n, s)
  BY RemovePathEquation DEF CutBelow
<1>2. q \in Paths
  BY PathFacts
<1>3. ASSUME n \in Subtrees(t), RemovePath(below, q) # {} PROVE IsDeep(t, n)
  <2>1. below \in Trees /\ t[n].type = "tree"
    BY <1>3, SubtreeFacts DEF Subtrees
  <2>2. below # EmptyTree
    BY <1>2, <1>3, <2>1, RemovePathEquation, EmptyTreeFacts DEF CutBelow, Subtrees
  <2>3. QED
    BY <2>1, <2>2 DEF IsDeep
<1>4. ASSUME NEW u \in RemovePath(t, p), NEW x
      PROVE  x \in Leaves(u) <=> x \in Leaves(t) /\ ~Prefix(p, x.path)
  <2>1. PICK s \in RemovePath(below, q) : n \in Subtrees(t) /\ u = ReplaceSubtree(t, n, s)
    BY <1>1
  <2>2. IsDeep(t, n) /\ s \in Pruned[below]
    BY <1>2, <1>3, <2>1, RemovePathEquation, SubtreeFacts
  <2>3. \A y : y \in Leaves(s) <=> y \in Leaves(below) /\ ~Prefix(q, y.path)
    BY <2>1 DEF Trims
  <2>4. QED
    BY <2>1, <2>2, <2>3, ReplaceLeaves
<1>5. ASSUME RemovePath(t, p) # {}
      PROVE  p[Len(p)] # "" /\ \E x \in Leaves(t) : Prefix(p, x.path)
  <2>1. PICK s \in RemovePath(below, q) : n \in Subtrees(t)
    BY <1>1, <1>5
  <2>2. IsDeep(t, n) /\ n \in DOMAIN t
    BY <1>3, <2>1, SubtreeFacts
  <2>3. q[Len(q)] # "" /\ \E leaf \in Leaves(below) : Prefix(q, leaf.path)
    BY <2>1 DEF Trims
  <2>4. PICK leaf \in Leaves(below) : Prefix(q, leaf.path)
    BY <2>3
  <2>5. leaf \in LeafRecords /\ n \in Names /\ Below(n, leaf) \in Leaves(t)
    BY <2>2, DeepFacts, LeafIsAt
  <2>6. Prefix(p, Below(n, leaf).path)
    BY <2>4, <2>5, PrefixBelow
  <2>7. QED
    BY <2>3, <2>5, <2>6, LastOfTail
<1>6. ASSUME NEW x \in Leaves(t), Prefix(p, x.path) PROVE RemovePath(t, p) # {}
  <2>1. x \in LeafRecords
    BY LeavesEquation
  <2>2. x.path[1] = n
    BY <1>6, <2>1, SeveralNames
  <2>3. n \in DOMAIN t /\ x \in LeavesAt(t, n)
    BY <2>2, LeafIsAt
  <2>4. IsDeep(t, n)
    <3>1. SUFFICES ASSUME ~IsDeep(t, n) PROVE FALSE
      OBVIOUS
    <3>2. x = LeafAt(t, n)
      BY <2>3, <3>1, DeepFacts
    <3>3. ~Prefix(p, LeafAt(t, n).path)
      BY <2>3, <3>1, AtTheTop
    <3>4. QED
      BY <1>6, <3>2, <3>3
  <2>5. PICK leaf \in Leaves(below) : x = Below(n, leaf)
    BY <2>3, <2>4, DeepFacts
  <2>6. leaf \in LeafRecords /\ n \in Names /\ n \in Subtrees(t)
    BY <2>3, <2>4, DeepFacts
  <2>7. Prefix(q, leaf.path)
    BY <1>6, <2>5, <2>6, PrefixBelow
  <2>8. q # <<"">> /\ n # ""
    BY <2>6, <2>7, NoEmptyName, NamesAssumption
  <2>9. PICK s : s \in RemovePath(below, q)
    BY <2>6, <2>7 DEF Trims
  <2>10. ReplaceSubtree(t, n, s) \in RemovePath(t, p)
    BY <1>1, <2>6, <2>8, <2>9
  <2>11. QED
    BY <2>10
<1>7. QED
  BY <1>4, <1>5, <1>6 DEF Trims

LEMMA RemovePathTrims ==
  ASSUME NEW t \in Trees, NEW p \in Paths
  PROVE  Trims(t, p)
<1> DEFINE good == {x \in Trees : \A q \in Paths : Trims(x, q)}
<1>1. ASSUME NEW x \in Trees, \A n \in Subtrees(x) : x[n].tree \in good, NEW q \in Paths
      PROVE  Trims(x, q)
  <2>1. CASE Len(q) = 1
    BY <2>1, TrimsName
  <2>2. CASE Len(q) # 1
    BY <1>1, <2>2, TrimsPath, PathFacts
  <2>3. QED
    BY <2>1, <2>2
<1> HIDE DEF good
<1>2. \A x \in Trees : (\A n \in Subtrees(x) : x[n].tree \in good) => x \in good
  BY <1>1 DEF good
<1>3. Trees \subseteq good
  BY <1>2, TreeInduction
<1>4. QED
  BY <1>3 DEF good

-----------------------------------------------------------------------------
(* Removing files by what they are. *)

(* Leaves that are lost wherever they are, directories never. *)
LostAnywhere(lost) ==
  /\ \A t \in Trees : \A n \in Subtrees(t) : LeafAt(t, n) \notin lost
  /\ \A n \in Names : \A leaf \in LeafRecords : Below(n, leaf) \in lost <=> leaf \in lost

(* Without the directories that have nothing left, which is what Rebuild   *)
(* is careful about, the leaves that remain are the ones not lost.         *)
LEMMA RebuildLeaves ==
  ASSUME NEW lost, LostAnywhere(lost), NEW t \in Trees, NEW kept, kept \subseteq DOMAIN t,
         \A n \in DOMAIN t : n \in kept <=> n \in Subtrees(t) \/ LeafAt(t, n) \notin lost,
         NEW subs, DOMAIN subs = Subtrees(t),
         \A n \in Subtrees(t) :
           /\ subs[n] \in Pruned[t[n].tree]
           /\ \A x : x \in Leaves(subs[n]) <=> x \in Leaves(t[n].tree) /\ x \notin lost
  PROVE  \A x : x \in Leaves(Rebuild(t, kept, subs)) <=> x \in Leaves(t) /\ x \notin lost
<1> DEFINE u == Rebuild(t, kept, subs)
<1>1. \A n : n \in DOMAIN u <=>
           n \in kept /\ ~(n \in Subtrees(t) /\ subs[n] # t[n].tree /\ subs[n] = EmptyTree)
  BY DEF Rebuild
<1>2. \A n \in DOMAIN u : u[n] = IF n \in Subtrees(t) THEN Subtree(subs[n]) ELSE t[n]
  BY DEF Rebuild
<1>3. u \in Trees
  BY RebuildPrunes, PrunedFacts
<1> HIDE DEF u
<1> SUFFICES ASSUME NEW x PROVE x \in Leaves(u) <=> x \in Leaves(t) /\ x \notin lost
  BY DEF u
<1> DEFINE n == x.path[1]
<1>4. /\ x \in Leaves(u) <=> n \in DOMAIN u /\ x \in LeavesAt(u, n)
      /\ x \in Leaves(t) <=> n \in DOMAIN t /\ x \in LeavesAt(t, n)
  BY <1>3, LeafIsAt
<1> HIDE DEF n
<1>5. CASE n \notin DOMAIN t
  BY <1>1, <1>4, <1>5
<1>6. CASE n \in DOMAIN t \ Subtrees(t)
  <2>1. ~IsDeep(t, n)
    BY <1>6, DeepFacts
  <2>2. LeavesAt(t, n) = {LeafAt(t, n)}
    BY <1>6, <2>1, DeepFacts
  <2>3. n \in DOMAIN u <=> LeafAt(t, n) \notin lost
    BY <1>1, <1>6
  <2>4. n \in DOMAIN u => u[n] = t[n]
    BY <1>2, <1>6
  <2>5. n \in DOMAIN u => LeavesAt(u, n) = LeavesAt(t, n)
    BY <2>4 DEF LeavesAt, Gathered, IsDeep, LeafAt
  <2>6. QED
    BY <1>4, <1>6, <2>2, <2>3, <2>5
<1>7. CASE n \in Subtrees(t) /\ ~IsDeep(t, n)
  <2>1. n \in DOMAIN t /\ t[n] = Subtree(EmptyTree) /\ t[n].tree = EmptyTree /\ EmptyTree \in Trees
    BY <1>7, SubtreeFacts DEF IsDeep, Subtrees
  <2>2. subs[n] \in Trees /\ Leaves(subs[n]) = {}
    BY <1>7, <2>1, PrunedFacts, EmptyLeaves
  <2>3. subs[n] = EmptyTree
    BY <2>2, EmptyLeaves
  <2>4. n \in DOMAIN u /\ u[n] = t[n]
    BY <1>1, <1>2, <1>7, <2>1, <2>3
  <2>5. LeavesAt(u, n) = LeavesAt(t, n)
    BY <2>4 DEF LeavesAt, Gathered, IsDeep, LeafAt
  <2>6. LeavesAt(t, n) = {LeafAt(t, n)} /\ LeafAt(t, n) \notin lost
    BY <1>7, <2>1, DeepFacts DEF LostAnywhere
  <2>7. QED
    BY <1>4, <2>1, <2>4, <2>5, <2>6
<1>8. CASE n \in Subtrees(t) /\ IsDeep(t, n)
  <2>1. /\ n \in DOMAIN t /\ n \in Names
        /\ t[n].tree \in Trees /\ t[n].tree # EmptyTree /\ Leaves(t[n].tree) \subseteq LeafRecords
    BY <1>8, SubtreeFacts, DeepFacts DEF IsDeep
  <2>2. x \in Leaves(t) <=> \E leaf \in Leaves(t[n].tree) : x = Below(n, leaf)
    BY <1>4, <1>8, <2>1, DeepFacts
  <2>3. \A leaf \in Leaves(t[n].tree) : Below(n, leaf) \in lost <=> leaf \in lost
    BY <2>1 DEF LostAnywhere
  <2>4. /\ subs[n] \in Trees
        /\ \A y : y \in Leaves(subs[n]) <=> y \in Leaves(t[n].tree) /\ y \notin lost
    BY <1>8, <2>1, PrunedFacts
  <2>5. CASE subs[n] = EmptyTree
    <3>1. n \notin DOMAIN u
      BY <1>1, <1>8, <2>1, <2>5
    <3>2. Leaves(subs[n]) = {}
      BY <2>4, <2>5, EmptyLeaves
    <3>3. QED
      BY <1>4, <2>2, <2>3, <2>4, <3>1, <3>2
  <2>6. CASE subs[n] # EmptyTree
    <3>1. n \in DOMAIN u /\ u[n].type = "tree" /\ u[n].tree = subs[n]
      BY <1>1, <1>2, <1>8, <2>1, <2>6 DEF Subtree
    <3>2. IsDeep(u, n)
      BY <2>6, <3>1 DEF IsDeep
    <3>3. x \in Leaves(u) <=> \E leaf \in Leaves(subs[n]) : x = Below(n, leaf)
      BY <1>3, <1>4, <3>1, <3>2, DeepFacts
    <3>4. QED
      BY <2>2, <2>3, <2>4, <3>3
  <2>7. QED
    BY <2>5, <2>6
<1>9. QED
  BY <1>5, <1>6, <1>7, <1>8

(* A search of the files of a tree and of its directories finds whether it *)
(* has a leaf that is looked for.                                          *)
LEMMA SearchLeaves ==
  ASSUME NEW lost, LostAnywhere(lost), NEW found,
         \A t \in Trees : t \in found <=>
           \/ \E n \in DOMAIN t \ Subtrees(t) : LeafAt(t, n) \in lost
           \/ \E n \in Subtrees(t) : t[n].tree \in found
  PROVE  \A t \in Trees : t \in found <=> \E x \in Leaves(t) : x \in lost
<1> DEFINE good == {t \in Trees : t \in found <=> \E x \in Leaves(t) : x \in lost}
<1>1. ASSUME NEW t \in Trees, \A n \in Subtrees(t) : t[n].tree \in good,
             NEW x \in Leaves(t), x \in lost
      PROVE  t \in found
  <2> DEFINE n == x.path[1]
  <2>1. n \in DOMAIN t /\ x \in LeavesAt(t, n)
    BY LeafIsAt
  <2> HIDE DEF n
  <2>2. CASE IsDeep(t, n)
    <3>1. n \in Subtrees(t) /\ n \in Names /\ Leaves(t[n].tree) \subseteq LeafRecords
      BY <2>1, <2>2, DeepFacts
    <3>2. PICK leaf \in Leaves(t[n].tree) : x = Below(n, leaf)
      BY <2>1, <2>2, DeepFacts
    <3>3. leaf \in lost
      BY <1>1, <3>1, <3>2 DEF LostAnywhere
    <3>4. t[n].tree \in found
      BY <1>1, <3>1, <3>2, <3>3
    <3>5. QED
      BY <3>1, <3>4
  <2>3. CASE ~IsDeep(t, n)
    <3>1. x = LeafAt(t, n)
      BY <2>1, <2>3, DeepFacts
    <3>2. n \notin Subtrees(t)
      BY <1>1, <3>1 DEF LostAnywhere
    <3>3. QED
      BY <1>1, <2>1, <3>1, <3>2
  <2>4. QED
    BY <2>2, <2>3
<1>2. ASSUME NEW t \in Trees, NEW n \in DOMAIN t \ Subtrees(t), LeafAt(t, n) \in lost
      PROVE  \E x \in Leaves(t) : x \in lost
  <2>1. ~IsDeep(t, n)
    BY DeepFacts
  <2>2. LeafAt(t, n) \in Leaves(t)
    BY <2>1, DeepFacts, LeafIsAt
  <2>3. QED
    BY <1>2, <2>2
<1>3. ASSUME NEW t \in Trees, NEW n \in Subtrees(t), t[n].tree \in good, t[n].tree \in found
      PROVE  \E x \in Leaves(t) : x \in lost
  <2>1. n \in DOMAIN t /\ t[n].type = "tree" /\ t[n].tree \in Trees
    BY SubtreeFacts DEF Subtrees
  <2>2. PICK leaf \in Leaves(t[n].tree) : leaf \in lost
    BY <1>3
  <2>3. IsDeep(t, n)
    BY <2>1, <2>2, EmptyLeaves DEF IsDeep
  <2>4. Below(n, leaf) \in Leaves(t) /\ n \in Names /\ leaf \in LeafRecords
    BY <2>1, <2>2, <2>3, DeepFacts, LeafIsAt
  <2>5. Below(n, leaf) \in lost
    BY <2>2, <2>4 DEF LostAnywhere
  <2>6. QED
    BY <2>4, <2>5
<1>4. ASSUME NEW t \in Trees, \A n \in Subtrees(t) : t[n].tree \in good PROVE t \in good
  BY <1>1, <1>2, <1>3, <1>4
<1> HIDE DEF good
<1>5. Trees \subseteq good
  BY <1>4, TreeInduction
<1>6. QED
  BY <1>5 DEF good

-----------------------------------------------------------------------------
(* Rules. *)

Lost(rule) == {x \in LeafRecords : Removes(rule, x)}

LEMMA LastBelow ==
  ASSUME NEW n \in Names, NEW leaf \in LeafRecords
  PROVE  Below(n, leaf).path[Len(Below(n, leaf).path)] = leaf.path[Len(leaf.path)]
<1> DEFINE path == Below(n, leaf).path
           m == Len(leaf.path)
<1>1. Shifted(m, path, leaf.path) /\ Len(path) = m + 1 /\ m \in Nat \ {0}
  BY ShiftBelow
<1> HIDE DEF path, m
<1>2. m \in 1..m
  BY <1>1
<1>3. path[m + 1] = leaf.path[m]
  BY <1>1, <1>2 DEF Shifted
<1>4. path[Len(path)] = leaf.path[m]
  BY <1>1, <1>3
<1>5. QED
  BY <1>4 DEF path, m

LEMMA TopFacts ==
  ASSUME NEW t \in Trees, NEW n \in DOMAIN t, ~IsDeep(t, n)
  PROVE  /\ LeafAt(t, n) \in LeafRecords /\ LeafAt(t, n).entry = t[n]
         /\ LeafAt(t, n).path[Len(LeafAt(t, n).path)] = n
<1>1. <<n>>[Len(<<n>>)] = n
  OBVIOUS
<1>2. QED
  BY <1>1, LeafAtFacts

LEMMA FilenameLost ==
  ASSUME NEW rule, rule.kind = "filename"
  PROVE  /\ LostAnywhere(Lost(rule))
         /\ \A t \in Trees : \A n \in DOMAIN t \ Subtrees(t) :
              LeafAt(t, n) \in Lost(rule) <=> n = rule.name
<1>1. \A x : x \in Lost(rule) <=>
        x \in LeafRecords /\ x.entry.type # "tree" /\ x.path[Len(x.path)] = rule.name
  BY DEF Lost, Removes
<1>2. ASSUME NEW t \in Trees, NEW n \in Subtrees(t) PROVE LeafAt(t, n) \notin Lost(rule)
  BY <1>1 DEF LeafAt, Subtrees
<1>3. ASSUME NEW n \in Names, NEW leaf \in LeafRecords
      PROVE  Below(n, leaf) \in Lost(rule) <=> leaf \in Lost(rule)
  BY <1>1, BelowFacts, LastBelow
<1>4. ASSUME NEW t \in Trees, NEW n \in DOMAIN t \ Subtrees(t)
      PROVE  LeafAt(t, n) \in Lost(rule) <=> n = rule.name
  <2>1. ~IsDeep(t, n) /\ t[n].type # "tree"
    BY DeepFacts DEF Subtrees
  <2>2. QED
    BY <1>1, <2>1, TopFacts
<1>5. QED
  BY <1>2, <1>3, <1>4 DEF LostAnywhere

LEMMA LargeLost ==
  ASSUME NEW rule, rule.kind = "large"
  PROVE  /\ LostAnywhere(Lost(rule))
         /\ \A t \in Trees : \A n \in DOMAIN t \ Subtrees(t) :
              LeafAt(t, n) \in Lost(rule) <=> t[n].type = "blob" /\ t[n].size > rule.max
<1>1. \A x : x \in Lost(rule) <=>
        x \in LeafRecords /\ x.entry.type = "blob" /\ x.entry.size > rule.max
  BY DEF Lost, Removes
<1>2. ASSUME NEW t \in Trees, NEW n \in Subtrees(t) PROVE LeafAt(t, n) \notin Lost(rule)
  BY <1>1 DEF LeafAt, Subtrees
<1>3. ASSUME NEW n \in Names, NEW leaf \in LeafRecords
      PROVE  Below(n, leaf) \in Lost(rule) <=> leaf \in Lost(rule)
  BY <1>1, BelowFacts
<1>4. ASSUME NEW t \in Trees, NEW n \in DOMAIN t \ Subtrees(t)
      PROVE  LeafAt(t, n) \in Lost(rule) <=> t[n].type = "blob" /\ t[n].size > rule.max
  <2>1. ~IsDeep(t, n)
    BY DeepFacts
  <2>2. QED
    BY <1>1, <2>1, TopFacts
<1>5. QED
  BY <1>2, <1>3, <1>4 DEF LostAnywhere

LEMMA RemoveFilenameLeaves ==
  ASSUME NEW rule, rule.kind = "filename", NEW t \in Trees
  PROVE  \A x : x \in Leaves(RemoveFilename(t, rule.name)) <=> x \in Leaves(t) /\ x \notin Lost(rule)
<1> DEFINE cleaned(y) == RemoveFilename(y, rule.name)
           good == {y \in Trees : \A x : x \in Leaves(cleaned(y)) <=> x \in Leaves(y) /\ x \notin Lost(rule)}
<1>1. ASSUME NEW y \in Trees, \A n \in Subtrees(y) : y[n].tree \in good
      PROVE  \A x : x \in Leaves(cleaned(y)) <=> x \in Leaves(y) /\ x \notin Lost(rule)
  <2> DEFINE kept == FilenameKept(y, rule.name)
             subs == [n \in Subtrees(y) |-> cleaned(y[n].tree)]
  <2>1. cleaned(y) = Rebuild(y, kept, subs)
    BY RemoveFilenameEquation
  <2>2. kept \subseteq DOMAIN y
    BY DEF FilenameKept
  <2>3. \A n \in DOMAIN y : n \in kept <=> n \in Subtrees(y) \/ LeafAt(y, n) \notin Lost(rule)
    BY FilenameLost DEF FilenameKept, Subtrees
  <2>4. /\ DOMAIN subs = Subtrees(y)
        /\ \A n \in Subtrees(y) : /\ subs[n] \in Pruned[y[n].tree]
                                  /\ \A x : x \in Leaves(subs[n]) <=> x \in Leaves(y[n].tree) /\ x \notin Lost(rule)
    BY <1>1, SubtreeFacts, RemoveFilenameEquation
  <2> HIDE DEF kept, subs, cleaned
  <2>5. LostAnywhere(Lost(rule))
    BY FilenameLost
  <2>6. QED
    BY <2>1, <2>2, <2>3, <2>4, <2>5, RebuildLeaves
<1> HIDE DEF cleaned
<1>2. \A y \in Trees : (\A n \in Subtrees(y) : y[n].tree \in good) => y \in good
  BY <1>1
<1> HIDE DEF good
<1>3. Trees \subseteq good
  BY <1>2, TreeInduction
<1>4. QED
  BY <1>3 DEF good, cleaned

LEMMA RemoveLargeBlobsLeaves ==
  ASSUME NEW rule, rule.kind = "large", rule.max \in Nat, NEW t \in Trees
  PROVE  \A x : x \in Leaves(RemoveLargeBlobs(t, rule.max)) <=> x \in Leaves(t) /\ x \notin Lost(rule)
<1> DEFINE cleaned(y) == RemoveLargeBlobs(y, rule.max)
           good == {y \in Trees : \A x : x \in Leaves(cleaned(y)) <=> x \in Leaves(y) /\ x \notin Lost(rule)}
<1>1. ASSUME NEW y \in Trees, \A n \in Subtrees(y) : y[n].tree \in good
      PROVE  \A x : x \in Leaves(cleaned(y)) <=> x \in Leaves(y) /\ x \notin Lost(rule)
  <2> DEFINE kept == SmallKept(y, rule.max)
             subs == [n \in Subtrees(y) |-> cleaned(y[n].tree)]
  <2>1. cleaned(y) = Rebuild(y, kept, subs)
    BY RemoveLargeBlobsEquation
  <2>2. kept \subseteq DOMAIN y
    BY DEF SmallKept
  <2>3. \A n \in DOMAIN y : n \in kept <=> n \in Subtrees(y) \/ LeafAt(y, n) \notin Lost(rule)
    <3>1. SUFFICES ASSUME NEW n \in DOMAIN y
                   PROVE  n \in kept <=> n \in Subtrees(y) \/ LeafAt(y, n) \notin Lost(rule)
      OBVIOUS
    <3>2. CASE n \in Subtrees(y)
      BY <3>2 DEF SmallKept, Subtrees
    <3>3. CASE n \notin Subtrees(y)
      <4>1. LeafAt(y, n) \in Lost(rule) <=> y[n].type = "blob" /\ y[n].size > rule.max
        BY <3>3, LargeLost
      <4>2. y[n].type = "blob" => y[n].size \in Nat
        BY EntryFacts
      <4>3. y[n].type = "blob" => (y[n].size <= rule.max <=> ~(y[n].size > rule.max))
        BY <4>2
      <4>4. QED
        BY <3>3, <4>1, <4>3 DEF SmallKept
    <3>4. QED
      BY <3>2, <3>3
  <2>4. /\ DOMAIN subs = Subtrees(y)
        /\ \A n \in Subtrees(y) : /\ subs[n] \in Pruned[y[n].tree]
                                  /\ \A x : x \in Leaves(subs[n]) <=> x \in Leaves(y[n].tree) /\ x \notin Lost(rule)
    BY <1>1, SubtreeFacts, RemoveLargeBlobsEquation
  <2> HIDE DEF kept, subs, cleaned
  <2>5. LostAnywhere(Lost(rule))
    BY LargeLost
  <2>6. QED
    BY <2>1, <2>2, <2>3, <2>4, <2>5, RebuildLeaves
<1> HIDE DEF cleaned
<1>2. \A y \in Trees : (\A n \in Subtrees(y) : y[n].tree \in good) => y \in good
  BY <1>1
<1> HIDE DEF good
<1>3. Trees \subseteq good
  BY <1>2, TreeInduction
<1>4. QED
  BY <1>3 DEF good, cleaned

LEMMA ContainsFilenameLeaves ==
  ASSUME NEW rule, rule.kind = "filename", NEW t \in Trees
  PROVE  ContainsFilename(t, rule.name) <=> \E x \in Leaves(t) : x \in Lost(rule)
<1> DEFINE found == {y \in Trees : ContainsFilename(y, rule.name)}
<1>1. ASSUME NEW y \in Trees
      PROVE  y \in found <=> \/ \E n \in DOMAIN y \ Subtrees(y) : LeafAt(y, n) \in Lost(rule)
                            \/ \E n \in Subtrees(y) : y[n].tree \in found
  <2>1. rule.name \in DOMAIN y \ Subtrees(y)
          <=> \E n \in DOMAIN y \ Subtrees(y) : LeafAt(y, n) \in Lost(rule)
    BY FilenameLost
  <2>2. \A n \in Subtrees(y) : y[n].tree \in found <=> ContainsFilename(y[n].tree, rule.name)
    BY SubtreeFacts
  <2>3. QED
    BY <2>1, <2>2, ContainsFilenameEquation
<1> HIDE DEF found
<1>2. LostAnywhere(Lost(rule))
  BY FilenameLost
<1>3. \A y \in Trees : y \in found <=> \E x \in Leaves(y) : x \in Lost(rule)
  BY <1>1, <1>2, SearchLeaves
<1>4. QED
  BY <1>3 DEF found

LEMMA ContainsLargeBlobLeaves ==
  ASSUME NEW rule, rule.kind = "large", NEW t \in Trees
  PROVE  ContainsLargeBlob(t, rule.max) <=> \E x \in Leaves(t) : x \in Lost(rule)
<1> DEFINE found == {y \in Trees : ContainsLargeBlob(y, rule.max)}
<1>1. ASSUME NEW y \in Trees
      PROVE  y \in found <=> \/ \E n \in DOMAIN y \ Subtrees(y) : LeafAt(y, n) \in Lost(rule)
                            \/ \E n \in Subtrees(y) : y[n].tree \in found
  <2>1. (\E n \in DOMAIN y : y[n].type = "blob" /\ y[n].size > rule.max)
          <=> \E n \in DOMAIN y \ Subtrees(y) : LeafAt(y, n) \in Lost(rule)
    BY LargeLost DEF Subtrees
  <2>2. \A n \in Subtrees(y) : y[n].tree \in found <=> ContainsLargeBlob(y[n].tree, rule.max)
    BY SubtreeFacts
  <2>3. QED
    BY <2>1, <2>2, ContainsLargeBlobEquation
<1> HIDE DEF found
<1>2. LostAnywhere(Lost(rule))
  BY LargeLost
<1>3. \A y \in Trees : y \in found <=> \E x \in Leaves(y) : x \in Lost(rule)
  BY <1>1, <1>2, SearchLeaves
<1>4. QED
  BY <1>3 DEF found

(* What a rule matches: a leaf it removes, or the directory its path names *)
(* with a slash, which it fails over.                                      *)
Touches(rule, x) == Removes(rule, x) \/ (rule.kind = "path" /\ EndsAtDirectory(rule.path, x))

LEMMA PathRemoves ==
  ASSUME NEW rule, rule.kind = "path", rule.path \in Paths, NEW x
  PROVE  Removes(rule, x) <=> Prefix(rule.path, x.path)
<1>1. DOMAIN rule.path = 1..Len(rule.path)
  BY PathFacts
<1>2. Removes(rule, x) <=> Len(rule.path) <= Len(x.path)
                           /\ \A i \in DOMAIN rule.path : x.path[i] = rule.path[i]
  BY DEF Removes
<1>3. QED
  BY <1>1, <1>2 DEF Prefix, Agree

LEMMA MatchesLeaves ==
  ASSUME NEW rule, IsRule(rule), NEW t \in Trees
  PROVE  RuleMatches(rule, t) <=> \E x \in Leaves(t) : Touches(rule, x)
<1>1. CASE rule.kind = "path" /\ rule.path \in Paths
  <2>1. RuleMatches(rule, t) <=> Reaches(t, rule.path)
    BY <1>1, FindsPathReaches DEF RuleMatches
  <2>2. \A x : Touches(rule, x) <=> Prefix(rule.path, x.path) \/ EndsAtDirectory(rule.path, x)
    BY <1>1, PathRemoves DEF Touches
  <2>3. QED
    BY <2>1, <2>2 DEF Reaches
<1>2. CASE rule.kind = "filename"
  <2>1. RuleMatches(rule, t) <=> \E x \in Leaves(t) : x \in Lost(rule)
    BY <1>2, ContainsFilenameLeaves DEF RuleMatches
  <2>2. \A x \in Leaves(t) : x \in Lost(rule) <=> Touches(rule, x)
    BY <1>2, LeavesEquation DEF Touches, Lost
  <2>3. QED
    BY <2>1, <2>2
<1>3. CASE rule.kind = "large"
  <2>1. RuleMatches(rule, t) <=> \E x \in Leaves(t) : x \in Lost(rule)
    BY <1>3, ContainsLargeBlobLeaves DEF RuleMatches
  <2>2. \A x \in Leaves(t) : x \in Lost(rule) <=> Touches(rule, x)
    BY <1>3, LeavesEquation DEF Touches, Lost
  <2>3. QED
    BY <2>1, <2>2
<1>4. QED
  BY <1>1, <1>2, <1>3 DEF IsRule

(* What a rule makes of a tree: it keeps the leaves it does not remove,    *)
(* and no longer matches; it fails only if it is a path.                   *)
LEMMA ApplyLeaves ==
  ASSUME NEW rule, IsRule(rule), NEW t \in Trees
  PROVE  /\ \A u \in ApplyRule(rule, t) :
              /\ u \in Trees
              /\ \A x : x \in Leaves(u) <=> x \in Leaves(t) /\ ~Removes(rule, x)
              /\ ~RuleMatches(rule, u)
         /\ ApplyRule(rule, t) = {} =>
              /\ rule.kind = "path" /\ rule.path \in Paths
              /\ \A x \in Leaves(t) : ~Removes(rule, x)
         /\ rule.kind = "path" /\ ApplyRule(rule, t) # {} =>
              \E x \in Leaves(t) : Removes(rule, x)
<1>1. CASE rule.kind = "path" /\ rule.path \in Paths
  <2>1. ApplyRule(rule, t) = RemovePath(t, rule.path) /\ Trims(t, rule.path)
    BY <1>1, RemovePathTrims DEF ApplyRule
  <2>2. \A x : Removes(rule, x) <=> Prefix(rule.path, x.path)
    BY <1>1, PathRemoves
  <2>3. ASSUME NEW u \in ApplyRule(rule, t)
        PROVE  /\ u \in Trees
               /\ \A x : x \in Leaves(u) <=> x \in Leaves(t) /\ ~Removes(rule, x)
               /\ ~RuleMatches(rule, u)
    <3>1. \A x : x \in Leaves(u) <=> x \in Leaves(t) /\ ~Removes(rule, x)
      BY <2>1, <2>2, <2>3 DEF Trims
    <3>2. u \in Trees
      BY <1>1, <2>1, <2>3, RemovePathEquation, PrunedFacts
    <3>3. rule.path[Len(rule.path)] # ""
      BY <2>1, <2>3 DEF Trims
    <3>4. \A x \in Leaves(u) : ~Touches(rule, x)
      BY <3>1, <3>3 DEF Touches, EndsAtDirectory
    <3>5. QED
      BY <3>1, <3>2, <3>4, MatchesLeaves
  <2>4. QED
    BY <1>1, <2>1, <2>2, <2>3 DEF Trims
<1>2. CASE rule.kind # "path"
  <2>1. ASSUME NEW u, u \in Trees,
               \A x : x \in Leaves(u) <=> x \in Leaves(t) /\ x \notin Lost(rule)
        PROVE  /\ \A x : x \in Leaves(u) <=> x \in Leaves(t) /\ ~Removes(rule, x)
               /\ ~RuleMatches(rule, u)
    <3>1. \A x : x \in Leaves(u) <=> x \in Leaves(t) /\ ~Removes(rule, x)
      BY <2>1, LeavesEquation DEF Lost
    <3>2. \A x \in Leaves(u) : ~Touches(rule, x)
      BY <1>2, <3>1 DEF Touches
    <3>3. QED
      BY <2>1, <3>1, <3>2, MatchesLeaves
  <2>2. CASE rule.kind = "filename"
    <3> DEFINE u == RemoveFilename(t, rule.name)
    <3>1. ApplyRule(rule, t) = {u}
      BY <2>2 DEF ApplyRule
    <3>2. u \in Trees
      BY RemoveFilenameEquation, PrunedFacts
    <3>3. \A x : x \in Leaves(u) <=> x \in Leaves(t) /\ x \notin Lost(rule)
      BY <2>2, RemoveFilenameLeaves
    <3> HIDE DEF u
    <3>4. QED
      BY <1>2, <2>1, <3>1, <3>2, <3>3
  <2>3. CASE rule.kind = "large" /\ rule.max \in Nat
    <3> DEFINE u == RemoveLargeBlobs(t, rule.max)
    <3>1. ApplyRule(rule, t) = {u}
      BY <2>3 DEF ApplyRule
    <3>2. u \in Trees
      BY RemoveLargeBlobsEquation, PrunedFacts
    <3>3. \A x : x \in Leaves(u) <=> x \in Leaves(t) /\ x \notin Lost(rule)
      BY <2>3, RemoveLargeBlobsLeaves
    <3> HIDE DEF u
    <3>4. QED
      BY <1>2, <2>1, <3>1, <3>2, <3>3
  <2>4. QED
    BY <1>2, <2>2, <2>3 DEF IsRule
<1>3. QED
  BY <1>1, <1>2 DEF IsRule

LEMMA FewerLeaves ==
  ASSUME NEW rule, IsRule(rule), NEW t \in Trees, NEW u \in Trees, Leaves(u) \subseteq Leaves(t),
         ~RuleMatches(rule, t)
  PROVE  ~RuleMatches(rule, u)
BY MatchesLeaves

-----------------------------------------------------------------------------
(* The state machine. *)

(* The rules that were applied or had nothing to do. *)
Handled == IF pc = "done" THEN DOMAIN filter ELSE {i \in DOMAIN filter : i < next}

TypeInv ==
  /\ mode \in {"history", "commit", "entry"}
  /\ original \in Trees /\ current \in Trees
  /\ filter \in Filters /\ next \in Nat \ {0}
  /\ pc \in {"match", "apply", "done", "failed"}

FilterInv ==
  /\ mode = "entry" => pc # "apply" /\ Len(filter) = 1 /\ filter[1].kind = "path"
  /\ pc = "match" => current = original /\ next = 1
  /\ \A x : x \in Leaves(current) <=>
        x \in Leaves(original) /\ \A i \in Handled : ~Removes(filter[i], x)
  /\ \A i \in Handled : ~RuleMatches(filter[i], current)
  /\ ~FilterMatches(filter, original) => current = original
  /\ pc = "failed" /\ mode # "entry" =>
        next \in DOMAIN filter /\ ApplyRule(filter[next], current) = {}
        /\ RuleMatches(filter[next], current)
  /\ mode = "entry" =>
       /\ pc = "done" => RemovePath(original, filter[1].path) # {}
       /\ pc = "failed" => RemovePath(original, filter[1].path) = {}

Inv == TypeInv /\ FilterInv

LEMMA FilterFacts ==
  ASSUME NEW f \in Filters
  PROVE  /\ Len(f) \in Nat /\ DOMAIN f = 1..Len(f)
         /\ \A i \in DOMAIN f : IsRule(f[i])
BY FiltersAssumption, LenProperties

LEMMA InitInv == Init => Inv
<1> SUFFICES ASSUME Init PROVE Inv
  OBVIOUS
<1>1. TypeInv
  BY OriginalsAssumption DEF Init, TypeInv
<1>2. Handled = {}
  BY FilterFacts DEF Init, Handled
<1>3. QED
  BY <1>1, <1>2 DEF Init, Inv, FilterInv

LEMMA NextInv == Inv /\ [Next]_vars => Inv'
<1> SUFFICES ASSUME Inv, [Next]_vars PROVE Inv'
  OBVIOUS
<1>0. TypeInv /\ FilterInv
  BY DEF Inv
<1>1. /\ Len(filter) \in Nat /\ DOMAIN filter = 1..Len(filter)
      /\ \A i \in DOMAIN filter : IsRule(filter[i])
  BY <1>0, FilterFacts DEF TypeInv
<1>2. CASE MatchFilter
  <2>1. TypeInv'
    BY <1>0, <1>2 DEF TypeInv, MatchFilter
  <2>2. /\ pc = "match" /\ mode # "entry" /\ current = original /\ next = 1
        /\ UNCHANGED <<mode, original, filter, current, next>>
        /\ pc' = "apply" \/ (pc' = "done" /\ ~FilterMatches(filter, original))
    BY <1>0, <1>2 DEF MatchFilter, FilterInv
  <2>3. CASE pc' = "apply"
    <3>1. Handled' = Handled
      BY <2>2, <2>3 DEF Handled
    <3>2. QED
      BY <1>0, <2>1, <2>2, <2>3, <3>1 DEF Inv, FilterInv
  <2>4. CASE pc' = "done" /\ ~FilterMatches(filter, original)
    <3>1. Handled' = DOMAIN filter
      BY <2>2, <2>4 DEF Handled
    <3>2. \A i \in DOMAIN filter : ~RuleMatches(filter[i], original)
      BY <2>4 DEF FilterMatches
    <3>3. \A i \in DOMAIN filter : \A x \in Leaves(original) : ~Removes(filter[i], x)
      BY <1>0, <1>1, <3>2, MatchesLeaves DEF Touches, TypeInv
    <3>4. QED
      BY <1>0, <2>1, <2>2, <2>4, <3>1, <3>2, <3>3 DEF Inv, FilterInv
  <2>5. QED
    BY <2>2, <2>3, <2>4
<1>3. CASE SkipRule
  <2>1. TypeInv'
    BY <1>0, <1>3 DEF TypeInv, SkipRule
  <2>2. /\ pc = "apply" /\ next \in DOMAIN filter /\ ~RuleMatches(filter[next], current)
        /\ next' = next + 1 /\ UNCHANGED <<mode, original, filter, current, pc>>
    BY <1>3 DEF SkipRule
  <2>3. Handled' = Handled \cup {next}
    BY <1>1, <2>2 DEF Handled
  <2>4. \A x \in Leaves(current) : ~Removes(filter[next], x)
    BY <1>0, <1>1, <2>2, MatchesLeaves DEF Touches, TypeInv
  <2>5. QED
    BY <1>0, <2>1, <2>2, <2>3, <2>4 DEF Inv, FilterInv
<1>4. CASE ApplyNextRule
  <2>1. /\ pc = "apply" /\ next \in DOMAIN filter /\ RuleMatches(filter[next], current)
        /\ current' \in ApplyRule(filter[next], current)
        /\ next' = next + 1 /\ UNCHANGED <<mode, original, filter, pc>>
    BY <1>4 DEF ApplyNextRule
  <2>2. /\ current' \in Trees
        /\ \A x : x \in Leaves(current') <=> x \in Leaves(current) /\ ~Removes(filter[next], x)
        /\ ~RuleMatches(filter[next], current')
    BY <1>0, <1>1, <2>1, ApplyLeaves DEF TypeInv
  <2>3. TypeInv'
    BY <1>0, <2>1, <2>2 DEF TypeInv
  <2>4. Handled' = Handled \cup {next} /\ Handled \subseteq DOMAIN filter
    BY <1>1, <2>1 DEF Handled
  <2>5. \A i \in Handled : ~RuleMatches(filter[i], current')
    BY <1>0, <1>1, <2>2, <2>4, FewerLeaves DEF TypeInv, FilterInv
  <2>6. FilterMatches(filter, original)
    BY <1>0, <2>1 DEF FilterInv, FilterMatches
  <2>7. \A x : x \in Leaves(current') <=>
          x \in Leaves(original) /\ \A i \in Handled' : ~Removes(filter[i], x)
    BY <1>0, <2>2, <2>4 DEF FilterInv
  <2>8. QED
    BY <1>0, <2>1, <2>2, <2>3, <2>4, <2>5, <2>6, <2>7 DEF Inv, FilterInv
<1>5. CASE RuleFails
  <2>1. /\ pc = "apply" /\ pc' = "failed" /\ next \in DOMAIN filter
        /\ RuleMatches(filter[next], current) /\ ApplyRule(filter[next], current) = {}
        /\ UNCHANGED <<mode, original, filter, current, next>>
    BY <1>5 DEF RuleFails
  <2>2. Handled' = Handled /\ mode # "entry"
    BY <1>0, <2>1 DEF Handled, FilterInv
  <2>3. QED
    BY <1>0, <2>1, <2>2 DEF Inv, TypeInv, FilterInv
<1>6. CASE Finish
  <2>1. /\ pc = "apply" /\ pc' = "done" /\ next > Len(filter)
        /\ UNCHANGED <<mode, original, filter, current, next>>
    BY <1>6 DEF Finish
  <2>2. next \in Nat /\ mode # "entry"
    BY <1>0, <2>1 DEF TypeInv, FilterInv
  <2>3. \A i \in DOMAIN filter : i < next
    BY <1>1, <2>1, <2>2
  <2>4. Handled' = Handled
    BY <2>1, <2>3 DEF Handled
  <2>5. QED
    BY <1>0, <2>1, <2>2, <2>4 DEF Inv, TypeInv, FilterInv
<1>7. CASE RemoveEntry
  <2>1. /\ pc = "match" /\ mode = "entry" /\ pc' = "done"
        /\ current' \in RemovePath(original, filter[1].path)
        /\ UNCHANGED <<mode, original, filter, next>>
    BY <1>7 DEF RemoveEntry
  <2>2. DOMAIN filter = {1} /\ filter[1].kind = "path" /\ IsRule(filter[1])
    BY <1>0, <1>1, <2>1 DEF FilterInv
  <2>3. current' \in ApplyRule(filter[1], original)
    BY <2>1, <2>2 DEF ApplyRule
  <2>4. /\ current' \in Trees
        /\ \A x : x \in Leaves(current') <=> x \in Leaves(original) /\ ~Removes(filter[1], x)
        /\ ~RuleMatches(filter[1], current')
        /\ \E x \in Leaves(original) : Removes(filter[1], x)
    BY <1>0, <2>2, <2>3, ApplyLeaves DEF TypeInv
  <2>5. Handled' = {1}
    BY <2>1, <2>2 DEF Handled
  <2>6. FilterMatches(filter, original)
    <3>1. RuleMatches(filter[1], original)
      BY <1>0, <2>2, <2>4, MatchesLeaves DEF Touches, TypeInv
    <3>2. QED
      BY <2>2, <3>1 DEF FilterMatches
  <2>7. QED
    BY <1>0, <2>1, <2>2, <2>4, <2>5, <2>6 DEF Inv, TypeInv, FilterInv
<1>8. CASE RemoveEntryFails
  <2>1. /\ pc = "match" /\ mode = "entry" /\ pc' = "failed"
        /\ RemovePath(original, filter[1].path) = {}
        /\ UNCHANGED <<mode, original, filter, current, next>>
    BY <1>8 DEF RemoveEntryFails
  <2>2. Handled' = Handled
    BY <2>1 DEF Handled
  <2>3. QED
    BY <1>0, <2>1, <2>2 DEF Inv, TypeInv, FilterInv
<1>9. CASE UNCHANGED vars
  BY <1>0, <1>9 DEF vars, Inv, TypeInv, FilterInv, Handled
<1>10. QED
  BY <1>2, <1>3, <1>4, <1>5, <1>6, <1>7, <1>8, <1>9 DEF Next

LEMMA Invariant == Spec => []Inv
BY InitInv, NextInv, PTL DEF Spec

(* Whatever the rules remove, each step of bbfg_filter_apply_tree and      *)
(* bbfg_remove_head_tree_entry leaves a tree over the names, sizes and     *)
(* depth of the trees it is given, which the next step can take.           *)
THEOREM TypeCorrect == Spec => []TypeInv
BY Invariant, PTL DEF Inv

(* The tree that bbfg_filter_apply_tree or bbfg_remove_head_tree_entry     *)
(* yields has exactly the leaves that no rule of the filter removes,       *)
(* whatever the tree, however deep, and in whatever order the rules are    *)
(* given.                                                                  *)
THEOREM OnlyRemovedLeavesAreLost == Spec => []ResultIsWhatNoRuleRemoves
<1>1. Inv => ResultIsWhatNoRuleRemoves
  <2>1. SUFFICES ASSUME Inv, pc = "done"
                 PROVE  Leaves(current) = {leaf \in Leaves(original) :
                                             \A i \in DOMAIN filter : ~Removes(filter[i], leaf)}
    BY DEF ResultIsWhatNoRuleRemoves
  <2>2. Handled = DOMAIN filter
    BY <2>1 DEF Handled
  <2>3. QED
    BY <2>1, <2>2 DEF Inv, FilterInv
<1>2. QED
  BY <1>1, Invariant, PTL

(* No rule matches what bbfg_filter_apply_tree yields: what HistoryRewrite *)
(* assumes of clean trees.                                                 *)
THEOREM FilteringTwiceIsFilteringOnce == Spec => []ResultIsClean
<1>1. Inv => ResultIsClean
  BY DEF Inv, FilterInv, Handled, ResultIsClean, FilterMatches
<1>2. QED
  BY <1>1, Invariant, PTL

(* bbfg_filter_matches_tree, a search that stops at the first match, and   *)
(* the removals, which rebuild the tree, agree on every tree.              *)
THEOREM MatchingIsChanging == Spec => []MatchesIffChanges
<1>1. Inv => MatchesIffChanges
  <2>1. SUFFICES ASSUME Inv, pc = "done"
                 PROVE  FilterMatches(filter, original) <=> current # original
    BY DEF MatchesIffChanges
  <2>2. ~FilterMatches(filter, current)
    BY <2>1 DEF Inv, FilterInv, Handled, FilterMatches
  <2>3. ~FilterMatches(filter, original) => current = original
    BY <2>1 DEF Inv, FilterInv
  <2>4. QED
    BY <2>2, <2>3
<1>2. QED
  BY <1>1, Invariant, PTL

(* A filter fails only over a path with a slash at its end that            *)
(* git_tree_entry_bypath accepts after a directory and remove_path_subtree *)
(* does not, whatever the other rules did before it.                       *)
THEOREM OnlySlashesFail == Spec => []OnlyTrailingSlashFails
<1>1. Inv => OnlyTrailingSlashFails
  <2> SUFFICES ASSUME Inv, pc = "failed", mode # "entry"
               PROVE  /\ filter[next].kind = "path"
                      /\ filter[next].path[Len(filter[next].path)] = ""
                      /\ FindsPath(original, filter[next].path)
    BY DEF OnlyTrailingSlashFails
  <2> DEFINE rule == filter[next]
  <2>1. /\ next \in DOMAIN filter /\ ApplyRule(rule, current) = {} /\ RuleMatches(rule, current)
        /\ original \in Trees /\ current \in Trees /\ filter \in Filters
        /\ Leaves(current) \subseteq Leaves(original)
    BY DEF Inv, TypeInv, FilterInv
  <2>2. IsRule(rule)
    BY <2>1, FilterFacts
  <2> HIDE DEF rule
  <2>3. rule.kind = "path" /\ \A x \in Leaves(current) : ~Removes(rule, x)
    BY <2>1, <2>2, ApplyLeaves
  <2>4. \E x \in Leaves(current) : EndsAtDirectory(rule.path, x)
    BY <2>1, <2>2, <2>3, MatchesLeaves DEF Touches
  <2>5. rule.path[Len(rule.path)] = ""
    BY <2>4 DEF EndsAtDirectory
  <2>6. RuleMatches(rule, original)
    BY <2>1, <2>2, FewerLeaves
  <2>7. FindsPath(original, rule.path)
    BY <2>3, <2>6 DEF RuleMatches
  <2>8. QED
    BY <2>3, <2>5, <2>7 DEF rule
<1>2. QED
  BY <1>1, Invariant, PTL

(* remove_path_subtree and git_tree_entry_bypath agree on the paths that   *)
(* end in a name.                                                          *)
LEMMA RemovableFacts ==
  ASSUME NEW t \in Trees, NEW p \in Paths
  PROVE  RemovePath(t, p) # {} <=> FindsPath(t, p) /\ p[Len(p)] # ""
<1>1. /\ RemovePath(t, p) = {} <=> \A x \in Leaves(t) : ~Prefix(p, x.path)
      /\ RemovePath(t, p) # {} => p[Len(p)] # ""
  BY RemovePathTrims DEF Trims
<1>2. FindsPath(t, p) <=> \E x \in Leaves(t) : Prefix(p, x.path) \/ EndsAtDirectory(p, x)
  BY FindsPathReaches DEF Reaches
<1>3. p[Len(p)] # "" => \A x : ~EndsAtDirectory(p, x)
  BY DEF EndsAtDirectory
<1>4. QED
  BY <1>1, <1>2, <1>3

(* bbfg_remove_head_tree_entry, which walks the path itself, removes a path *)
(* if git_tree_entry_bypath finds it in the tree of HEAD and it does not   *)
(* end in a slash, and refuses every other, in every tree.                 *)
THEOREM EntriesAreRefusedExactly == Spec => []RefusesOnlyMissingOrSlash
<1>1. Inv => RefusesOnlyMissingOrSlash
  <2> DEFINE p == filter[1].path
  <2> SUFFICES ASSUME Inv, mode = "entry"
               PROVE  /\ pc = "done" => FindsPath(original, p) /\ p[Len(p)] # ""
                      /\ pc = "failed" => ~(FindsPath(original, p) /\ p[Len(p)] # "")
    BY DEF RefusesOnlyMissingOrSlash
  <2>1. /\ original \in Trees /\ filter \in Filters /\ Len(filter) = 1
        /\ filter[1].kind = "path"
        /\ pc = "done" => RemovePath(original, p) # {}
        /\ pc = "failed" => RemovePath(original, p) = {}
    BY DEF Inv, TypeInv, FilterInv
  <2>2. IsRule(filter[1])
    BY <2>1, FilterFacts
  <2>3. p \in Paths
    BY <2>1, <2>2 DEF IsRule
  <2> HIDE DEF p
  <2>4. QED
    BY <2>1, <2>3, RemovableFacts
<1>2. QED
  BY <1>1, Invariant, PTL

-----------------------------------------------------------------------------
(* The tree of the leaves that remain. *)

LEMMA BelowDiffers ==
  ASSUME NEW n \in Names, NEW a \in LeafRecords, NEW b \in LeafRecords, Below(n, a) = Below(n, b)
  PROVE  a = b
<1> DEFINE p == a.path
           q == b.path
           path == Below(n, a).path
           k == Len(p)
           m == Len(q)
<1>1. /\ Shifted(k, path, p) /\ Len(path) = k + 1 /\ k \in Nat
      /\ Shifted(m, path, q) /\ Len(path) = m + 1 /\ m \in Nat
      /\ a.entry = b.entry
  BY ShiftBelow
<1>2. p \in Seq(Names) /\ q \in Seq(Names)
  BY LeafFacts
<1>3. k = m
  <2> HIDE DEF k, m, path
  <2>1. QED
    BY <1>1
<1>4. \A i \in 1..k : p[i] = q[i]
  <2> HIDE DEF k, m, path, p, q
  <2>1. QED
    BY <1>1, <1>3 DEF Shifted
<1>5. p = q
  BY <1>2, <1>3, <1>4, SeqEqual
<1>6. QED
  BY <1>1, <1>5, LeafFacts

(* Empty directories are leaves, so no two trees have the same leaves.     *)
LEMMA LeavesDetermine ==
  ASSUME NEW t \in Trees, NEW u \in Trees, Leaves(t) = Leaves(u)
  PROVE  t = u
<1> DEFINE good == {x \in Trees : \A y \in Trees : Leaves(x) = Leaves(y) => x = y}
<1>1. ASSUME NEW x \in Trees, \A n \in Subtrees(x) : x[n].tree \in good,
             NEW y \in Trees, Leaves(x) = Leaves(y)
      PROVE  x = y
  <2>0. ASSUME NEW z \in Trees, NEW w \in Trees, Leaves(z) = Leaves(w), NEW n \in DOMAIN z
        PROVE  n \in DOMAIN w /\ LeavesAt(z, n) \subseteq LeavesAt(w, n)
    <3>1. PICK leaf \in Leaves(z) : leaf.path[1] = n
      BY EntryHasLeaf
    <3>2. n \in DOMAIN w
      BY <2>0, <3>1, LeafIsAt
    <3>3. ASSUME NEW a \in LeavesAt(z, n) PROVE a \in LeavesAt(w, n)
      <4>1. a \in Leaves(z) /\ a.path[1] = n
        BY LeafIsAt
      <4>2. a \in Leaves(w)
        BY <2>0, <4>1
      <4>3. QED
        BY <4>1, <4>2, LeafIsAt
    <3>4. QED
      BY <3>2, <3>3
  <2>1. DOMAIN x = DOMAIN y
    BY <1>1, <2>0
  <2>2. ASSUME NEW n \in DOMAIN x PROVE x[n] = y[n]
    <3>1. n \in DOMAIN y /\ n \in Names
      BY <2>1, DeepFacts
    <3>2. LeavesAt(x, n) = LeavesAt(y, n)
      BY <1>1, <2>0, <2>1
    <3>3. ASSUME NEW z \in {x, y}, IsDeep(z, n)
          PROVE  \E leaf \in LeafRecords : Below(n, leaf) \in LeavesAt(z, n)
      <4>1. z \in Trees /\ n \in DOMAIN z
        BY <3>1
      <4>2. z[n].tree \in Trees /\ z[n].tree # EmptyTree /\ Leaves(z[n].tree) \subseteq LeafRecords
        BY <3>3, <4>1, DeepFacts DEF IsDeep
      <4>3. PICK leaf \in Leaves(z[n].tree) : TRUE
        BY <4>2, EmptyLeaves
      <4>4. Below(n, leaf) \in LeavesAt(z, n)
        BY <3>3, <4>1, DeepFacts
      <4>5. QED
        BY <4>2, <4>4
    <3>4. ASSUME NEW z \in {x, y}, ~IsDeep(z, n), NEW leaf \in LeafRecords
          PROVE  Below(n, leaf) \notin LeavesAt(z, n)
      <4>1. z \in Trees /\ n \in DOMAIN z
        BY <3>1
      <4>2. LeavesAt(z, n) = {LeafAt(z, n)} /\ LeafAt(z, n).path = <<n>>
        BY <3>4, <4>1, DeepFacts, LeafAtFacts
      <4> DEFINE k == Len(Below(n, leaf).path)
                 m == Len(leaf.path)
      <4>3. k = m + 1 /\ m \in Nat \ {0}
        BY <3>1, ShiftBelow
      <4>4. Len(LeafAt(z, n).path) = 1
        BY <4>2
      <4> HIDE DEF m
      <4>5. k # 1
        BY <4>3
      <4>6. QED
        BY <4>2, <4>4, <4>5
    <3>5. IsDeep(x, n) <=> IsDeep(y, n)
      BY <3>2, <3>3, <3>4
    <3>6. CASE ~IsDeep(x, n)
      <4>1. LeafAt(x, n) = LeafAt(y, n)
        BY <3>1, <3>2, <3>5, <3>6, DeepFacts
      <4>2. QED
        BY <3>1, <3>5, <3>6, <4>1, LeafAtFacts
    <3>7. CASE IsDeep(x, n)
      <4>1. /\ n \in Subtrees(x) /\ x[n].tree \in Trees /\ Leaves(x[n].tree) \subseteq LeafRecords
            /\ \A z : z \in LeavesAt(x, n) <=> \E leaf \in Leaves(x[n].tree) : z = Below(n, leaf)
        BY <3>7, DeepFacts
      <4>2. /\ n \in Subtrees(y) /\ y[n].tree \in Trees /\ Leaves(y[n].tree) \subseteq LeafRecords
            /\ \A z : z \in LeavesAt(y, n) <=> \E leaf \in Leaves(y[n].tree) : z = Below(n, leaf)
        BY <3>1, <3>5, <3>7, DeepFacts
      <4>3. \A leaf \in Leaves(x[n].tree) : leaf \in Leaves(y[n].tree)
        BY <3>1, <3>2, <4>1, <4>2, BelowDiffers
      <4>4. \A leaf \in Leaves(y[n].tree) : leaf \in Leaves(x[n].tree)
        BY <3>1, <3>2, <4>1, <4>2, BelowDiffers
      <4>5. Leaves(x[n].tree) = Leaves(y[n].tree)
        BY <4>3, <4>4
      <4>6. x[n].tree \in good
        BY <1>1, <4>1
      <4>7. x[n].tree = y[n].tree
        BY <4>2, <4>5, <4>6
      <4>8. QED
        BY <4>1, <4>2, <4>7, SubtreeFacts
    <3>8. QED
      BY <3>6, <3>7
  <2>3. x = [n \in DOMAIN x |-> x[n]] /\ y = [n \in DOMAIN y |-> y[n]]
    BY EntryFacts
  <2>4. QED
    BY <2>1, <2>2, <2>3
<1>2. ASSUME NEW x \in Trees, \A n \in Subtrees(x) : x[n].tree \in good PROVE x \in good
  BY <1>1, <1>2
<1> HIDE DEF good
<1>3. Trees \subseteq good
  BY <1>2, TreeInduction
<1>4. QED
  BY <1>3 DEF good

(* What a filter leaves of a tree, whatever the order of its rules and the *)
(* way they are applied.                                                   *)
Remaining(t, f) == {leaf \in Leaves(t) : \A i \in DOMAIN f : ~Removes(f[i], leaf)}
Filtered(t, f) == CHOOSE u \in Trees : Leaves(u) = Remaining(t, f)

(* There is such a tree: the rules make it, one after the other.           *)
LEMMA FilteredExists ==
  ASSUME NEW t \in Trees, NEW f \in Filters
  PROVE  \E u \in Trees : Leaves(u) = Remaining(t, f)
<1> DEFINE Some(k) == {x \in Leaves(t) : \A i \in DOMAIN f : i <= k => ~Removes(f[i], x)}
           bad == {k \in Nat : ~\E u \in Trees : Leaves(u) = Some(k)}
<1>1. Len(f) \in Nat /\ DOMAIN f = 1..Len(f) /\ \A i \in DOMAIN f : IsRule(f[i])
  BY FilterFacts
<1>2. ASSUME NEW k \in bad, \A j \in bad : k <= j PROVE FALSE
  <2>1. k \in Nat /\ ~\E u \in Trees : Leaves(u) = Some(k)
    BY <1>2
  <2>2. CASE k = 0
    <3>1. \A i \in DOMAIN f : ~(i <= k)
      BY <1>1, <2>2
    <3>2. Leaves(t) = Some(k)
      BY <3>1
    <3>3. QED
      BY <2>1, <3>2
  <2>3. CASE k # 0
    <3>1. k - 1 \in Nat /\ ~(k <= k - 1)
      BY <2>1, <2>3
    <3>2. PICK u \in Trees : Leaves(u) = Some(k - 1)
      BY <1>2, <3>1
    <3>3. \A i \in DOMAIN f : i <= k <=> i <= k - 1 \/ i = k
      BY <1>1, <2>1
    <3>4. CASE k \notin DOMAIN f
      <4>1. Some(k) = Some(k - 1)
        BY <3>3, <3>4
      <4>2. QED
        BY <2>1, <3>2, <4>1
    <3>5. CASE k \in DOMAIN f
      <4>1. PICK v \in Trees : \A x : x \in Leaves(v) <=> x \in Leaves(u) /\ ~Removes(f[k], x)
        <5>1. CASE ApplyRule(f[k], u) = {}
          BY <1>1, <3>5, <5>1, ApplyLeaves
        <5>2. CASE ApplyRule(f[k], u) # {}
          <6>1. PICK v : v \in ApplyRule(f[k], u)
            BY <5>2
          <6>2. QED
            BY <1>1, <3>5, <6>1, ApplyLeaves
        <5>3. QED
          BY <5>1, <5>2
      <4>2. Some(k) = {x \in Some(k - 1) : ~Removes(f[k], x)}
        BY <3>3, <3>5
      <4> HIDE DEF Some
      <4>3. Leaves(v) = Some(k)
        BY <3>2, <4>1, <4>2
      <4>4. QED
        BY <2>1, <4>3
    <3>6. QED
      BY <3>4, <3>5
  <2>4. QED
    BY <2>2, <2>3
<1>3. bad \subseteq Nat
  OBVIOUS
<1>4. Some(Len(f)) = Remaining(t, f)
  BY <1>1 DEF Remaining
<1> HIDE DEF bad, Some
<1>5. bad = {}
  BY <1>2, <1>3, LeastNatural
<1>6. PICK u \in Trees : Leaves(u) = Some(Len(f))
  BY <1>1, <1>5 DEF bad
<1>7. QED
  BY <1>4, <1>6

LEMMA FilteredFacts ==
  ASSUME NEW t \in Trees, NEW f \in Filters
  PROVE  /\ Filtered(t, f) \in Trees /\ Leaves(Filtered(t, f)) = Remaining(t, f)
         /\ \A u \in Trees : Leaves(u) = Remaining(t, f) => u = Filtered(t, f)
<1>1. Filtered(t, f) \in Trees /\ Leaves(Filtered(t, f)) = Remaining(t, f)
  BY FilteredExists DEF Filtered
<1>2. QED
  BY <1>1, LeavesDetermine

(* bbfg_filter_apply_tree computes one tree, that of the leaves no rule    *)
(* removes: the order of the rules, and skipping those that do not match,  *)
(* make no difference.                                                     *)
THEOREM ResultIsFiltered == Spec => [](pc = "done" => current = Filtered(original, filter))
<1>1. Inv => (pc = "done" => current = Filtered(original, filter))
  <2>1. SUFFICES ASSUME Inv, pc = "done" PROVE current = Filtered(original, filter)
    OBVIOUS
  <2>2. current \in Trees /\ original \in Trees /\ filter \in Filters
    BY <2>1 DEF Inv, TypeInv
  <2>3. Leaves(current) = Remaining(original, filter)
    BY <2>1 DEF Inv, FilterInv, Handled, Remaining
  <2>4. QED
    BY <2>2, <2>3, FilteredFacts
<1>2. QED
  BY <1>1, Invariant, PTL

(* Every filter is a function that HistoryRewrite may take for CleanTree:  *)
(* this is its TreesAssumption.                                            *)
THEOREM FiltersAreIdempotent ==
  ASSUME NEW f \in Filters, NEW CleanTree, CleanTree = [t \in Trees |-> Filtered(t, f)]
  PROVE  /\ CleanTree \in [Trees -> Trees]
         /\ \A t \in Trees : CleanTree[CleanTree[t]] = CleanTree[t]
<1>1. ASSUME NEW t \in Trees PROVE Filtered(Filtered(t, f), f) = Filtered(t, f)
  <2> DEFINE u == Filtered(t, f)
  <2>1. u \in Trees /\ Leaves(u) = Remaining(t, f)
    BY FilteredFacts
  <2> HIDE DEF u
  <2>2. Leaves(u) = Remaining(u, f)
    BY <2>1 DEF Remaining
  <2>3. u = Filtered(u, f)
    BY <2>1, <2>2, FilteredFacts
  <2>4. QED
    BY <2>3 DEF u
<1>2. \A t \in Trees : Filtered(t, f) \in Trees
  BY FilteredFacts
<1>3. QED
  BY <1>1, <1>2
=============================================================================
