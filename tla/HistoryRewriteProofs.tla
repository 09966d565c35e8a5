------------------------ MODULE HistoryRewriteProofs ------------------------
(***************************************************************************)
(* Proofs about HistoryRewrite, for every set of trees, filter, build and  *)
(* input.                                                                  *)
(***************************************************************************)
EXTENDS HistoryRewrite, GitObjectProofs, SequenceTheorems

(* The input of a run is one the program can be given. *)
LEMMA InputFacts ==
  ASSUME run \in Runs
  PROVE  IsRun(run, Trees)
BY RunsAssumption

-----------------------------------------------------------------------------
(* Typing. *)

LEMMA InitType == Init => TypeOK
<1> SUFFICES ASSUME Init PROVE TypeOK
  OBVIOUS
<1>1. rewritten \in Seq(Range(rewritten)) /\ Len(rewritten) <= Len(run.refs)
  BY InputFacts DEF Init, IsRun
<1>2. stack \in Seq(Range(stack))
  BY DEF Init
<1>3. QED
  BY <1>1, <1>2 DEF Init, TypeOK, EmptyMap

(* Sequences stay sequences over their own range when they are used as a   *)
(* list (Append) or as a stack (Append, and dropping the last element).    *)
LEMMA AppendOwnRange ==
  ASSUME NEW s, s \in Seq(Range(s)), NEW e
  PROVE  /\ Append(s, e) \in Seq(Range(Append(s, e)))
         /\ Len(Append(s, e)) = Len(s) + 1
         /\ \A i \in DOMAIN Append(s, e) :
              Append(s, e)[i] = IF i = Len(s) + 1 THEN e ELSE s[i]
<1> DEFINE S == Range(s) \cup {e}
           t == Append(s, e)
<1>1. s \in Seq(S) /\ e \in S
  BY DEF Range
<1>2. /\ t \in Seq(S) /\ Len(t) = Len(s) + 1
      /\ \A i \in 1..Len(s) : t[i] = s[i]
      /\ t[Len(s) + 1] = e
  BY <1>1
<1>3. DOMAIN t = 1..(Len(s) + 1)
  BY <1>2
<1>4. \A i \in 1..Len(t) : t[i] \in Range(t)
  BY <1>2, <1>3 DEF Range
<1>5. t \in Seq(Range(t))
  BY <1>2, <1>4
<1> HIDE DEF t
<1>6. QED
  BY <1>1, <1>2, <1>3, <1>5 DEF t

LEMMA FrontOwnRange ==
  ASSUME NEW s, s \in Seq(Range(s)), s # <<>>
  PROVE  LET t == SubSeq(s, 1, Len(s) - 1) IN
           /\ t \in Seq(Range(t))
           /\ Len(t) = Len(s) - 1
           /\ DOMAIN t \subseteq DOMAIN s
           /\ \A i \in DOMAIN t : t[i] = s[i]
<1> DEFINE t == SubSeq(s, 1, Len(s) - 1)
<1>1. Len(s) \in Nat \ {0} /\ DOMAIN s = 1..Len(s)
  OBVIOUS
<1>2. /\ t \in Seq(Range(s)) /\ Len(t) = Len(s) - 1 /\ DOMAIN t = 1..(Len(s) - 1)
      /\ \A i \in 1..(Len(s) - 1) : t[i] = s[i]
  BY <1>1
<1>3. \A i \in 1..Len(t) : t[i] \in Range(t)
  BY <1>2 DEF Range
<1>4. t \in Seq(Range(t))
  BY <1>2, <1>3
<1> HIDE DEF t
<1>5. QED
  BY <1>1, <1>2, <1>4 DEF t

LEMMA StepType == TypeOK /\ [Next]_vars => TypeOK'
<1> SUFFICES ASSUME TypeOK, [Next]_vars PROVE TypeOK'
  OBVIOUS
<1> USE DEF TypeOK
<1>0. IsRun(run, Trees)
  BY InputFacts
<1>1. ASSUME NEW reason \in {"io", "parent", "tip", "target"}, Fail(reason) PROVE TypeOK'
  BY <1>1 DEF Fail
<1>2. ASSUME NEW tag, tag.type = "tag", CallRewriteTag(tag) PROVE TypeOK'
  <2>1. stack' = Append(stack, tag)
    BY <1>2 DEF CallRewriteTag
  <2>2. stack' \in Seq(Range(stack')) /\ \A i \in DOMAIN stack' : stack'[i].type = "tag"
    <3>1. \A i \in DOMAIN stack' : i = Len(stack) + 1 \/ i \in DOMAIN stack
      BY <2>1, AppendOwnRange
    <3>2. QED
      BY <1>2, <2>1, <3>1, AppendOwnRange
  <2>3. QED
    BY <1>2, <2>2 DEF CallRewriteTag
<1>3. ASSUME NEW c \in run.walk, RewriteOneCommit(c) PROVE TypeOK'
  <2>1. CASE ~ParentsKnown(c)
    BY <2>1, <1>1, <1>3 DEF RewriteOneCommit
  <2>2. CASE ParentsKnown(c)
    <3> DEFINE new == RewrittenCommit(c, FilteredTree(c), RewrittenParents(c))
    <3>1. c.tree \in Trees /\ c.type = "commit"
      BY <1>0, <1>3 DEF IsRun, IsCommitOf, Commit
    <3>2. FilteredTree(c) \in Trees
      BY <3>1, TreesAssumption DEF FilteredTree
    <3>3. new.type = "commit" /\ new.tree \in Trees
      BY <3>1, <3>2 DEF RewrittenCommit, Commit
    <3>4. /\ commits' = Put(commits, c, new) /\ trees' = MemoAfter(c)
          /\ walked' \subseteq run.walk
      BY <1>3, <2>2 DEF RewriteOneCommit, CommitsAfter
    <3>5. /\ DOMAIN commits' \subseteq run.walk
          /\ \A d \in DOMAIN commits' : commits'[d].type = "commit" /\ commits'[d].tree \in Trees
      <4> HIDE DEF new
      <4>1. DOMAIN commits' = DOMAIN commits \cup {c}
        BY <3>4 DEF Put
      <4>2. ASSUME NEW d \in DOMAIN commits'
            PROVE  commits'[d] = IF d = c THEN new ELSE commits[d]
        BY <3>4, <4>1 DEF Put
      <4>3. QED
        BY <3>3, <4>1, <4>2
    <3>6. trees' \in [DOMAIN trees' -> Trees] /\ DOMAIN trees' \subseteq Trees
      BY <3>1, <3>2, <3>4 DEF MemoAfter, Put
    <3>7. UNCHANGED <<run, tags, odb, rewritten, stack, returned, pc, failure>>
      BY <1>3, <2>2 DEF RewriteOneCommit
    <3>8. QED
      BY <3>4, <3>5, <3>6, <3>7
  <2>3. QED
    BY <2>1, <2>2
<1>4. CASE FinishWalk
  BY <1>4 DEF FinishWalk
<1>5. CASE CopyRewrittenTip
  <2>1. Len(rewritten) + 1 \in DOMAIN run.refs
    BY <1>0, <1>5 DEF CopyRewrittenTip, AtTip, IsRun
  <2>2. IsRef(CurrentRef, run.walk, run.odb)
    BY <1>0, <2>1 DEF IsRun, CurrentRef
  <2>3. ASSUME NEW ref, Record(ref) PROVE TypeOK'
    <3>1. rewritten' \in Seq(Range(rewritten'))
      BY <2>3, AppendOwnRange DEF Record
    <3>2. Len(rewritten') <= Len(run.refs)
      BY <1>0, <2>3, <1>5, AppendOwnRange DEF Record, CopyRewrittenTip, AtTip, IsRun
    <3>3. QED
      BY <3>1, <3>2, <2>3 DEF Record
  <2>4. CurrentRef.kind = "tag" => CurrentRef.id.type = "tag"
    BY <2>2 DEF IsRef
  <2>5. QED
    BY <1>1, <1>2, <2>3, <2>4, <1>5 DEF CopyRewrittenTip
<1>6. CASE TagReturnsToTip
  <2>1. PICK image \in returned : Record(image)
    BY <1>6 DEF TagReturnsToTip
  <2>2. rewritten' \in Seq(Range(rewritten'))
    BY <2>1, AppendOwnRange DEF Record
  <2>3. Len(rewritten') <= Len(run.refs)
    BY <1>0, <2>1, <1>6, AppendOwnRange DEF Record, TagReturnsToTip, AtTip, IsRun
  <2>4. QED
    BY <2>1, <2>2, <2>3 DEF Record
<1>7. CASE RewriteInnerTag
  BY <1>7, <1>2 DEF RewriteInnerTag
<1>8. ASSUME NEW image, CreateTag(image), InTag PROVE TypeOK'
  <2>1. Top.type = "tag"
    BY <1>8 DEF InTag, Top
  <2>2. \A t \in DOMAIN tags' : t.type = "tag" /\ tags'[t].type = "tag"
    BY <1>8, <2>1 DEF CreateTag, Return, Put, Tag
  <2>3. stack' \in Seq(Range(stack')) /\ \A i \in DOMAIN stack' : stack'[i].type = "tag"
    BY <1>8, FrontOwnRange DEF CreateTag, Return, InTag
  <2>4. \A new \in returned' : new.type = "tag"
    BY <1>8 DEF CreateTag, Return, Tag
  <2>5. QED
    BY <1>8, <2>2, <2>3, <2>4 DEF CreateTag, Return
<1>9. CASE TagTargetMissing
  BY <1>1, <1>9 DEF TagTargetMissing
<1>10. CASE FinishTips
  BY <1>10 DEF FinishTips
<1>11. CASE WritePack
  BY <1>11 DEF WritePack
<1>12. CASE WriteTagPack
  BY <1>12 DEF WriteTagPack
<1>13. CASE Reset
  BY <1>13 DEF Reset
<1>14. CASE Abort
  BY <1>1, <1>14 DEF Abort
<1>15. CASE UNCHANGED vars
  BY <1>15 DEF vars
<1>16. QED
  BY <1>3, <1>4, <1>5, <1>7, <1>8, <1>9, <1>10, <1>11, <1>12, <1>13, <1>14, <1>15,
     <1>6 DEF Next, Step, Walk, Tips, Pack, TagCommit, TagTag

(* The state of a rewrite is always well typed: what every later proof     *)
(* starts from.                                                            *)
THEOREM TypeCorrect == Spec => []TypeOK
BY InitType, StepType, PTL DEF Spec

-----------------------------------------------------------------------------
(* What the maps hold.  CommitsFaithful is not inductive by itself: it     *)
(* needs to know that the memo only ever holds what the filter gives, and  *)
(* which of the two forms of create_rewritten_commit an image has.         *)

MemoCorrect == \A t \in DOMAIN trees : trees[t] = CleanTree[t]

ExpectedTree(c) == IF Protected(c) THEN c.tree ELSE CleanTree[c.tree]
CommitsExact ==
  \A c \in DOMAIN commits :
    /\ ParentsKnown(c)
    /\ commits[c] = RewrittenCommit(c, ExpectedTree(c), RewrittenParents(c))

(* Every commit that the walk returned got its entry in the map. *)
Recorded == walked = DOMAIN commits
WalkFinished == pc \notin {"walk", "failed"} => run.walk \subseteq DOMAIN commits

MapInv == TypeOK /\ MemoCorrect /\ CommitsExact /\ Recorded /\ WalkFinished

(* What one step of the walk does to the maps. *)
LEMMA RewriteOneCommitFacts ==
  ASSUME TypeOK, MemoCorrect, Recorded,
         NEW c \in run.walk, RewriteOneCommit(c), ParentsKnown(c)
  PROVE  /\ c \notin DOMAIN commits
         /\ DOMAIN commits' = DOMAIN commits \cup {c}
         /\ commits'[c] = RewrittenCommit(c, ExpectedTree(c), RewrittenParents(c))
         /\ \A d \in DOMAIN commits : commits'[d] = commits[d]
         /\ DOMAIN trees \subseteq DOMAIN trees'
         /\ \A t \in DOMAIN trees : trees'[t] = trees[t]
         /\ MemoCorrect' /\ Recorded'
         /\ UNCHANGED <<run, tags, odb, rewritten, stack, returned, pc, failure>>
<1>1. c.tree \in Trees
  BY InputFacts DEF TypeOK, IsRun, IsCommitOf
<1>2. FilteredTree(c) = ExpectedTree(c)
  BY DEF FilteredTree, ExpectedTree, MemoCorrect
<1>3. c \notin DOMAIN commits
  BY DEF RewriteOneCommit, WalkMayReturn, Recorded
<1>4. /\ walked' = walked \cup {c}
      /\ commits' = Put(commits, c, RewrittenCommit(c, FilteredTree(c), RewrittenParents(c)))
      /\ trees' = MemoAfter(c)
      /\ UNCHANGED <<run, tags, odb, rewritten, stack, returned, pc, failure>>
  BY DEF RewriteOneCommit, CommitsAfter
<1>5. /\ DOMAIN commits' = DOMAIN commits \cup {c}
      /\ commits'[c] = RewrittenCommit(c, ExpectedTree(c), RewrittenParents(c))
      /\ \A d \in DOMAIN commits : commits'[d] = commits[d]
  BY <1>2, <1>3, <1>4 DEF Put
<1>6. /\ DOMAIN trees \subseteq DOMAIN trees'
      /\ \A t \in DOMAIN trees : trees'[t] = trees[t]
      /\ MemoCorrect'
  BY <1>1, <1>2, <1>4 DEF MemoAfter, Put, MemoCorrect, FilteredTree, ExpectedTree
<1>7. Recorded'
  BY <1>4, <1>5 DEF Recorded
<1>8. QED
  BY <1>3, <1>4, <1>5, <1>6, <1>7

(* Every other step leaves commits and trees alone. *)
LEMMA OtherStepsFacts ==
  ASSUME [Next]_vars, \A c \in run.walk : ~(RewriteOneCommit(c) /\ ParentsKnown(c))
  PROVE  UNCHANGED <<run, walked, commits, trees>>
<1>1. ASSUME NEW reason, Fail(reason) PROVE UNCHANGED <<run, walked, commits, trees>>
  BY <1>1 DEF Fail
<1>2. ASSUME NEW c \in run.walk, RewriteOneCommit(c) PROVE UNCHANGED <<run, walked, commits, trees>>
  BY <1>1, <1>2 DEF RewriteOneCommit
<1>3. CASE CopyRewrittenTip
  BY <1>1, <1>3 DEF CopyRewrittenTip, Record, CallRewriteTag
<1>4. QED
  BY <1>1, <1>2, <1>3
     DEF Next, Step, Walk, Tips, Pack, FinishWalk, TagReturnsToTip, Record, RewriteInnerTag,
         CallRewriteTag, TagCommit, TagTag, CreateTag, Return, TagTargetMissing, FinishTips, WritePack, WriteTagPack, Reset, Abort, vars

LEMMA StepMap == MapInv /\ [Next]_vars => MapInv'
<1> SUFFICES ASSUME MapInv, [Next]_vars PROVE MapInv'
  OBVIOUS
<1>1. TypeOK /\ TypeOK'
  BY StepType DEF MapInv
<1>2. CASE \E c \in run.walk : RewriteOneCommit(c) /\ ParentsKnown(c)
  <2>1. PICK c \in run.walk : RewriteOneCommit(c) /\ ParentsKnown(c)
    BY <1>2
  <2>2. /\ c \notin DOMAIN commits
        /\ DOMAIN commits' = DOMAIN commits \cup {c}
        /\ commits'[c] = RewrittenCommit(c, ExpectedTree(c), RewrittenParents(c))
        /\ \A d \in DOMAIN commits : commits'[d] = commits[d]
        /\ MemoCorrect' /\ Recorded'
        /\ run' = run /\ pc' = pc
    BY <1>1, <2>1, RewriteOneCommitFacts DEF MapInv
  <2>3. ASSUME NEW d \in DOMAIN commits', ParentsKnown(d)
        PROVE  /\ ParentsKnown(d)' /\ ExpectedTree(d)' = ExpectedTree(d)
               /\ RewrittenParents(d)' = RewrittenParents(d)
    BY <2>2, <2>3 DEF ParentsKnown, ExpectedTree, Protected, RewrittenParents
  <2>4. CommitsExact'
    <3> SUFFICES ASSUME NEW d \in DOMAIN commits'
                 PROVE  /\ ParentsKnown(d)'
                        /\ commits'[d] = RewrittenCommit(d, ExpectedTree(d)', RewrittenParents(d)')
      BY DEF CommitsExact, RewrittenCommit
    <3>1. CASE d = c
      BY <2>1, <2>2, <2>3, <3>1
    <3>2. CASE d \in DOMAIN commits
      BY <2>2, <2>3, <3>2 DEF MapInv, CommitsExact
    <3>3. QED
      BY <2>2, <3>1, <3>2
  <2>5. WalkFinished'
    BY <2>2 DEF MapInv, WalkFinished
  <2>6. QED
    BY <1>1, <2>2, <2>4, <2>5 DEF MapInv
<1>3. CASE \A c \in run.walk : ~(RewriteOneCommit(c) /\ ParentsKnown(c))
  <2>1. UNCHANGED <<run, walked, commits, trees>>
    BY <1>3, OtherStepsFacts
  <2>2. MemoCorrect' /\ CommitsExact' /\ Recorded'
    BY <2>1 DEF MapInv, Recorded, MemoCorrect, CommitsExact, ParentsKnown, ExpectedTree, Protected,
                RewrittenParents, RewrittenCommit
  <2>3. pc' \in {"walk", "failed"} \/ pc \notin {"walk", "failed"} \/ FinishWalk
    BY <1>1 DEF TypeOK, Next, Step, Walk, Tips, Pack, RewriteOneCommit, Fail, CopyRewrittenTip,
      AtTip, TagReturnsToTip, InTag, RewriteInnerTag, TagCommit, TagTag, TagTargetMissing, FinishTips,
      WritePack, WriteTagPack, Reset, Abort, vars
  <2>4. WalkFinished'
    BY <2>1, <2>3 DEF MapInv, WalkFinished, Recorded, FinishWalk
  <2>5. QED
    BY <1>1, <2>2, <2>4 DEF MapInv
<1>4. QED
  BY <1>2, <1>3

LEMMA MapInvariant == Spec => []MapInv
<1>1. Init => MapInv
  BY InitType DEF Init, MapInv, MemoCorrect, CommitsExact, Recorded, WalkFinished, EmptyMap
<1>2. QED
  BY <1>1, StepMap, PTL DEF Spec

-----------------------------------------------------------------------------
(* The properties that follow from the maps. *)

(* A commit of the walk is the commit record its fields make up. *)
LEMMA WalkCommit ==
  ASSUME MapInv, NEW c \in DOMAIN commits
  PROVE  /\ c \in run.walk /\ c = Commit(c.msg, c.signed, c.tree, c.parents)
         /\ c.tree \in Trees /\ CleanTree[c.tree] \in Trees
         /\ c.parents \in Seq(run.walk)
BY InputFacts, TreesAssumption DEF MapInv, TypeOK, IsRun, IsCommitOf

(* What create_rewritten_commit returns has the tree and the parents it    *)
(* was asked for, whether it is the commit itself or a new one.            *)
LEMMA RewrittenFields ==
  ASSUME NEW c, NEW T, NEW P
  PROVE  LET new == RewrittenCommit(c, T, P) IN
           /\ new.msg = c.msg /\ new.tree = T /\ new.parents = P
           /\ T = c.tree /\ P = c.parents => new = c
           /\ new # c => ~new.signed
BY DEF RewrittenCommit, Commit

LEMMA ImageFields ==
  ASSUME MapInv, NEW c \in DOMAIN commits
  PROVE  /\ ParentsKnown(c)
         /\ commits[c].msg = c.msg
         /\ commits[c].tree = ExpectedTree(c)
         /\ commits[c].parents = RewrittenParents(c)
         /\ ExpectedTree(c) = c.tree /\ RewrittenParents(c) = c.parents => commits[c] = c
         /\ commits[c] # c => ~commits[c].signed
BY RewrittenFields DEF MapInv, CommitsExact

(* For every input, each rewritten commit is its original with the tree    *)
(* the filter gives (a protected tip: its own) over the images of its      *)
(* parents: neither the order of the walk nor the tree memo shows.         *)
THEOREM CommitsAreFaithful == Spec => []CommitsFaithful
<1>1. MapInv => CommitsFaithful
  BY ImageFields DEF CommitsFaithful, ExpectedTree
<1>2. QED
  BY <1>1, MapInvariant, PTL

(* For every input, what the filter removes is left nowhere in a rewritten *)
(* history but in the trees of protected tips: this rests on the filter    *)
(* being idempotent.                                                       *)
THEOREM HistoryIsClean == Spec => []OnlyTipsStayDirty
<1>1. ASSUME MapInv, NEW c \in DOMAIN commits
      PROVE  /\ Range(commits[c].parents) \subseteq Range(commits)
             /\ CleanTree[commits[c].tree] # commits[c].tree => c \in ProtectedTips(run)
  <2>1. /\ ParentsKnown(c) /\ commits[c].tree = ExpectedTree(c)
        /\ commits[c].parents = RewrittenParents(c)
    BY <1>1, ImageFields
  <2>2. Range(commits[c].parents) \subseteq Range(commits)
    BY <2>1 DEF ParentsKnown, RewrittenParents, Range
  <2>3. CleanTree[commits[c].tree] # commits[c].tree => c \in ProtectedTips(run)
    BY <1>1, <2>1, WalkCommit, TreesAssumption DEF ExpectedTree, Protected
  <2>4. QED
    BY <2>2, <2>3
<1>2. MapInv => OnlyTipsStayDirty
  BY <1>1 DEF OnlyTipsStayDirty
<1>3. QED
  BY <1>2, MapInvariant, PTL

(* For every input, a commit keeps its id if and only if neither its tree  *)
(* nor any parent changes, and no other commit keeps its signature.        *)
THEOREM IdentityIsExact == Spec => []IdentityExactlyWhenUntouched
<1>1. ASSUME MapInv, NEW c \in DOMAIN commits
      PROVE  /\ commits[c] = c <=>
                  /\ commits[c].tree = c.tree
                  /\ \A i \in DOMAIN c.parents : commits[c.parents[i]] = c.parents[i]
             /\ commits[c].signed => commits[c] = c
  <2>1. /\ commits[c].tree = ExpectedTree(c)
        /\ commits[c].parents = RewrittenParents(c)
        /\ ExpectedTree(c) = c.tree /\ RewrittenParents(c) = c.parents => commits[c] = c
        /\ commits[c] # c => ~commits[c].signed
    BY <1>1, ImageFields
  <2>2. (\A i \in DOMAIN c.parents : commits[c.parents[i]] = c.parents[i])
          <=> RewrittenParents(c) = c.parents
    BY <1>1, WalkCommit DEF RewrittenParents
  <2>3. QED
    BY <2>1, <2>2
<1>2. MapInv => IdentityExactlyWhenUntouched
  BY <1>1 DEF IdentityExactlyWhenUntouched
<1>3. QED
  BY <1>2, MapInvariant, PTL

-----------------------------------------------------------------------------
(* Rewriting what was rewritten. *)

ImagesUnder(map, c) == [i \in DOMAIN c.parents |-> map[c.parents[i]]]

(* If every image of a parent of d is its own image then so is the image   *)
(* e of d: its tree is clean and its parents stay.                         *)
LEMMA FixedPoint ==
  ASSUME NEW map, NEW r \in Runs, NEW d \in r.walk, NEW e \in DOMAIN map,
         e = map[d],
         map[d] = RewrittenCommit(d, CleanTree[d.tree], ImagesUnder(map, d)),
         map[e] = RewrittenCommit(e, CleanTree[e.tree], ImagesUnder(map, e)),
         \A i \in DOMAIN d.parents : map[map[d.parents[i]]] = map[d.parents[i]]
  PROVE  map[e] = e
<1>1. d.tree \in Trees /\ d.parents \in Seq(r.walk)
  BY RunsAssumption DEF IsRun, IsCommitOf
<1>2. e.tree = CleanTree[d.tree] /\ e.parents = ImagesUnder(map, d)
  BY RewrittenFields
<1>3. CleanTree[e.tree] = e.tree
  BY <1>1, <1>2, TreesAssumption
<1>4. ImagesUnder(map, e) = e.parents
  <2> DEFINE P == ImagesUnder(map, d)
  <2>1. DOMAIN P = DOMAIN d.parents /\ \A i \in DOMAIN P : P[i] = map[d.parents[i]]
    BY DEF ImagesUnder
  <2>2. \A i \in DOMAIN P : map[P[i]] = P[i]
    BY <2>1
  <2>3. P = [i \in DOMAIN P |-> P[i]]
    BY DEF ImagesUnder
  <2> HIDE DEF P
  <2>4. ImagesUnder(map, e) = [i \in DOMAIN P |-> map[P[i]]]
    BY <1>2 DEF ImagesUnder, P
  <2>5. QED
    BY <1>2, <2>2, <2>3, <2>4 DEF P
<1>5. QED
  BY <1>3, <1>4, RewrittenFields

LEMMA StepFixed ==
  MapInv /\ MapInv' /\ ResultsAreFixedPoints /\ [Next]_vars => ResultsAreFixedPoints'
<1> SUFFICES ASSUME MapInv, MapInv', ResultsAreFixedPoints, [Next]_vars
             PROVE  ResultsAreFixedPoints'
  OBVIOUS
<1>1. CASE \A c \in run.walk : ~(RewriteOneCommit(c) /\ ParentsKnown(c))
  <2>1. UNCHANGED <<run, commits, trees>>
    BY <1>1, OtherStepsFacts
  <2>2. QED
    BY <2>1 DEF ResultsAreFixedPoints
<1>2. CASE \E c \in run.walk : RewriteOneCommit(c) /\ ParentsKnown(c)
  <2>1. PICK c \in run.walk : RewriteOneCommit(c) /\ ParentsKnown(c)
    BY <1>2
  <2>2. /\ c \notin DOMAIN commits
        /\ DOMAIN commits' = DOMAIN commits \cup {c}
        /\ \A d \in DOMAIN commits : commits'[d] = commits[d]
        /\ run' = run
    BY <2>1, RewriteOneCommitFacts DEF MapInv
  <2> SUFFICES ASSUME ~run.protect, NEW d \in DOMAIN commits', commits'[d] \in DOMAIN commits'
               PROVE  commits'[commits'[d]] = commits'[d]
    BY <2>2 DEF ResultsAreFixedPoints
  <2> DEFINE e == commits'[d]
  <2>3. \A x \in DOMAIN commits' :
          commits'[x] = RewrittenCommit(x, CleanTree[x.tree], ImagesUnder(commits', x))
    <3>1. \A x : ExpectedTree(x)' = CleanTree[x.tree]
      BY <2>2 DEF ExpectedTree, Protected, ProtectedTips
    <3>2. QED
      BY <3>1 DEF MapInv, CommitsExact, RewrittenParents, RewrittenCommit, ImagesUnder
  <2>4. run \in Runs /\ d \in run.walk
    BY <2>2 DEF MapInv, TypeOK
  <2>5. \A x \in DOMAIN commits : ParentsKnown(x)
    BY DEF MapInv, CommitsExact
  <2>6. \A p \in DOMAIN commits :
          commits[p] \in DOMAIN commits => commits'[commits'[p]] = commits'[p]
    BY <2>2 DEF ResultsAreFixedPoints
  <2>7. CASE e = d
    BY <2>7
  <2>8. CASE e # d
    <3>1. ParentsKnown(d) /\ ParentsKnown(e)
      <4>1. \A x \in {d, e} : x \in DOMAIN commits \/ x = c
        BY <2>2
      <4>2. QED
        BY <2>1, <2>5, <4>1
    <3>2. e.parents = ImagesUnder(commits', d)
      BY <2>3, RewrittenFields
    <3>3. \A i \in DOMAIN d.parents :
            d.parents[i] \in DOMAIN commits /\ commits[d.parents[i]] \in DOMAIN commits
      BY <2>2, <3>1, <3>2 DEF ParentsKnown, ImagesUnder
    <3>4. \A i \in DOMAIN d.parents : commits'[commits'[d.parents[i]]] = commits'[d.parents[i]]
      BY <2>6, <3>3
    <3>5. QED
      BY <2>3, <2>4, <3>4, FixedPoint
  <2>9. QED
    BY <2>7, <2>8
<1>3. QED
  BY <1>1, <1>2

(* For every history, without protection, a rewrite that meets the result  *)
(* of an earlier rewrite of the same commits leaves it as it is: partly    *)
(* rewritten repositories converge, and rewriting twice is rewriting once. *)
THEOREM RewritingIsStable == Spec => []ResultsAreFixedPoints
<1>1. Init => ResultsAreFixedPoints
  BY DEF Init, ResultsAreFixedPoints, EmptyMap
<1>2. QED
  BY <1>1, StepFixed, MapInvariant, PTL DEF Spec

(* For every input and every order that the walk may take, no lookup of a  *)
(* parent or of a tip misses: what the walk has returned is in the map,    *)
(* all of it when the walk is over, and every tip is in the walk.          *)
THEOREM NoLookupMisses == Spec => []LookupsNeverMiss
<1>1. Init => LookupsNeverMiss
  BY DEF Init, LookupsNeverMiss
<1>2. MapInv /\ LookupsNeverMiss /\ [Next]_vars => LookupsNeverMiss'
  <2> SUFFICES ASSUME MapInv, LookupsNeverMiss, [Next]_vars PROVE LookupsNeverMiss'
    OBVIOUS
  <2> USE DEF LookupsNeverMiss
  <2>1. ASSUME NEW c \in run.walk, RewriteOneCommit(c) PROVE LookupsNeverMiss'
    <3>1. Range(c.parents) \subseteq walked /\ walked = DOMAIN commits
      BY <2>1 DEF RewriteOneCommit, WalkMayReturn, MapInv, Recorded
    <3>2. ParentsKnown(c)
      BY <3>1 DEF ParentsKnown, Range
    <3>3. QED
      BY <2>1, <3>2 DEF RewriteOneCommit
  <2>2. CASE CopyRewrittenTip
    <3>1. AtTip /\ run \in Runs
      BY <2>2 DEF CopyRewrittenTip, MapInv, TypeOK
    <3>2. CurrentRef.tip \in run.walk
      <4>1. Len(rewritten) + 1 \in DOMAIN run.refs
        BY <3>1, InputFacts DEF AtTip, IsRun, MapInv, TypeOK
      <4>2. QED
        BY <3>1, <4>1, InputFacts DEF CurrentRef, IsRun, IsRef
    <3>3. CurrentRef.tip \in DOMAIN commits
      BY <3>1, <3>2 DEF AtTip, MapInv, WalkFinished
    <3>4. QED
      BY <2>2, <3>3 DEF CopyRewrittenTip, Record, CallRewriteTag
  <2>3. CASE FinishWalk \/ TagReturnsToTip \/ RewriteInnerTag \/ TagCommit \/ TagTag
             \/ FinishTips \/ Pack \/ UNCHANGED vars
    BY <2>3 DEF FinishWalk, TagReturnsToTip, Record, RewriteInnerTag, CallRewriteTag, TagCommit,
                TagTag, CreateTag, Return, FinishTips, Pack, WritePack, WriteTagPack, Reset, vars
  <2>4. CASE TagTargetMissing \/ Abort
    BY <2>4 DEF TagTargetMissing, Abort, Fail
  <2>5. QED
    BY <2>1, <2>2, <2>3, <2>4 DEF Next, Step, Walk, Tips
<1>3. QED
  BY <1>1, <1>2, MapInvariant, PTL DEF Spec

-----------------------------------------------------------------------------
(* The calls of rewrite_tag that have not returned form a chain from the   *)
(* tag of the current ref down to Top, each called for the target of the   *)
(* one before; what a call hands over is what the map has for its tag.     *)

Asked == IF stack = <<>> THEN CurrentRef.id ELSE Top.target

ChainInv ==
  /\ stack # <<>> \/ returned # {} =>
       /\ pc = "tips" /\ Len(rewritten) + 1 \in DOMAIN run.refs
       /\ CurrentRef.kind = "tag" /\ CurrentRef.tip \in DOMAIN commits
  /\ stack # <<>> => stack[1] = CurrentRef.id
  /\ \A i \in DOMAIN stack \ {1} : stack[i] = stack[i - 1].target
  /\ \A image \in returned : Asked.type = "tag" /\ Asked \in DOMAIN tags /\ image = tags[Asked]

LEMMA StepChain == MapInv /\ MapInv' /\ ChainInv /\ [Next]_vars => ChainInv'
<1> SUFFICES ASSUME MapInv, MapInv', ChainInv, [Next]_vars PROVE ChainInv'
  OBVIOUS
<1>0. IsRun(run, Trees) /\ run' = run
  BY InputFacts, OtherStepsFacts, RewriteOneCommitFacts DEF MapInv, TypeOK
<1>1. ASSUME stack' = <<>>, returned' = {} PROVE ChainInv'
  BY <1>1 DEF ChainInv
<1>2. ASSUME UNCHANGED vars PROVE ChainInv'
  BY <1>2 DEF ChainInv, vars, Asked, CurrentRef, Top
<1>3. ASSUME NEW reason, Fail(reason) PROVE ChainInv'
  BY <1>1, <1>3 DEF Fail
<1>4. CASE Walk \/ FinishTips \/ Pack
  <2>1. CASE \E reason \in {"parent"} : Fail(reason)
    BY <1>3, <2>1
  <2>2. CASE ~Fail("parent")
    <3>1. UNCHANGED <<stack, returned>>
      BY <1>4, <2>2 DEF Walk, RewriteOneCommit, FinishWalk, FinishTips, Pack, WritePack,
                        WriteTagPack, Reset
    <3>2. pc # "tips" \/ Len(rewritten) = Len(run.refs)
      BY <1>4 DEF Walk, RewriteOneCommit, FinishWalk, FinishTips, Pack, WritePack,
                  WriteTagPack, Reset
    <3>3. Len(run.refs) \in Nat /\ DOMAIN run.refs = 1..Len(run.refs)
      BY <1>0 DEF IsRun
    <3>4. stack = <<>> /\ returned = {}
      BY <3>2, <3>3 DEF ChainInv
    <3>5. QED
      BY <1>1, <3>1, <3>4
  <2>3. QED
    BY <2>1, <2>2
<1>5. ASSUME AtTip PROVE Len(rewritten) + 1 \in DOMAIN run.refs /\ pc = "tips"
  BY <1>0, <1>5 DEF AtTip, IsRun, MapInv, TypeOK
<1>6. ASSUME AtTip, NEW ref, Record(ref) PROVE ChainInv'
  BY <1>1, <1>6 DEF AtTip, Record
<1>7. CASE CopyRewrittenTip
  <2>1. CASE CurrentRef.tip \in DOMAIN commits /\ CurrentRef.kind = "tag" /\ CallRewriteTag(CurrentRef.id)
    <3>1. /\ stack' = <<CurrentRef.id>> /\ returned' = {}
          /\ UNCHANGED <<commits, rewritten, pc>>
      BY <1>7, <2>1 DEF CallRewriteTag, CopyRewrittenTip, AtTip
    <3>2. CurrentRef' = CurrentRef
      BY <1>0, <3>1 DEF CurrentRef
    <3>3. Len(rewritten) + 1 \in DOMAIN run.refs /\ pc = "tips"
      BY <1>5, <1>7 DEF CopyRewrittenTip
    <3>4. QED
      BY <1>0, <2>1, <3>1, <3>2, <3>3 DEF ChainInv
  <2>2. QED
    BY <1>3, <1>6, <1>7, <2>1 DEF CopyRewrittenTip
<1>8. CASE TagReturnsToTip
  BY <1>6, <1>8 DEF TagReturnsToTip
<1>9. CASE RewriteInnerTag
  <2>1. /\ stack # <<>> /\ stack \in Seq(Range(stack)) /\ stack' = Append(stack, Top.target)
        /\ returned' = {} /\ UNCHANGED <<commits, rewritten, pc>>
    BY <1>9 DEF RewriteInnerTag, CallRewriteTag, InTag, MapInv, TypeOK
  <2>2. CurrentRef' = CurrentRef
    BY <1>0, <2>1 DEF CurrentRef
  <2>3. /\ Len(stack) \in Nat \ {0} /\ DOMAIN stack = 1..Len(stack)
        /\ DOMAIN stack' = 1..(Len(stack) + 1)
        /\ \A i \in 1..Len(stack) : stack'[i] = stack[i]
        /\ stack'[Len(stack) + 1] = stack[Len(stack)].target
    BY <2>1, AppendOwnRange DEF Top
  <2>4. stack'[1] = CurrentRef.id
    BY <2>1, <2>3 DEF ChainInv
  <2>5. \A i \in DOMAIN stack' \ {1} : stack'[i] = stack'[i - 1].target
    <3> SUFFICES ASSUME NEW i \in 2..(Len(stack) + 1)
                 PROVE  stack'[i] = stack'[i - 1].target
      BY <2>3
    <3>1. CASE i = Len(stack) + 1
      BY <2>3, <3>1
    <3>2. CASE i \in 2..Len(stack)
      <4>1. i \in DOMAIN stack \ {1} /\ stack'[i] = stack[i] /\ stack'[i - 1] = stack[i - 1]
        BY <2>3, <3>2
      <4>2. QED
        BY <4>1 DEF ChainInv
    <3>3. QED
      BY <2>3, <3>1, <3>2
  <2>6. QED
    BY <1>0, <2>1, <2>2, <2>4, <2>5 DEF ChainInv
<1>10. ASSUME NEW image, CreateTag(image), InTag PROVE ChainInv'
  <2>1. /\ stack # <<>> /\ stack \in Seq(Range(stack)) /\ Top = stack[Len(stack)] /\ Top.type = "tag"
        /\ stack' = SubSeq(stack, 1, Len(stack) - 1)
        /\ tags' = Put(tags, Top, Tag(Top.name, image)) /\ returned' = {Tag(Top.name, image)}
        /\ UNCHANGED <<commits, rewritten, pc>>
    BY <1>10 DEF CreateTag, Return, InTag, Top, MapInv, TypeOK
  <2>2. CurrentRef' = CurrentRef
    BY <1>0, <2>1 DEF CurrentRef
  <2>3. /\ Len(stack) \in Nat \ {0} /\ DOMAIN stack = 1..Len(stack)
        /\ Len(stack') = Len(stack) - 1 /\ DOMAIN stack' = 1..(Len(stack) - 1)
        /\ stack' = <<>> <=> Len(stack) = 1
        /\ \A i \in 1..(Len(stack) - 1) : stack'[i] = stack[i]
    <3>1. Len(stack) \in Nat \ {0} /\ DOMAIN stack = 1..Len(stack)
      BY <2>1
    <3>2. /\ stack' \in Seq(Range(stack')) /\ Len(stack') = Len(stack) - 1
          /\ \A i \in DOMAIN stack' : stack'[i] = stack[i]
      BY <2>1, FrontOwnRange
    <3>3. DOMAIN stack' = 1..(Len(stack) - 1)
      BY <3>2
    <3>4. stack' = <<>> <=> Len(stack') = 0
      BY <3>2
    <3>5. QED
      BY <3>1, <3>2, <3>3, <3>4
  <2>4. Top \in DOMAIN tags' /\ tags'[Top] = Tag(Top.name, image)
    BY <2>1 DEF Put
  <2>5. Asked' = Top
    <3>1. CASE Len(stack) = 1
      <4>1. stack' = <<>>
        BY <2>3, <3>1
      <4>2. Top = CurrentRef.id
        BY <2>1, <3>1 DEF ChainInv
      <4>3. QED
        BY <2>2, <4>1, <4>2 DEF Asked
    <3>2. CASE Len(stack) # 1
      <4>1. stack' # <<>> /\ Len(stack') = Len(stack) - 1 /\ Len(stack) - 1 \in 1..(Len(stack) - 1)
        BY <2>3, <3>2
      <4>2. Top' = stack[Len(stack) - 1]
        BY <2>3, <4>1 DEF Top
      <4>3. Len(stack) \in DOMAIN stack \ {1}
        BY <2>3, <3>2
      <4>4. stack[Len(stack)] = stack[Len(stack) - 1].target
        BY <4>3 DEF ChainInv
      <4>5. QED
        BY <2>1, <4>1, <4>2, <4>4 DEF Asked
    <3>3. QED
      BY <3>1, <3>2
  <2>6. stack' # <<>> => stack'[1] = CurrentRef.id
    BY <2>1, <2>3 DEF ChainInv
  <2>7. \A i \in DOMAIN stack' \ {1} : stack'[i] = stack'[i - 1].target
    <3> SUFFICES ASSUME NEW i \in 2..(Len(stack) - 1)
                 PROVE  stack'[i] = stack'[i - 1].target
      BY <2>3
    <3>1. i \in DOMAIN stack \ {1} /\ stack'[i] = stack[i] /\ stack'[i - 1] = stack[i - 1]
      BY <2>3
    <3>2. QED
      BY <3>1 DEF ChainInv
  <2>8. QED
    BY <1>0, <2>1, <2>2, <2>4, <2>5, <2>6, <2>7 DEF ChainInv
<1>11. CASE TagTargetMissing \/ Abort
  BY <1>3, <1>11 DEF TagTargetMissing, Abort
<1>12. QED
  BY <1>2, <1>4, <1>7, <1>8, <1>9, <1>10, <1>11 DEF Next, Step, Tips, TagCommit, TagTag

LEMMA ChainInvariant == Spec => []ChainInv
<1>1. Init => ChainInv
  BY DEF Init, ChainInv
<1>2. QED
  BY <1>1, StepChain, MapInvariant, PTL DEF Spec

(* So it makes no difference whether an image is read from the map or is   *)
(* the result of a call: a tag is created on the image of its target, a    *)
(* ref gets the image of its tag.                                          *)
LEMMA TagTagFacts ==
  ASSUME ChainInv, TagTag
  PROVE  InTag /\ Top.target.type = "tag" /\ Top.target \in DOMAIN tags /\ CreateTag(tags[Top.target])
<1>1. InTag /\ Top.target.type = "tag" /\ stack # <<>>
  BY DEF TagTag, InTag
<1>2. ASSUME NEW image \in returned, CreateTag(image)
      PROVE  Top.target \in DOMAIN tags /\ CreateTag(tags[Top.target])
  <2>1. Top.target \in DOMAIN tags /\ image = tags[Top.target]
    BY <1>1, <1>2 DEF ChainInv, Asked
  <2>2. QED
    BY <1>2, <2>1
<1>3. QED
  BY <1>1, <1>2 DEF TagTag

LEMMA TagReturnsFacts ==
  ASSUME ChainInv, TagReturnsToTip
  PROVE  /\ AtTip /\ CurrentRef.kind = "tag" /\ CurrentRef.tip \in DOMAIN commits
         /\ CurrentRef.id \in DOMAIN tags /\ Record(tags[CurrentRef.id])
<1>1. PICK image \in returned : Record(image)
  BY DEF TagReturnsToTip
<1>2. AtTip /\ stack = <<>>
  BY DEF TagReturnsToTip, AtTip
<1>3. CurrentRef.id \in DOMAIN tags /\ image = tags[CurrentRef.id]
  BY <1>1, <1>2 DEF ChainInv, Asked
<1>4. QED
  BY <1>1, <1>2, <1>3 DEF ChainInv

-----------------------------------------------------------------------------
(* Tags and results. *)

TagsExact ==
  \A t \in DOMAIN tags :
    \/ /\ t.target.type = "commit" /\ t.target \in DOMAIN commits
       /\ tags[t] = Tag(t.name, commits[t.target])
    \/ /\ t.target.type = "tag" /\ t.target \in DOMAIN tags
       /\ tags[t] = Tag(t.name, tags[t.target])

MapsGrow ==
  /\ \A c \in DOMAIN commits : c \in DOMAIN commits' /\ commits'[c] = commits[c]
  /\ \A t \in DOMAIN trees : t \in DOMAIN trees' /\ trees'[t] = trees[t]
  /\ \A t \in DOMAIN tags : t \in DOMAIN tags' /\ tags'[t] = tags[t]

(* A tag is created a second time, if at all, as what it was. *)
LEMMA CreateTagFacts ==
  ASSUME TagsExact, NEW image, CreateTag(image),
         \/ /\ Top.target.type = "commit" /\ Top.target \in DOMAIN commits
            /\ image = commits[Top.target]
         \/ /\ Top.target.type = "tag" /\ Top.target \in DOMAIN tags
            /\ image = tags[Top.target]
  PROVE  /\ DOMAIN tags' = DOMAIN tags \cup {Top}
         /\ tags'[Top] = Tag(Top.name, image)
         /\ \A t \in DOMAIN tags : tags'[t] = tags[t]
         /\ TagsExact'
         /\ UNCHANGED <<run, commits, trees, odb, rewritten, pc, failure>>
<1>1. /\ tags' = Put(tags, Top, Tag(Top.name, image))
      /\ UNCHANGED <<run, commits, trees, odb, rewritten, pc, failure>>
  BY DEF CreateTag, Return
<1>2. /\ DOMAIN tags' = DOMAIN tags \cup {Top}
      /\ tags'[Top] = Tag(Top.name, image)
      /\ \A t \in DOMAIN tags : t # Top => tags'[t] = tags[t]
  BY <1>1 DEF Put
<1>3. Top \in DOMAIN tags => tags[Top] = Tag(Top.name, image)
  BY DEF TagsExact
<1>4. \A t \in DOMAIN tags : tags'[t] = tags[t]
  BY <1>2, <1>3
<1>5. TagsExact'
  <2> SUFFICES ASSUME NEW t \in DOMAIN tags'
               PROVE  \/ /\ t.target.type = "commit" /\ t.target \in DOMAIN commits
                         /\ tags'[t] = Tag(t.name, commits[t.target])
                      \/ /\ t.target.type = "tag" /\ t.target \in DOMAIN tags'
                         /\ tags'[t] = Tag(t.name, tags'[t.target])
    BY <1>1 DEF TagsExact
  <2>1. CASE t = Top
    BY <1>2, <1>4, <2>1
  <2>2. CASE t \in DOMAIN tags
    BY <1>2, <1>4, <2>2 DEF TagsExact
  <2>3. QED
    BY <1>2, <2>1, <2>2
<1>6. QED
  BY <1>1, <1>2, <1>4, <1>5

(* Only these steps touch the tags. *)
LEMMA TagsUntouched ==
  ASSUME [Next]_vars, ~TagCommit, ~TagTag
  PROVE  UNCHANGED tags
<1>1. ASSUME NEW reason, Fail(reason) PROVE UNCHANGED tags
  BY <1>1 DEF Fail
<1>2. CASE CopyRewrittenTip
  BY <1>1, <1>2 DEF CopyRewrittenTip, Record, CallRewriteTag
<1>3. CASE \E c \in run.walk : RewriteOneCommit(c)
  BY <1>1, <1>3 DEF RewriteOneCommit
<1>4. QED
  BY <1>1, <1>2, <1>3
     DEF Next, Step, Walk, Tips, Pack, FinishWalk, TagReturnsToTip, Record,
         RewriteInnerTag, CallRewriteTag, TagTargetMissing,
         FinishTips, WritePack, WriteTagPack, Reset, Abort, vars

LEMMA StepTags == MapInv /\ ChainInv /\ TagsExact /\ [Next]_vars => TagsExact' /\ MapsGrow
<1> SUFFICES ASSUME MapInv, ChainInv, TagsExact, [Next]_vars PROVE TagsExact' /\ MapsGrow
  OBVIOUS
<1>1. CASE TagCommit
  <2>1. /\ \A t \in DOMAIN tags : t \in DOMAIN tags' /\ tags'[t] = tags[t]
        /\ TagsExact' /\ UNCHANGED <<commits, trees>>
    BY <1>1, CreateTagFacts DEF TagCommit
  <2>2. QED
    BY <2>1 DEF MapsGrow
<1>2. CASE TagTag
  <2>1. /\ \A t \in DOMAIN tags : t \in DOMAIN tags' /\ tags'[t] = tags[t]
        /\ TagsExact' /\ UNCHANGED <<commits, trees>>
    BY <1>2, TagTagFacts, CreateTagFacts
  <2>2. QED
    BY <2>1 DEF MapsGrow
<1>3. CASE ~TagCommit /\ ~TagTag
  <2>1. tags' = tags
    BY <1>3, TagsUntouched
  <2>2. /\ \A c \in DOMAIN commits : c \in DOMAIN commits' /\ commits'[c] = commits[c]
        /\ \A t \in DOMAIN trees : t \in DOMAIN trees' /\ trees'[t] = trees[t]
    <3>1. CASE \A c \in run.walk : ~(RewriteOneCommit(c) /\ ParentsKnown(c))
      BY <3>1, OtherStepsFacts
    <3>2. ASSUME NEW c \in run.walk, RewriteOneCommit(c), ParentsKnown(c)
          PROVE  /\ \A d \in DOMAIN commits : d \in DOMAIN commits' /\ commits'[d] = commits[d]
                 /\ \A t \in DOMAIN trees : t \in DOMAIN trees' /\ trees'[t] = trees[t]
      BY <3>2, RewriteOneCommitFacts DEF MapInv
    <3>3. QED
      BY <3>1, <3>2
  <2>3. TagsExact'
    BY <2>1, <2>2 DEF TagsExact
  <2>4. QED
    BY <2>1, <2>2, <2>3 DEF MapsGrow
<1>4. QED
  BY <1>1, <1>2, <1>3

LEMMA TagsInvariant == Spec => []TagsExact
<1>1. Init => TagsExact
  BY DEF Init, TagsExact, EmptyMap
<1>2. QED
  BY <1>1, StepTags, MapInvariant, ChainInvariant, PTL DEF Spec

(* For every input, no step ever maps a commit, a tree of the memo or a    *)
(* tag to something else than before.                                      *)
THEOREM MapsNeverChange == Spec => MapsOnlyGrow
<1>1. MapInv /\ ChainInv /\ TagsExact /\ [Next]_vars =>
        [/\ \A c \in DOMAIN commits : c \in DOMAIN commits' /\ commits'[c] = commits[c]
         /\ \A t \in DOMAIN trees : t \in DOMAIN trees' /\ trees'[t] = trees[t]
         /\ \A t \in DOMAIN tags : t \in DOMAIN tags' /\ tags'[t] = tags[t]]_vars
  BY StepTags DEF MapsGrow
<1>2. QED
  BY <1>1, TagsInvariant, MapInvariant, ChainInvariant, PTL DEF Spec, MapsOnlyGrow

(* The results are the images of the tips, and of the tags that refs       *)
(* point to.                                                               *)
ResultOf(ref) ==
  [commit |-> commits[ref.tip],
   ref |-> IF ref.kind = "tag" THEN tags[ref.id] ELSE commits[ref.tip]]
ResultsExact ==
  /\ \A i \in DOMAIN rewritten :
       /\ i \in DOMAIN run.refs /\ run.refs[i].tip \in DOMAIN commits
       /\ run.refs[i].kind = "tag" => run.refs[i].id \in DOMAIN tags
       /\ rewritten[i] = ResultOf(run.refs[i])
  /\ pc \in {"pack", "packtags", "reset", "done"} => Len(rewritten) = Len(run.refs)

LEMMA StepResults ==
  MapInv /\ MapInv' /\ ChainInv /\ TagsExact /\ ResultsExact /\ [Next]_vars => ResultsExact'
<1> SUFFICES ASSUME MapInv, MapInv', ChainInv, TagsExact, ResultsExact, [Next]_vars PROVE ResultsExact'
  OBVIOUS
<1>0. IsRun(run, Trees)
  BY InputFacts DEF MapInv, TypeOK
<1>1. MapsGrow
  BY StepTags
<1>2. ASSUME UNCHANGED <<run, rewritten>>,
             pc' \in {"pack", "packtags", "reset", "done"} =>
               pc \in {"pack", "packtags", "reset", "done"} \/ FinishTips
      PROVE  ResultsExact'
  BY <1>1, <1>2 DEF ResultsExact, ResultOf, MapsGrow, FinishTips
<1>3. ASSUME AtTip, CurrentRef.tip \in DOMAIN commits,
             CurrentRef.kind = "tag" => CurrentRef.id \in DOMAIN tags,
             Record(ResultOf(CurrentRef).ref)
      PROVE  ResultsExact'
  <2>1. /\ rewritten' = Append(rewritten, ResultOf(CurrentRef))
        /\ UNCHANGED <<run, commits, tags, pc>>
    BY <1>3 DEF Record, ResultOf
  <2>2. Len(rewritten) + 1 \in DOMAIN run.refs /\ pc = "tips"
    BY <1>0, <1>3 DEF AtTip, IsRun, MapInv, TypeOK
  <2>3. \A i \in DOMAIN rewritten' :
          rewritten'[i] = IF i = Len(rewritten) + 1 THEN ResultOf(CurrentRef) ELSE rewritten[i]
    BY <2>1, AppendOwnRange DEF MapInv, TypeOK
  <2>4. \A i \in DOMAIN rewritten' : i = Len(rewritten) + 1 \/ i \in DOMAIN rewritten
    BY <2>1, AppendOwnRange DEF MapInv, TypeOK
  <2>5. ASSUME NEW i \in DOMAIN rewritten'
        PROVE  /\ i \in DOMAIN run.refs /\ run.refs[i].tip \in DOMAIN commits
               /\ run.refs[i].kind = "tag" => run.refs[i].id \in DOMAIN tags
               /\ rewritten'[i] = ResultOf(run.refs[i])
    <3>1. CASE i = Len(rewritten) + 1
      BY <1>3, <2>2, <2>3, <3>1 DEF CurrentRef
    <3>2. CASE i # Len(rewritten) + 1
      BY <2>3, <2>4, <3>2 DEF ResultsExact
    <3>3. QED
      BY <3>1, <3>2
  <2>6. QED
    BY <2>1, <2>2, <2>5 DEF ResultsExact, ResultOf
<1>4. CASE CopyRewrittenTip
  <2>1. CASE Fail("tip") \/ CallRewriteTag(CurrentRef.id)
    BY <1>2, <1>4, <2>1 DEF Fail, CallRewriteTag, CopyRewrittenTip, AtTip
  <2>2. CASE CurrentRef.kind = "direct" /\ Record(commits[CurrentRef.tip])
    BY <1>3, <1>2, <1>4, <2>2 DEF CopyRewrittenTip, ResultOf, Fail
  <2>3. CASE CurrentRef.kind = "tag" /\ CurrentRef.id \in DOMAIN tags /\ Record(tags[CurrentRef.id])
    BY <1>3, <1>2, <1>4, <2>3 DEF CopyRewrittenTip, ResultOf, Fail
  <2>4. QED
    BY <1>4, <2>1, <2>2, <2>3 DEF CopyRewrittenTip
<1>5. CASE TagReturnsToTip
  BY <1>3, <1>5, TagReturnsFacts DEF ResultOf
<1>6. CASE ~CopyRewrittenTip /\ ~TagReturnsToTip
  BY <1>2, <1>6
     DEF Next, Step, Walk, Tips, Pack, RewriteOneCommit, FinishWalk, RewriteInnerTag,
         CallRewriteTag, TagCommit, TagTag, CreateTag, Return, InTag, TagTargetMissing, FinishTips, WritePack,
         WriteTagPack, Reset, Abort, Fail, vars
<1>7. QED
  BY <1>4, <1>6, <1>5

LEMMA ResultsInvariant == Spec => []ResultsExact
<1>1. Init => ResultsExact
  BY DEF Init, ResultsExact
<1>2. QED
  BY <1>1, StepResults, TagsInvariant, ChainInvariant, MapInvariant, PTL DEF Spec

-----------------------------------------------------------------------------
(* What is stored.  The object database is closed because what waits in    *)
(* the mempack needs only what waits with it or is durable already, and    *)
(* because no commit needs a tag: the commits can be packed first.         *)

StoreInv ==
  /\ run.odb \subseteq odb /\ Closed(odb)
  /\ \A o \in mem :
       /\ Needs(o) \subseteq mem \cup odb
       /\ o.type = "commit" => \A p \in Range(o.parents) : p.type = "commit"
  /\ pc # "failed" => Range(commits) \cup Range(tags) \subseteq mem \cup odb
  /\ pc \in {"packtags", "reset", "done"} => Range(commits) \subseteq odb
  /\ pc \in {"reset", "done"} => Range(tags) \subseteq odb

LEMMA NeedsFacts ==
  /\ \A tree : Needs(TreeObject(tree)) = {}
  /\ \A name, target : Needs(Tag(name, target)) = {target}
  /\ \A c : c.type = "commit" => Needs(c) = {TreeObject(c.tree)} \cup Range(c.parents)
BY DEF Needs, TreeObject, Tag

(* A mempack that takes in objects keeps its part of StoreInv. *)
LEMMA StoreKeeps ==
  ASSUME StoreInv, NEW objects, Store(objects), UNCHANGED <<run, odb>>,
         \A o \in objects :
           /\ Needs(o) \subseteq objects \cup mem \cup odb
           /\ o.type = "commit" => \A p \in Range(o.parents) : p.type = "commit"
  PROVE  /\ run'.odb \subseteq odb' /\ Closed(odb)'
         /\ \A o \in mem' :
              /\ Needs(o) \subseteq mem' \cup odb'
              /\ o.type = "commit" => \A p \in Range(o.parents) : p.type = "commit"
         /\ mem \cup objects \subseteq mem' \cup odb'
<1>1. mem' = mem \cup (objects \ odb) /\ odb' = odb /\ run' = run
  BY DEF Store
<1>2. Closed(odb)'
  BY <1>1 DEF StoreInv, Closed
<1>3. QED
  BY <1>1, <1>2 DEF StoreInv

LEMMA StepStore ==
  MapInv /\ MapInv' /\ ChainInv /\ TagsExact /\ StoreInv /\ [Next]_vars => StoreInv'
<1> SUFFICES ASSUME MapInv, MapInv', ChainInv, TagsExact, StoreInv, [Next]_vars PROVE StoreInv'
  OBVIOUS
<1>1. ASSUME NEW reason, Fail(reason) PROVE StoreInv'
  BY <1>1 DEF Fail, StoreInv, Closed
<1>2. ASSUME NEW c \in run.walk, RewriteOneCommit(c) PROVE StoreInv'
  <2>1. CASE ~ParentsKnown(c)
    BY <1>1, <1>2, <2>1 DEF RewriteOneCommit
  <2>2. CASE ParentsKnown(c)
    <3> DEFINE new == commits'[c]
               objects == {TreeObject(new.tree), new}
    <3>1. /\ DOMAIN commits' = DOMAIN commits \cup {c}
          /\ new = RewrittenCommit(c, ExpectedTree(c), RewrittenParents(c))
          /\ \A d \in DOMAIN commits : commits'[d] = commits[d]
      BY <1>2, <2>2, RewriteOneCommitFacts DEF MapInv
    <3>2. /\ Store(objects) /\ UNCHANGED <<run, tags, odb, pc>> /\ pc = "walk"
      <4>1. commits' = Put(commits, c, RewrittenCommit(c, FilteredTree(c), RewrittenParents(c)))
        BY <1>2, <2>2 DEF RewriteOneCommit, CommitsAfter
      <4>2. new = RewrittenCommit(c, FilteredTree(c), RewrittenParents(c))
        BY <4>1 DEF Put
      <4>3. QED
        BY <1>2, <2>2, <4>2 DEF RewriteOneCommit
    <3>3. new.type = "commit"
      BY <3>1 DEF MapInv, TypeOK
    <3>4. new.parents = RewrittenParents(c)
      BY <3>1, RewrittenFields
    <3>5. \A p \in Range(new.parents) : p \in Range(commits) /\ p.type = "commit"
      BY <2>2, <3>4 DEF ParentsKnown, RewrittenParents, Range, MapInv, TypeOK
    <3>6. Range(commits) \cup Range(tags) \subseteq mem \cup odb
      BY <3>2 DEF StoreInv
    <3>7. \A o \in objects :
            /\ Needs(o) \subseteq objects \cup mem \cup odb
            /\ o.type = "commit" => \A p \in Range(o.parents) : p.type = "commit"
      <4> HIDE DEF new
      <4>1. Needs(new) \subseteq objects \cup mem \cup odb
        BY <3>3, <3>5, <3>6, NeedsFacts
      <4>2. TreeObject(new.tree).type = "tree" /\ Needs(TreeObject(new.tree)) = {}
        BY NeedsFacts DEF TreeObject
      <4>3. QED
        BY <3>5, <4>1, <4>2
    <3>8. Range(commits') \subseteq Range(commits) \cup {new}
      BY <3>1 DEF Range
    <3> HIDE DEF new
    <3>9. QED
      BY <3>2, <3>6, <3>7, <3>8, StoreKeeps DEF StoreInv
  <2>3. QED
    BY <2>1, <2>2
<1>3. ASSUME NEW image \in Range(commits) \cup Range(tags), CreateTag(image), pc = "tips"
      PROVE  StoreInv'
  <2> DEFINE new == Tag(Top.name, image)
  <2>1. /\ tags' = Put(tags, Top, new) /\ Store({new})
        /\ UNCHANGED <<run, commits, odb, pc>>
    BY <1>3 DEF CreateTag, Return
  <2>2. Range(commits) \cup Range(tags) \subseteq mem \cup odb
    BY <1>3 DEF StoreInv
  <2>3. Needs(new) \subseteq mem \cup odb /\ new.type = "tag"
    BY <1>3, <2>2, NeedsFacts DEF Tag
  <2> HIDE DEF new
  <2>4. Range(tags') \subseteq Range(tags) \cup {new}
    BY <2>1 DEF Put, Range
  <2>5. Range(commits') = Range(commits)
    BY <2>1
  <2>6. QED
    BY <1>3, <2>1, <2>2, <2>3, <2>4, <2>5, StoreKeeps DEF StoreInv
<1>4. ASSUME UNCHANGED <<run, commits, tags, mem, odb>>,
             pc' = pc \/ (pc \in {"walk", "tips"} /\ pc' \in {"tips", "pack"})
      PROVE  StoreInv'
  BY <1>4 DEF StoreInv, Closed
<1>5. CASE WritePack
  <2>1. /\ odb' = odb \cup (IF ThinPack THEN mem ELSE Dumped)
        /\ UNCHANGED <<run, commits, tags, mem>>
        /\ pc' = IF ThinPack THEN "reset" ELSE "packtags"
        /\ pc = "pack"
    BY <1>5 DEF WritePack
  <2>2. Range(commits) \cup Range(tags) \subseteq mem \cup odb
    BY <2>1 DEF StoreInv
  <2>3. CASE ThinPack
    <3>1. Closed(odb')
      BY <2>1, <2>3 DEF StoreInv, Closed
    <3>2. QED
      BY <2>1, <2>2, <2>3, <3>1 DEF StoreInv
  <2>4. CASE ~ThinPack
    <3>1. odb' = odb \cup Dumped
      BY <2>1, <2>4
    <3>2. \A o \in mem : o.type = "commit" => o \in Dumped /\ TreeObject(o.tree) \in Dumped
      BY DEF Dumped
    <3>3. Closed(odb')
      <4> SUFFICES ASSUME NEW o \in Dumped PROVE Needs(o) \subseteq odb'
        BY <3>1 DEF StoreInv, Closed
      <4>1. CASE o \in mem /\ o.type = "commit"
        BY <3>1, <3>2, <4>1, NeedsFacts DEF StoreInv
      <4>2. CASE \E c \in mem : o = TreeObject(c.tree)
        BY <4>2, NeedsFacts
      <4>3. QED
        BY <4>1, <4>2 DEF Dumped
    <3>4. Range(commits) \subseteq odb'
      <4>1. \A o \in Range(commits) : o.type = "commit"
        BY DEF Range, MapInv, TypeOK
      <4>2. QED
        BY <2>2, <3>1, <3>2, <4>1
    <3>5. QED
      BY <2>1, <2>2, <2>4, <3>1, <3>3, <3>4 DEF StoreInv
  <2>5. QED
    BY <2>3, <2>4
<1>6. CASE WriteTagPack
  <2>1. /\ odb' = odb \cup Range(tags) /\ UNCHANGED <<run, commits, tags, mem>>
        /\ pc' = "reset" /\ pc = "packtags"
    BY <1>6 DEF WriteTagPack
  <2>2. Range(commits) \subseteq odb
    BY <2>1 DEF StoreInv
  <2>3. Closed(odb')
    <3> SUFFICES ASSUME NEW t \in DOMAIN tags PROVE Needs(tags[t]) \subseteq odb'
      BY <2>1 DEF StoreInv, Closed, Range
    <3>1. PICK image \in Range(commits) \cup Range(tags) : tags[t] = Tag(t.name, image)
      BY DEF TagsExact, Range
    <3>2. QED
      BY <2>1, <2>2, <3>1, NeedsFacts
  <2>4. QED
    BY <2>1, <2>2, <2>3 DEF StoreInv
<1>7. CASE Reset
  BY <1>7 DEF Reset, StoreInv, Closed
<1>8. CASE CopyRewrittenTip
  BY <1>1, <1>4, <1>8 DEF CopyRewrittenTip, Record, CallRewriteTag
<1>9. CASE TagCommit
  BY <1>3, <1>9 DEF TagCommit, InTag, Range
<1>10. CASE TagTag
  BY <1>3, <1>10, TagTagFacts DEF InTag, Range
<1>11. CASE TagReturnsToTip
  BY <1>4, <1>11 DEF TagReturnsToTip, Record
<1>12. QED
  BY <1>11, <1>1, <1>2, <1>4, <1>5, <1>6, <1>7, <1>8, <1>9, <1>10
     DEF Next, Step, Walk, Tips, Pack, FinishWalk, RewriteInnerTag, CallRewriteTag, TagTargetMissing,
         FinishTips, Abort, vars

LEMMA StoreInvariant == Spec => []StoreInv
<1>1. Init => StoreInv
  <2> SUFFICES ASSUME Init PROVE StoreInv
    OBVIOUS
  <2>1. Closed(run.odb)
    BY InputFacts DEF Init, IsRun
  <2>2. Range(EmptyMap) = {}
    BY DEF Range, EmptyMap
  <2>3. QED
    BY <2>1, <2>2 DEF Init, StoreInv
<1>2. QED
  BY <1>1, StepStore, TagsInvariant, ChainInvariant, MapInvariant, PTL DEF Spec

(* For every input, the repository is closed under what its objects name   *)
(* at every moment, hence wherever a crash or an error stops the run.      *)
THEOREM DurableStaysClosed == Spec => []DurableIsClosed
<1>1. StoreInv => DurableIsClosed
  BY DEF StoreInv, DurableIsClosed
<1>2. QED
  BY <1>1, StoreInvariant, PTL

(* For every input, once the run is done each ref of the list has a result *)
(* and the objects it names are durable.                                   *)
THEOREM ResultsBecomeDurable == Spec => []ResultsAreDurable
<1>1. ASSUME MapInv, ResultsExact, StoreInv, pc = "done"
      PROVE  \A i \in DOMAIN rewritten : {rewritten[i].commit, rewritten[i].ref} \subseteq odb
  <2> SUFFICES ASSUME NEW i \in DOMAIN rewritten
               PROVE  {rewritten[i].commit, rewritten[i].ref} \subseteq odb
    OBVIOUS
  <2>1. Range(commits) \subseteq odb /\ Range(tags) \subseteq odb
    BY <1>1 DEF StoreInv
  <2>2. /\ run.refs[i].tip \in DOMAIN commits
        /\ run.refs[i].kind = "tag" => run.refs[i].id \in DOMAIN tags
        /\ rewritten[i] = ResultOf(run.refs[i])
    BY <1>1 DEF ResultsExact
  <2>3. QED
    BY <2>1, <2>2 DEF ResultOf, Range
<1>2. MapInv /\ ResultsExact /\ StoreInv => ResultsAreDurable
  BY <1>1 DEF ResultsAreDurable, ResultsExact
<1>3. QED
  BY <1>2, MapInvariant, ResultsInvariant, StoreInvariant, PTL

-----------------------------------------------------------------------------
(* Chains of tags.  New tags point to what was stored before them, so tags *)
(* still do not go in circles; and the calls of rewrite_tag that have not  *)
(* returned stand on the chain from the current ref to its commit.         *)

NestInv == TagsNest(odb \cup mem)

StackInv ==
  /\ DOMAIN tags \subseteq run.odb
  /\ stack # <<>> => pc = "tips" /\ Len(rewritten) + 1 \in DOMAIN run.refs
  /\ \A i \in DOMAIN stack :
       /\ stack[i] \in run.odb
       /\ ReadInOnePiece => PeelIn(run.odb)[stack[i]] = CurrentRef.tip

(* What TagCommit and TagTag have in common: the image is stored.          *)
LEMMA ImageStored ==
  ASSUME MapInv, ChainInv, StoreInv, TagCommit \/ TagTag
  PROVE  /\ InTag /\ Top \in Range(stack)
         /\ \E image \in mem \cup odb : CreateTag(image)
<1>1. InTag /\ Range(commits) \cup Range(tags) \subseteq mem \cup odb
  BY DEF TagCommit, TagTag, InTag, StoreInv
<1>2. Top \in Range(stack)
  BY <1>1 DEF InTag, Top, MapInv, TypeOK, Range
<1>3. CASE TagCommit
  BY <1>1, <1>2, <1>3 DEF TagCommit, Range
<1>4. CASE TagTag
  BY <1>1, <1>2, <1>4, TagTagFacts DEF Range
<1>5. QED
  BY <1>3, <1>4

LEMMA StepNest == MapInv /\ ChainInv /\ StoreInv /\ NestInv /\ [Next]_vars => NestInv'
<1> SUFFICES ASSUME MapInv, ChainInv, StoreInv, NestInv, [Next]_vars PROVE NestInv'
  OBVIOUS
<1>0. Closed(odb \cup mem)
  BY DEF StoreInv, Closed
<1>1. ASSUME \A o \in odb' \cup mem' : o.type = "tag" => o \in odb \cup mem
      PROVE  NestInv'
  BY <1>1, NestSubset DEF NestInv
<1>2. ASSUME NEW reason, Fail(reason) PROVE NestInv'
  BY <1>1, <1>2 DEF Fail
<1>3. ASSUME NEW c \in run.walk, RewriteOneCommit(c) PROVE NestInv'
  <2>1. CASE ~ParentsKnown(c)
    BY <1>2, <1>3, <2>1 DEF RewriteOneCommit
  <2>2. CASE ParentsKnown(c)
    <3> DEFINE new == RewrittenCommit(c, FilteredTree(c), RewrittenParents(c))
    <3>1. Store({TreeObject(new.tree), new}) /\ odb' = odb
      BY <1>3, <2>2 DEF RewriteOneCommit
    <3>2. c.type = "commit"
      BY InputFacts DEF MapInv, TypeOK, IsRun, IsCommitOf, Commit
    <3>3. new.type = "commit"
      BY <3>2 DEF RewrittenCommit, Commit
    <3>4. TreeObject(new.tree).type = "tree"
      BY DEF TreeObject
    <3> HIDE DEF new
    <3>5. QED
      BY <1>1, <3>1, <3>3, <3>4 DEF Store
  <2>3. QED
    BY <2>1, <2>2
<1>4. CASE TagCommit \/ TagTag
  <2>1. PICK image \in mem \cup odb : CreateTag(image)
    BY <1>4, ImageStored
  <2> DEFINE new == Tag(Top.name, image)
  <2>2. mem' = mem \cup ({new} \ odb) /\ odb' = odb
    BY <2>1 DEF CreateTag, Return, Store
  <2>3. new.type = "tag" /\ new.target = image
    BY DEF Tag
  <2> HIDE DEF new
  <2>4. TagsNest((odb \cup mem) \cup {new})
    BY <1>0, <2>1, <2>3, NestAdd DEF NestInv
  <2>5. (odb \cup mem)' = (odb \cup mem) \cup {new}
    BY <2>2
  <2>6. QED
    BY <2>4, <2>5 DEF NestInv
<1>5. CASE WritePack
  <2>1. \A o \in Dumped : o.type = "tag" => o \in mem
    BY DEF Dumped, TreeObject
  <2>2. QED
    BY <1>1, <1>5, <2>1 DEF WritePack
<1>6. CASE WriteTagPack
  <2>1. Range(tags) \subseteq mem \cup odb
    BY <1>6 DEF WriteTagPack, StoreInv
  <2>2. QED
    BY <1>1, <1>6, <2>1 DEF WriteTagPack
<1>7. CASE CopyRewrittenTip
  BY <1>1, <1>2, <1>7 DEF CopyRewrittenTip, Record, CallRewriteTag
<1>8. CASE FinishWalk \/ TagReturnsToTip \/ RewriteInnerTag \/ TagTargetMissing \/ FinishTips \/ Reset \/ Abort
           \/ UNCHANGED vars
  BY <1>1, <1>2, <1>8
     DEF FinishWalk, TagReturnsToTip, Record, RewriteInnerTag, CallRewriteTag, TagTargetMissing,
         FinishTips, Reset, Abort, vars
<1>9. QED
  BY <1>3, <1>4, <1>5, <1>6, <1>7, <1>8 DEF Next, Step, Walk, Tips, Pack

LEMMA NestInvariant == Spec => []NestInv
<1>1. Init => NestInv
  <2> SUFFICES ASSUME Init PROVE NestInv
    OBVIOUS
  <2>1. odb \cup mem = run.odb
    BY DEF Init
  <2>2. QED
    BY <2>1, InputFacts DEF Init, IsRun, NestInv
<1>2. QED
  BY <1>1, StepNest, StoreInvariant, ChainInvariant, MapInvariant, PTL DEF Spec

LEMMA StepStack == MapInv /\ MapInv' /\ ChainInv /\ StoreInv /\ StackInv /\ [Next]_vars => StackInv'
<1> SUFFICES ASSUME MapInv, MapInv', ChainInv, StoreInv, StackInv, [Next]_vars PROVE StackInv'
  OBVIOUS
<1>0. IsRun(run, Trees) /\ run' = run
  BY InputFacts, OtherStepsFacts, RewriteOneCommitFacts DEF MapInv, TypeOK
<1>1. Closed(run.odb) /\ TagsNest(run.odb)
  BY <1>0 DEF IsRun
<1>2. ReadInOnePiece' = ReadInOnePiece
  BY <1>0 DEF ReadInOnePiece
<1>3. ASSUME stack' = <<>>, tags' = tags PROVE StackInv'
  BY <1>0, <1>3 DEF StackInv
<1>4. ASSUME UNCHANGED <<tags, rewritten, stack>>, pc' = pc \/ stack = <<>> PROVE StackInv'
  BY <1>0, <1>2, <1>4 DEF StackInv, CurrentRef
<1>5. ASSUME NEW reason, Fail(reason) PROVE StackInv'
  BY <1>3, <1>5 DEF Fail
<1>6. ASSUME NEW c \in run.walk, RewriteOneCommit(c) PROVE StackInv'
  BY <1>4, <1>5, <1>6 DEF RewriteOneCommit
<1>7. CASE CopyRewrittenTip
  <2>1. CASE CallRewriteTag(CurrentRef.id) /\ CurrentRef.kind = "tag"
    <3>1. Len(rewritten) + 1 \in DOMAIN run.refs /\ pc = "tips"
      BY <1>0, <1>7 DEF CopyRewrittenTip, AtTip, IsRun, MapInv, TypeOK
    <3>2. CurrentRef.id \in run.odb
      BY <1>0, <3>1 DEF CurrentRef, IsRun, IsRef
    <3>3. ReadInOnePiece => PeelIn(run.odb)[CurrentRef.id] = CurrentRef.tip
      BY <3>1 DEF CurrentRef, ReadInOnePiece
    <3>4. stack' = <<CurrentRef.id>> /\ UNCHANGED <<tags, rewritten, pc>>
      BY <1>7, <2>1 DEF CallRewriteTag, CopyRewrittenTip, AtTip
    <3>5. CurrentRef' = CurrentRef
      BY <1>0, <3>4 DEF CurrentRef
    <3>6. QED
      BY <1>0, <1>2, <3>1, <3>2, <3>3, <3>4, <3>5 DEF StackInv
  <2>2. CASE UNCHANGED <<stack, tags>>
    BY <1>3, <1>7, <2>2 DEF CopyRewrittenTip, AtTip
  <2>3. QED
    BY <1>5, <1>7, <2>1, <2>2 DEF CopyRewrittenTip, Record
<1>8. CASE RewriteInnerTag
  <2>1. /\ stack \in Seq(Range(stack)) /\ Top = stack[Len(stack)] /\ Len(stack) \in DOMAIN stack
        /\ stack' = Append(stack, Top.target) /\ UNCHANGED <<tags, rewritten, pc>>
        /\ pc = "tips" /\ Top.type = "tag"
    BY <1>8 DEF RewriteInnerTag, CallRewriteTag, InTag, Top, MapInv, TypeOK
  <2>2. Top \in run.odb /\ (ReadInOnePiece => PeelIn(run.odb)[Top] = CurrentRef.tip)
    BY <2>1 DEF StackInv
  <2>3. /\ Top.target \in run.odb
        /\ ReadInOnePiece => PeelIn(run.odb)[Top.target] = CurrentRef.tip
    BY <1>1, <2>1, <2>2, PeelSteps
  <2>4. CurrentRef' = CurrentRef
    BY <1>0, <2>1 DEF CurrentRef
  <2>5. ASSUME NEW i \in DOMAIN stack'
        PROVE  (i \in DOMAIN stack /\ stack'[i] = stack[i]) \/ stack'[i] = Top.target
    BY <2>1
  <2>6. QED
    BY <1>0, <1>2, <2>1, <2>3, <2>4, <2>5 DEF StackInv
<1>9. CASE TagCommit \/ TagTag
  <2>1. Top \in run.odb
    BY <1>9 DEF StackInv, TagCommit, TagTag, InTag, Top, MapInv, TypeOK
  <2>2. PICK image : CreateTag(image)
    BY <1>9, ImageStored
  <2>3. /\ DOMAIN tags' \subseteq DOMAIN tags \cup {Top}
        /\ stack' = SubSeq(stack, 1, Len(stack) - 1) /\ UNCHANGED <<rewritten, pc>>
    BY <2>2 DEF CreateTag, Return, Put
  <2>4. stack \in Seq(Range(stack)) /\ stack # <<>>
    BY <1>9 DEF TagCommit, TagTag, InTag, MapInv, TypeOK
  <2>5. ASSUME NEW i \in DOMAIN stack' PROVE i \in DOMAIN stack /\ stack'[i] = stack[i]
    BY <2>3, <2>4
  <2>6. CurrentRef' = CurrentRef
    BY <1>0, <2>3 DEF CurrentRef
  <2>7. QED
    BY <1>0, <1>2, <2>1, <2>3, <2>4, <2>5, <2>6 DEF StackInv
<1>10. CASE FinishWalk \/ FinishTips \/ Pack
  <2>1. stack = <<>> /\ UNCHANGED <<tags, stack>>
    BY <1>10 DEF StackInv, FinishWalk, FinishTips, Pack, WritePack, WriteTagPack, Reset
  <2>2. QED
    BY <1>3, <2>1
<1>11. CASE TagReturnsToTip
  BY <1>3, <1>11 DEF TagReturnsToTip, AtTip, Record
<1>12. CASE TagTargetMissing \/ Abort \/ UNCHANGED vars
  BY <1>4, <1>5, <1>12 DEF TagTargetMissing, Abort, vars
<1>13. QED
  BY <1>6, <1>7, <1>8, <1>9, <1>10, <1>12, <1>11 DEF Next, Step, Walk, Tips

LEMMA StackInvariant == Spec => []StackInv
<1>1. Init => StackInv
  BY DEF Init, StackInv, EmptyMap
<1>2. QED
  BY <1>1, StepStack, StoreInvariant, ChainInvariant, MapInvariant, PTL DEF Spec

(* For every input, a tag that was read in one piece with its tip never    *)
(* leads rewrite_tag out of the walk, however deep the tags are.           *)
THEOREM NoTargetLeavesTheWalk == Spec => []TargetsAreInTheWalk
<1>1. ASSUME MapInv, StackInv, TagTargetMissing, ReadInOnePiece PROVE FALSE
  <2>0. IsRun(run, Trees) /\ Closed(run.odb) /\ TagsNest(run.odb)
    BY <1>1, InputFacts DEF MapInv, TypeOK, IsRun
  <2>1. /\ pc = "tips" /\ stack # <<>> /\ Len(stack) \in DOMAIN stack
        /\ Top = stack[Len(stack)] /\ Top.type = "tag"
    BY <1>1 DEF TagTargetMissing, InTag, Top, MapInv, TypeOK
  <2>2. Top \in run.odb /\ PeelIn(run.odb)[Top] = CurrentRef.tip
    BY <1>1, <2>1 DEF StackInv
  <2>3. Top.target.type # "tag"
    BY <1>1 DEF TagTargetMissing
  <2>4. Top.target = CurrentRef.tip
    BY <2>0, <2>1, <2>2, <2>3, PeelSteps
  <2>5. CurrentRef.tip \in run.walk
    BY <1>1, <2>0, <2>1 DEF StackInv, CurrentRef, IsRun, IsRef
  <2>6. CurrentRef.tip.type = "commit" /\ CurrentRef.tip \in DOMAIN commits
    BY <1>1, <2>0, <2>1, <2>5 DEF MapInv, WalkFinished, IsRun, IsCommitOf, Commit
  <2>7. QED
    BY <1>1, <2>4, <2>6 DEF TagTargetMissing
<1>2. MapInv /\ StackInv /\ TargetsAreInTheWalk /\ [Next]_vars => TargetsAreInTheWalk'
  <2> SUFFICES ASSUME MapInv, StackInv, TargetsAreInTheWalk, [Next]_vars,
                      ReadInOnePiece', failure' = "target"
               PROVE  FALSE
    BY DEF TargetsAreInTheWalk
  <2>1. ReadInOnePiece
    <3>1. run' = run
      BY OtherStepsFacts, RewriteOneCommitFacts DEF MapInv
    <3>2. QED
      BY <3>1 DEF ReadInOnePiece
  <2>2. failure # "target" /\ ~TagTargetMissing
    BY <1>1, <2>1 DEF TargetsAreInTheWalk
  <2>3. ~CopyRewrittenTip
    BY <2>2 DEF CopyRewrittenTip, Record, CallRewriteTag, Fail
  <2>4. QED
    BY <2>2, <2>3
       DEF Next, Step, Walk, Tips, Pack, RewriteOneCommit, FinishWalk, TagReturnsToTip,
           Record, RewriteInnerTag, CallRewriteTag, TagCommit, TagTag, CreateTag, Return, FinishTips, WritePack, WriteTagPack, Reset, Abort,
           Fail, vars
<1>3. Init => TargetsAreInTheWalk
  BY DEF Init, TargetsAreInTheWalk
<1>4. QED
  BY <1>2, <1>3, StackInvariant, MapInvariant, PTL DEF Spec

(* For every input, also one whose refs moved between their two reads,     *)
(* each ref's result peels, when the run is done, to the image of the      *)
(* commit of the object that was read, through as many tags as it has.     *)
THEOREM RefsStillPeel == Spec => []RefsPeelToTheirCommits
<1>1. ASSUME MapInv, StoreInv, NestInv, StackInv, TagsExact, ResultsExact,
             pc = "done", NEW i \in DOMAIN rewritten
      PROVE  /\ CommitOf(run.refs[i]) \in DOMAIN commits
             /\ PeelIn(odb)[rewritten[i].ref] = commits[CommitOf(run.refs[i])]
  <2>1. IsRun(run, Trees) /\ Closed(run.odb) /\ TagsNest(run.odb)
    BY <1>1, InputFacts DEF MapInv, TypeOK, IsRun
  <2>2. Closed(odb) /\ TagsNest(odb)
    <3>1. \A o \in odb : o.type = "tag" => o \in odb \cup mem
      OBVIOUS
    <3>2. QED
      BY <1>1, <3>1, NestSubset DEF StoreInv, NestInv
  <2>3. \A c \in DOMAIN commits : commits[c] \in odb /\ commits[c].type = "commit"
    BY <1>1 DEF StoreInv, MapInv, TypeOK, Range
  <2>4. \A t \in DOMAIN tags : tags[t] \in odb /\ t.type = "tag" /\ t \in run.odb
    BY <1>1 DEF StoreInv, StackInv, MapInv, TypeOK, Range
  <2>5. \A t \in DOMAIN tags :
          PeelIn(run.odb)[t] \in DOMAIN commits /\ PeelIn(odb)[tags[t]] = commits[PeelIn(run.odb)[t]]
    <3>1. DOMAIN tags \subseteq {t \in run.odb : t.type = "tag"}
      BY <2>4
    <3>2. \A t \in DOMAIN tags :
            /\ tags[t] \in odb
            /\ \/ /\ t.target.type = "commit" /\ t.target \in DOMAIN commits
                  /\ tags[t] = Tag(t.name, commits[t.target])
               \/ /\ t.target.type = "tag" /\ t.target \in DOMAIN tags
                  /\ tags[t] = Tag(t.name, tags[t.target])
      BY <1>1, <2>4 DEF TagsExact
    <3>3. Closed(run.odb) /\ TagsNest(run.odb) /\ Closed(odb) /\ TagsNest(odb)
      BY <2>1, <2>2
    <3>4. QED
      BY ONLY <2>3, <3>1, <3>2, <3>3, PeelImages, Z3
  <2>6. /\ i \in DOMAIN run.refs /\ run.refs[i].tip \in DOMAIN commits
        /\ run.refs[i].kind = "tag" => run.refs[i].id \in DOMAIN tags
        /\ rewritten[i] = ResultOf(run.refs[i])
    BY <1>1 DEF ResultsExact
  <2>7. CASE run.refs[i].kind = "tag"
    BY <2>5, <2>6, <2>7 DEF ResultOf, CommitOf
  <2>8. CASE run.refs[i].kind # "tag"
    <3>1. rewritten[i].ref = commits[run.refs[i].tip] /\ CommitOf(run.refs[i]) = run.refs[i].tip
      BY <2>6, <2>8 DEF ResultOf, CommitOf
    <3>2. commits[run.refs[i].tip] \in odb /\ commits[run.refs[i].tip].type # "tag"
      BY <2>3, <2>6
    <3>3. QED
      BY <2>2, <2>6, <3>1, <3>2, PeelSteps
  <2>9. QED
    BY <2>7, <2>8
<1>2. MapInv /\ StoreInv /\ NestInv /\ StackInv /\ TagsExact /\ ResultsExact
        => RefsPeelToTheirCommits
  BY <1>1 DEF RefsPeelToTheirCommits
<1>3. QED
  BY <1>2, MapInvariant, StoreInvariant, NestInvariant, StackInvariant, TagsInvariant,
     ResultsInvariant, PTL

-----------------------------------------------------------------------------
(* The refinement. *)

LEMMA InitClean == Init => Clean!Init
BY DEF Init, Clean!Init, EmptyMap, Clean!EmptyMap

(* What the run hands over when it is done is what CleanRewrite promises. *)
LEMMA HistoryClean ==
  ASSUME MapInv, TagsExact, ResultsExact, pc \in {"reset", "done"}
  PROVE  Clean!CleanHistory(commits, tags, rewritten)
<1>1. DOMAIN commits = run.walk
  BY DEF MapInv, TypeOK, WalkFinished
<1>2. ASSUME NEW c \in run.walk PROVE Clean!IsImageOf(commits[c], c, commits)
  <2>1. commits[c] = RewrittenCommit(c, ExpectedTree(c), RewrittenParents(c))
    BY <1>1 DEF MapInv, CommitsExact
  <2>2. Clean!TreeAfter(c) = ExpectedTree(c)
    BY DEF Clean!TreeAfter, Clean!ProtectedTips, ExpectedTree, Protected, ProtectedTips
  <2>3. QED
    BY <2>1, <2>2
       DEF Clean!IsImageOf, Clean!Commit, Commit, RewrittenCommit, RewrittenParents
<1>3. ASSUME NEW t \in DOMAIN tags
      PROVE  \/ t.target \in DOMAIN commits /\ tags[t] = Clean!Tag(t.name, commits[t.target])
             \/ t.target \in DOMAIN tags /\ tags[t] = Clean!Tag(t.name, tags[t.target])
  BY DEF TagsExact, Clean!Tag, Tag
<1>4. \A t \in DOMAIN tags : t.type = "tag"
  BY DEF MapInv, TypeOK
<1>5. /\ Len(rewritten) = Len(run.refs)
      /\ \A i \in DOMAIN rewritten :
           /\ rewritten[i] = ResultOf(run.refs[i])
           /\ run.refs[i].kind = "tag" => run.refs[i].id \in DOMAIN tags
  BY DEF ResultsExact
<1>6. DOMAIN rewritten = DOMAIN run.refs
  BY <1>5, InputFacts DEF MapInv, TypeOK, IsRun
<1>7. QED
  BY <1>1, <1>2, <1>3, <1>4, <1>5, <1>6 DEF Clean!CleanHistory, ResultOf

LEMMA StepClean ==
  /\ MapInv /\ TagsExact /\ ResultsExact /\ StoreInv /\ StoreInv'
  /\ [Next]_vars
  => [Clean!Next]_(Clean!vars)
<1> SUFFICES ASSUME MapInv, TagsExact, ResultsExact, StoreInv, StoreInv', [Next]_vars
             PROVE  [Clean!Next]_(Clean!vars)
  OBVIOUS
<1>1. CASE Reset
  <2>1. /\ pc = "reset" /\ pc' = "done"
        /\ UNCHANGED <<run, commits, tags, odb, rewritten>>
    BY <1>1 DEF Reset
  <2>2. Clean!CleanHistory(commits, tags, rewritten)
    BY <2>1, HistoryClean
  <2>3. \A i \in DOMAIN rewritten : {rewritten[i].commit, rewritten[i].ref} \subseteq odb
    <3> SUFFICES ASSUME NEW i \in DOMAIN rewritten
                 PROVE  {rewritten[i].commit, rewritten[i].ref} \subseteq odb
      OBVIOUS
    <3>1. Range(commits) \subseteq odb /\ Range(tags) \subseteq odb
      BY <2>1 DEF StoreInv
    <3>2. QED
      BY <3>1 DEF ResultsExact, ResultOf, Range
  <2>4. Clean!Finish
    BY <2>1, <2>2, <2>3 DEF Clean!Finish
  <2>5. QED
    BY <2>4 DEF Clean!Next
<1>2. ASSUME NEW reason, Fail(reason), pc \notin {"done", "failed"}
      PROVE  [Clean!Next]_(Clean!vars)
  <2>1. Clean!GiveUp
    BY <1>2 DEF Fail, Clean!GiveUp
  <2>2. QED
    BY <2>1 DEF Clean!Next
<1>3. ASSUME run' = run, odb \subseteq odb',
             pc \notin {"done", "failed"}, pc' \notin {"done", "failed"}
      PROVE  [Clean!Next]_(Clean!vars)
  <2>1. Clean!Closed(odb')
    BY DEF StoreInv, Closed, Needs, TreeObject, Range,
           Clean!Closed, Clean!Needs, Clean!TreeObject, Clean!Range
  <2>2. Clean!Grow
    BY <1>3, <2>1 DEF Clean!Grow
  <2>3. QED
    BY <2>2 DEF Clean!Next
<1>4. ASSUME NEW c \in run.walk, RewriteOneCommit(c) PROVE [Clean!Next]_(Clean!vars)
  BY <1>2, <1>3, <1>4 DEF RewriteOneCommit
<1>5. CASE CopyRewrittenTip \/ TagReturnsToTip
  BY <1>2, <1>3, <1>5 DEF CopyRewrittenTip, TagReturnsToTip, AtTip, Record, CallRewriteTag
<1>6. CASE RewriteInnerTag \/ TagCommit \/ TagTag \/ TagTargetMissing
  BY <1>2, <1>3, <1>6
     DEF RewriteInnerTag, CallRewriteTag, TagCommit, TagTag, TagTargetMissing, CreateTag, Return,
         InTag
<1>7. CASE FinishWalk \/ FinishTips \/ WritePack \/ WriteTagPack
  BY <1>3, <1>7 DEF FinishWalk, FinishTips, WritePack, WriteTagPack
<1>8. CASE Abort
  BY <1>2, <1>8 DEF Abort
<1>9. CASE UNCHANGED vars
  BY <1>9 DEF vars, Clean!vars
<1>10. QED
  BY <1>1, <1>4, <1>5, <1>6, <1>7, <1>8, <1>9 DEF Next, Step, Walk, Tips, Pack

(* For every input and both builds, a run does what CleanRewrite promises: *)
(* it can be thought of as one step from the old history to the clean one, *)
(* or to no result, whatever its walk order, memos, recursion and packs.   *)
THEOREM Refinement == Spec => ImplementsCleanRewrite
BY InitClean, StepClean, MapInvariant, TagsInvariant, ResultsInvariant, StoreInvariant, PTL
   DEF Spec, ImplementsCleanRewrite, Clean!Spec

-----------------------------------------------------------------------------
(* CleanHistory leaves no choice, so what a run makes of its input does    *)
(* not depend on how it went.                                              *)

(* Commits do not go in circles: the walk returned them one after another, *)
(* parents first.                                                          *)
CommitsNest ==
  \A set \in SUBSET DOMAIN commits :
    set # {} => \E c \in set : \A i \in DOMAIN c.parents : c.parents[i] \notin set

LEMMA StepCommitsNest == MapInv /\ CommitsNest /\ [Next]_vars => CommitsNest'
<1> SUFFICES ASSUME MapInv, CommitsNest, [Next]_vars, NEW set \in SUBSET DOMAIN commits', set # {}
             PROVE  \E c \in set : \A i \in DOMAIN c.parents : c.parents[i] \notin set
  BY DEF CommitsNest
<1>1. CASE \E c \in run.walk : RewriteOneCommit(c) /\ ParentsKnown(c)
  <2>1. PICK c \in run.walk : RewriteOneCommit(c) /\ ParentsKnown(c)
    BY <1>1
  <2>2. c \notin DOMAIN commits /\ DOMAIN commits' = DOMAIN commits \cup {c}
    BY <2>1, RewriteOneCommitFacts DEF MapInv
  <2>3. CASE set \ {c} = {}
    BY <2>1, <2>2, <2>3 DEF ParentsKnown
  <2>4. CASE set \ {c} # {}
    <3>1. set \ {c} \in SUBSET DOMAIN commits
      BY <2>2
    <3>2. PICK d \in set \ {c} : \A i \in DOMAIN d.parents : d.parents[i] \notin set \ {c}
      BY <2>4, <3>1 DEF CommitsNest
    <3>3. \A i \in DOMAIN d.parents : d.parents[i] \in DOMAIN commits
      BY <3>1, <3>2 DEF MapInv, CommitsExact, ParentsKnown
    <3>4. QED
      BY <2>2, <3>2, <3>3
  <2>5. QED
    BY <2>3, <2>4
<1>2. CASE \A c \in run.walk : ~(RewriteOneCommit(c) /\ ParentsKnown(c))
  BY <1>2, OtherStepsFacts DEF CommitsNest
<1>3. QED
  BY <1>1, <1>2

LEMMA CommitsNestInvariant == Spec => []CommitsNest
<1>1. Init => CommitsNest
  BY DEF Init, CommitsNest, EmptyMap
<1>2. QED
  BY <1>1, StepCommitsNest, MapInvariant, PTL DEF Spec

(* Two histories that are clean give each commit the same image.           *)
LEMMA OneImage ==
  ASSUME CommitsNest, DOMAIN commits = run.walk, NEW map, NEW other,
         \A c \in run.walk : \A i \in DOMAIN c.parents : c.parents[i] \in run.walk,
         \A c \in run.walk : Clean!IsImageOf(map[c], c, map) /\ Clean!IsImageOf(other[c], c, other)
  PROVE  \A c \in run.walk : map[c] = other[c]
<1> DEFINE bad == {c \in run.walk : map[c] # other[c]}
<1>1. SUFFICES ASSUME bad # {} PROVE FALSE
  OBVIOUS
<1>2. PICK c \in bad : \A i \in DOMAIN c.parents : c.parents[i] \notin bad
  BY <1>1 DEF CommitsNest
<1> DEFINE images(m) == [i \in DOMAIN c.parents |-> m[c.parents[i]]]
           image(parents) == IF Clean!TreeAfter(c) = c.tree /\ parents = c.parents THEN c
                             ELSE Clean!Commit(c.msg, FALSE, Clean!TreeAfter(c), parents)
<1>3. images(map) = images(other)
  BY <1>2
<1>4. map[c] = other[c]
  <2>1. map[c] = image(images(map)) /\ other[c] = image(images(other))
    BY <1>2 DEF Clean!IsImageOf
  <2> HIDE DEF images, image
  <2>2. QED
    BY <1>3, <2>1
<1>5. QED
  BY <1>2, <1>4

(* Two histories that are clean and have the same images of commits give   *)
(* each tag that both rewrite the same image.                              *)
LEMMA OneTagImage ==
  ASSUME IsRun(run, Trees), NEW map, NEW other, NEW tagmap, NEW othertags, NEW refs, NEW otherrefs,
         Clean!CleanHistory(map, tagmap, refs), Clean!CleanHistory(other, othertags, otherrefs),
         \A c \in run.walk : map[c] = other[c],
         DOMAIN tagmap \subseteq run.odb
  PROVE  \A t \in DOMAIN tagmap \cap DOMAIN othertags : tagmap[t] = othertags[t]
<1> DEFINE bad == {t \in DOMAIN tagmap \cap DOMAIN othertags : tagmap[t] # othertags[t]}
<1>1. SUFFICES ASSUME bad # {} PROVE FALSE
  OBVIOUS
<1>2. /\ DOMAIN map = run.walk /\ DOMAIN other = run.walk
      /\ \A t \in DOMAIN tagmap \cup DOMAIN othertags : t.type = "tag"
      /\ \A t \in DOMAIN tagmap :
           \/ t.target \in run.walk /\ tagmap[t] = Clean!Tag(t.name, map[t.target])
           \/ t.target \in DOMAIN tagmap /\ tagmap[t] = Clean!Tag(t.name, tagmap[t.target])
      /\ \A t \in DOMAIN othertags :
           \/ t.target \in run.walk /\ othertags[t] = Clean!Tag(t.name, other[t.target])
           \/ /\ t.target \in DOMAIN othertags
              /\ othertags[t] = Clean!Tag(t.name, othertags[t.target])
  BY DEF Clean!CleanHistory
<1>3. bad \in SUBSET {o \in run.odb : o.type = "tag"}
  BY <1>2
<1>4. PICK t \in bad : t.target \notin bad
  <2> HIDE DEF bad
  <2>1. QED
    BY <1>1, <1>3 DEF IsRun, TagsNest
<1>5. \A c \in run.walk : c.type = "commit"
  BY DEF IsRun, IsCommitOf, Commit
<1>6. CASE t.target \in run.walk
  BY <1>2, <1>4, <1>5, <1>6
<1>7. CASE t.target \notin run.walk
  BY <1>2, <1>4, <1>7
<1>8. QED
  BY <1>6, <1>7

(* For every input, build, order of the walk and fill of the memos, a run  *)
(* that returns has the only clean history that there is: whoever writes   *)
(* one down maps the same commits to the same commits and gives the refs   *)
(* the same results.                                                       *)
THEOREM OneResult ==
  Spec => [](pc = "done" =>
               \A map, tagmap, refs :
                 Clean!CleanHistory(map, tagmap, refs) =>
                   /\ \A c \in run.walk : map[c] = commits[c]
                   /\ \A i \in DOMAIN run.refs : refs[i] = rewritten[i])
<1>1. ASSUME MapInv, StackInv, TagsExact, ResultsExact, CommitsNest, pc = "done",
             NEW map, NEW tagmap, NEW refs, Clean!CleanHistory(map, tagmap, refs)
      PROVE  /\ \A c \in run.walk : map[c] = commits[c]
             /\ \A i \in DOMAIN run.refs : refs[i] = rewritten[i]
  <2>0. IsRun(run, Trees)
    BY <1>1, InputFacts DEF MapInv, TypeOK
  <2>1. Clean!CleanHistory(commits, tags, rewritten)
    BY <1>1, HistoryClean
  <2>2. DOMAIN commits = run.walk
    BY <2>1 DEF Clean!CleanHistory
  <2>3. \A c \in run.walk : \A i \in DOMAIN c.parents : c.parents[i] \in run.walk
    BY <1>1, <2>2 DEF MapInv, CommitsExact, ParentsKnown
  <2>4. \A c \in run.walk :
          Clean!IsImageOf(map[c], c, map) /\ Clean!IsImageOf(commits[c], c, commits)
    BY <1>1, <2>1 DEF Clean!CleanHistory
  <2>5. \A c \in run.walk : map[c] = commits[c]
    BY <1>1, <2>2, <2>3, <2>4, OneImage
  <2>6. \A t \in DOMAIN tags \cap DOMAIN tagmap : tags[t] = tagmap[t]
    BY <1>1, <2>0, <2>1, <2>5, OneTagImage DEF StackInv
  <2>7. ASSUME NEW i \in DOMAIN run.refs PROVE refs[i] = rewritten[i]
    <3>1. /\ refs[i] = [commit |-> map[run.refs[i].tip],
                        ref |-> IF run.refs[i].kind = "tag" THEN tagmap[run.refs[i].id]
                                ELSE map[run.refs[i].tip]]
          /\ rewritten[i] = [commit |-> commits[run.refs[i].tip],
                             ref |-> IF run.refs[i].kind = "tag" THEN tags[run.refs[i].id]
                                     ELSE commits[run.refs[i].tip]]
          /\ run.refs[i].kind = "tag" => run.refs[i].id \in DOMAIN tags \cap DOMAIN tagmap
      BY <1>1, <2>1 DEF Clean!CleanHistory
    <3>2. run.refs[i].tip \in run.walk
      BY <2>0 DEF IsRun, IsRef
    <3>3. QED
      BY <2>5, <2>6, <3>1, <3>2
  <2>8. QED
    BY <2>5, <2>7
<1>2. MapInv /\ StackInv /\ TagsExact /\ ResultsExact /\ CommitsNest =>
        (pc = "done" =>
           \A map, tagmap, refs :
             Clean!CleanHistory(map, tagmap, refs) =>
               /\ \A c \in run.walk : map[c] = commits[c]
               /\ \A i \in DOMAIN run.refs : refs[i] = rewritten[i])
  BY <1>1
<1>3. QED
  BY <1>2, MapInvariant, StackInvariant, TagsInvariant, ResultsInvariant,
     CommitsNestInvariant, PTL
=============================================================================
