--------------------------- MODULE HistoryRewrite ---------------------------
(***************************************************************************)
(* One history rewrite of bbfg, from the moment the tips have been pushed  *)
(* on the revwalk until the new objects are durable or the run has failed: *)
(* src/src/rewrite.c (bbfg_rewrite_ref_histories, and its one-ref form     *)
(* rewrite_history_from_commit) with src/src/mempack.c.                    *)
(*                                                                         *)
(* A tree is opaque here; CleanTree gives the tree bbfg_filter_apply_tree  *)
(* returns for it (module TreeFilter says what that tree is).  The refs    *)
(* are updated afterwards, by RefTransaction.                              *)
(***************************************************************************)
EXTENDS GitObjects

CONSTANTS
  Trees,      \* the trees commits may have
  CleanTree,  \* what the filter makes of each tree; itself when no rule matches
  ThinPack,   \* BBFG_LIBGIT2_HAS_THIN_PACK: the build has git_mempack_write_thin_pack
  Runs        \* the inputs of a run, see IsRun in GitObjects

ASSUME TreesAssumption ==
  /\ CleanTree \in [Trees -> Trees]
  /\ \A t \in Trees : CleanTree[CleanTree[t]] = CleanTree[t]
ASSUME ThinPackAssumption == ThinPack \in BOOLEAN
ASSUME RunsAssumption == \A r \in Runs : IsRun(r, Trees)

VARIABLES
  run,        \* the input, never changed
  walked,     \* the commits the revwalk has returned
  commits,    \* state.commits: original commit -> rewritten commit
  trees,      \* state.trees: memo of the tree filter
  tags,       \* state.tags: original tag -> rewritten tag
  mem,        \* the objects in the mempack backend, lost unless packed
  odb,        \* the durable objects
  rewritten,  \* per ref handled so far: rewritten_commit_id, rewritten_ref_id
  stack,      \* the rewrite_tag calls that have not returned, innermost last
  returned,   \* the result of a rewrite_tag call that has just returned, or {}
  pc,         \* "walk", "tips", "pack", "packtags", "reset", "done", "failed"
  failure     \* why the run failed: "none", "io", "parent", "tip", "target"

vars ==
  <<run, walked, commits, trees, tags, mem, odb, rewritten, stack, returned, pc, failure>>

Init ==
  /\ run \in Runs
  /\ walked = {} /\ commits = EmptyMap /\ trees = EmptyMap /\ tags = EmptyMap
  /\ mem = {} /\ odb = run.odb
  /\ rewritten = <<>> /\ stack = <<>> /\ returned = {}
  /\ pc = "walk" /\ failure = "none"

(* git_odb_write: an object that is already there is only freshened. *)
Store(objects) == mem' = mem \cup (objects \ odb)

Fail(reason) ==
  /\ pc' = "failed" /\ failure' = reason
  /\ mem' = {} /\ stack' = <<>> /\ returned' = {}
  /\ UNCHANGED <<run, walked, commits, trees, tags, odb, rewritten>>

-----------------------------------------------------------------------------
(* The walk: rewrite_one_commit for each commit the revwalk returns. *)

Protected(c) == c \in ProtectedTips(run)

(* Defect: the memo is consulted before the protection. *)
FilteredTreeMemoFirst(c) ==
  IF c.tree \in DOMAIN trees THEN trees[c.tree]
  ELSE IF Protected(c) THEN c.tree
  ELSE CleanTree[c.tree]

(* filter_commit_tree.  A protected tip neither reads nor fills the memo. *)
FilteredTree(c) ==
  IF Protected(c) THEN c.tree
  ELSE IF c.tree \in DOMAIN trees THEN trees[c.tree]
  ELSE CleanTree[c.tree]

(* Defect: the tree of a protected tip enters the memo. *)
MemoAfterTipsToo(c) == Put(trees, c.tree, FilteredTree(c))

MemoAfter(c) ==
  IF Protected(c) THEN trees ELSE Put(trees, c.tree, FilteredTree(c))

(* Defects: a commit is taken as unchanged on its tree alone; the headers   *)
(* that vouch for the old content are copied.                               *)
RewrittenCommitTreeOnly(c, tree, parents) ==
  IF tree = c.tree THEN c ELSE Commit(c.msg, FALSE, tree, parents)
RewrittenCommitStillSigned(c, tree, parents) == Commit(c.msg, c.signed, tree, parents)

(* create_rewritten_commit; an unchanged commit keeps its id, signature and all. *)
RewrittenCommit(c, tree, parents) ==
  IF tree = c.tree /\ parents = c.parents
  THEN c
  ELSE Commit(c.msg, FALSE, tree, parents)

ParentsKnown(c) == \A i \in DOMAIN c.parents : c.parents[i] \in DOMAIN commits
RewrittenParents(c) == [i \in DOMAIN c.parents |-> commits[c.parents[i]]]

(* GIT_SORT_TOPOLOGICAL | GIT_SORT_REVERSE: some order with parents first. *)
WalkMayReturn(c) == c \in run.walk \ walked /\ Range(c.parents) \subseteq walked

(* Defect: a commit that stays as it is does not enter the map. *)
CommitsAfterChangedOnly(c, new) == IF new = c THEN commits ELSE Put(commits, c, new)

CommitsAfter(c, new) == Put(commits, c, new)

(* Defect: the next iteration gets the same commit from the walk again. *)
RewriteOneCommitAgain(c) ==
  /\ pc = "walk" /\ WalkMayReturn(c) /\ ParentsKnown(c)
  /\ LET new == RewrittenCommit(c, FilteredTree(c), RewrittenParents(c)) IN
       /\ commits' = CommitsAfter(c, new)
       /\ Store({TreeObject(new.tree), new})
  /\ trees' = MemoAfter(c)
  /\ UNCHANGED <<run, walked, tags, odb, rewritten, stack, returned, pc, failure>>

RewriteOneCommit(c) ==
  /\ pc = "walk"
  /\ WalkMayReturn(c)
  /\ IF ParentsKnown(c)
     THEN LET new == RewrittenCommit(c, FilteredTree(c), RewrittenParents(c)) IN
            /\ walked' = walked \cup {c}
            /\ commits' = CommitsAfter(c, new)
            /\ trees' = MemoAfter(c)
            /\ Store({TreeObject(new.tree), new})
            /\ UNCHANGED <<run, tags, odb, rewritten, stack, returned, pc, failure>>
     ELSE Fail("parent")

FinishWalk ==
  /\ pc = "walk" /\ run.walk \subseteq walked
  /\ pc' = "tips"
  /\ UNCHANGED <<run, walked, commits, trees, tags, mem, odb, rewritten, stack, returned, failure>>

-----------------------------------------------------------------------------
(* The tips: copy_rewritten_ref_tips, ref by ref. *)

AtTip == pc = "tips" /\ stack = <<>> /\ Len(rewritten) < Len(run.refs)
CurrentRef == run.refs[Len(rewritten) + 1]

Record(ref) ==
  /\ rewritten' = Append(rewritten, [commit |-> commits[CurrentRef.tip], ref |-> ref])
  /\ returned' = {}
  /\ UNCHANGED <<run, walked, commits, trees, tags, mem, odb, stack, pc, failure>>

CallRewriteTag(tag) ==
  /\ stack' = Append(stack, tag)
  /\ UNCHANGED <<run, walked, commits, trees, tags, mem, odb, rewritten, returned, pc, failure>>

(* rewrite_tag answers from its memo, or starts to create the tag. *)
CopyRewrittenTip ==
  /\ AtTip /\ returned = {}
  /\ IF CurrentRef.tip \notin DOMAIN commits THEN Fail("tip")
     ELSE \/ CurrentRef.kind = "direct" /\ Record(commits[CurrentRef.tip])
          \/ /\ CurrentRef.kind = "tag" /\ CurrentRef.id \in DOMAIN tags
             /\ Record(tags[CurrentRef.id])
          \/ /\ CurrentRef.kind = "tag" /\ CurrentRef.id \notin DOMAIN tags
             /\ CallRewriteTag(CurrentRef.id)

(* rewrite_tag has returned what the ref is to point to. *)
TagReturnsToTip == AtTip /\ \E image \in returned : Record(image)

InTag == pc = "tips" /\ stack # <<>>
Top == stack[Len(stack)]

(* The tag points to a tag that has no image yet: rewrite_tag calls itself. *)
RewriteInnerTag ==
  /\ InTag /\ returned = {}
  /\ Top.target.type = "tag" /\ Top.target \notin DOMAIN tags
  /\ CallRewriteTag(Top.target)

(* Defect: what a tag points to is looked for among the commits only. *)
TagTargetMissingFlat == InTag /\ Top.target \notin DOMAIN commits /\ Fail("target")

TagTargetMissing ==
  /\ InTag
  /\ \/ Top.target.type \notin {"commit", "tag"}
     \/ Top.target.type = "commit" /\ Top.target \notin DOMAIN commits
  /\ Fail("target")

(* The innermost call returns, with the tag that it created. *)
Return(tag) ==
  /\ Store({tag})
  /\ stack' = SubSeq(stack, 1, Len(stack) - 1)
  /\ returned' = {tag}
  /\ UNCHANGED <<run, walked, commits, trees, odb, rewritten, pc, failure>>

(* Defects: the map gets the id of the target; it gets nothing. *)
CreateTagWrongId(image) == tags' = Put(tags, Top, image) /\ Return(Tag(Top.name, image))
CreateTagNotRecorded(image) == UNCHANGED tags /\ Return(Tag(Top.name, image))

(* git_tag_annotation_create always builds the tag again; when its target  *)
(* kept its id the result is the original tag.                             *)
CreateTag(image) ==
  LET new == Tag(Top.name, image) IN tags' = Put(tags, Top, new) /\ Return(new)

(* Defect: the tag is created again on its original target. *)
TagCommitOldTarget ==
  /\ InTag /\ Top.target.type = "commit" /\ Top.target \in DOMAIN commits
  /\ CreateTag(Top.target)

TagCommit ==
  /\ InTag /\ Top.target.type = "commit" /\ Top.target \in DOMAIN commits
  /\ CreateTag(commits[Top.target])

(* The image of an inner tag comes from the memo, or from the inner call. *)
TagTag ==
  /\ InTag /\ Top.target.type = "tag"
  /\ \/ returned = {} /\ Top.target \in DOMAIN tags /\ CreateTag(tags[Top.target])
     \/ \E image \in returned : CreateTag(image)

FinishTips ==
  /\ pc = "tips" /\ stack = <<>> /\ Len(rewritten) = Len(run.refs)
  /\ pc' = "pack"
  /\ UNCHANGED <<run, walked, commits, trees, tags, mem, odb, rewritten, stack, returned, failure>>

-----------------------------------------------------------------------------
(* The packs: bbfg_mempack_commit. *)

(* git_mempack_dump packs the new commits and, recursively, their trees. *)
Dumped ==
  LET new == {o \in mem : o.type = "commit"}
  IN  new \cup {TreeObject(c.tree) : c \in new}

(* Defect: the pack goes without its trees. *)
WritePackNoTrees ==
  /\ pc = "pack"
  /\ odb' = odb \cup {o \in mem : o.type # "tree"}
  /\ pc' = IF ThinPack THEN "reset" ELSE "packtags"
  /\ UNCHANGED <<run, walked, commits, trees, tags, mem, rewritten, stack, returned, failure>>

WritePack ==
  /\ pc = "pack"
  /\ odb' = odb \cup (IF ThinPack THEN mem ELSE Dumped)
  /\ pc' = IF ThinPack THEN "reset" ELSE "packtags"
  /\ UNCHANGED <<run, walked, commits, trees, tags, mem, rewritten, stack, returned, failure>>

(* Defect: only the tags that refs point to are packed. *)
WriteTagPackOuterOnly ==
  /\ pc = "packtags"
  /\ odb' = odb \cup {rewritten[i].ref : i \in DOMAIN rewritten}
  /\ pc' = "reset"
  /\ UNCHANGED <<run, walked, commits, trees, tags, mem, rewritten, stack, returned, failure>>

(* write_tag_pack packs the images of all tags, those of inner tags too. *)
WriteTagPack ==
  /\ pc = "packtags"
  /\ odb' = odb \cup Range(tags)
  /\ pc' = "reset"
  /\ UNCHANGED <<run, walked, commits, trees, tags, mem, rewritten, stack, returned, failure>>

Reset ==
  /\ pc = "reset"
  /\ mem' = {} /\ pc' = "done"
  /\ UNCHANGED <<run, walked, commits, trees, tags, odb, rewritten, stack, returned, failure>>

(* A libgit2 call or an allocation fails and the run aborts, or the        *)
(* process is killed: either way the mempack is gone, the packs stay.      *)
Abort ==
  /\ pc \notin {"done", "failed"}
  /\ Fail("io")

-----------------------------------------------------------------------------
Walk == (\E c \in run.walk : RewriteOneCommit(c)) \/ FinishWalk
Tips ==
  \/ CopyRewrittenTip \/ TagReturnsToTip
  \/ RewriteInnerTag \/ TagCommit \/ TagTag \/ TagTargetMissing
  \/ FinishTips
Pack == WritePack \/ WriteTagPack \/ Reset
Step == Walk \/ Tips \/ Pack

Next == Step \/ Abort

Spec == Init /\ [][Next]_vars
(* The process runs: it is never blocked on anyone, so its steps happen. *)
FairSpec == Spec /\ WF_vars(Step)

-----------------------------------------------------------------------------
(* Properties. *)

(* The state stays well typed: the maps go from objects of the walk to     *)
(* objects of the same type, each phase has the shape its name says.       *)
TypeOK ==
  /\ run \in Runs
  /\ walked \subseteq run.walk /\ DOMAIN commits \subseteq run.walk
  /\ \A c \in DOMAIN commits : commits[c].type = "commit" /\ commits[c].tree \in Trees
  /\ trees \in [DOMAIN trees -> Trees] /\ DOMAIN trees \subseteq Trees
  /\ \A t \in DOMAIN tags : t.type = "tag" /\ tags[t].type = "tag"
  /\ rewritten \in Seq(Range(rewritten)) /\ Len(rewritten) <= Len(run.refs)
  /\ stack \in Seq(Range(stack)) /\ \A i \in DOMAIN stack : stack[i].type = "tag"
  /\ \A image \in returned : image.type = "tag"
  /\ pc \in {"walk", "tips", "pack", "packtags", "reset", "done", "failed"}
  /\ failure \in {"none", "io", "parent", "tip", "target"}
  /\ (pc = "failed") = (failure # "none")

(* Every rewritten commit is its original over the images of its parents,  *)
(* with the tree the filter gives, or its own tree if it is a protected    *)
(* tip, whatever order the walk took and whatever the tree memo held when  *)
(* filter_commit_tree consulted it.                                        *)
CommitsFaithful ==
  \A c \in DOMAIN commits :
    /\ ParentsKnown(c)
    /\ commits[c].msg = c.msg
    /\ commits[c].tree = IF Protected(c) THEN c.tree ELSE CleanTree[c.tree]
    /\ commits[c].parents = RewrittenParents(c)

(* No ancestor of a rewritten commit has a tree the filter would change,   *)
(* except where a protected tip kept it: the parents of a rewritten commit *)
(* are rewritten commits, and a dirty tree belongs to a protected tip.     *)
(* This is what a rewrite is for (README: older commits are filtered,      *)
(* while a protected tip keeps its tree).                                  *)
OnlyTipsStayDirty ==
  \A c \in DOMAIN commits :
    /\ Range(commits[c].parents) \subseteq Range(commits)
    /\ CleanTree[commits[c].tree] # commits[c].tree => c \in ProtectedTips(run)

(* A commit keeps its id exactly when nothing it or an ancestor of it      *)
(* carries was filtered (create_rewritten_commit); in particular a         *)
(* signature survives only on such a commit and is never copied to another.*)
IdentityExactlyWhenUntouched ==
  \A c \in DOMAIN commits :
    /\ commits[c] = c <=>
         /\ commits[c].tree = c.tree
         /\ \A i \in DOMAIN c.parents : commits[c.parents[i]] = c.parents[i]
    /\ commits[c].signed => commits[c] = c

(* Without protection a rewrite is stable: where a walk meets the result   *)
(* of rewriting one of its commits (a branch rewritten by an earlier run,  *)
(* next to a branch that was not), that result is its own image, so both   *)
(* branches end on the same commits and a second run changes nothing.      *)
ResultsAreFixedPoints ==
  ~run.protect =>
    \A c \in DOMAIN commits :
      commits[c] \in DOMAIN commits => commits[commits[c]] = commits[c]

(* An image, once recorded, is final: neither a commit, nor a tree of the  *)
(* memo, nor a tag is ever mapped again to something else, so objects      *)
(* created early and late in a run refer to the same history.              *)
MapsOnlyGrow ==
  [][/\ \A c \in DOMAIN commits : c \in DOMAIN commits' /\ commits'[c] = commits[c]
     /\ \A t \in DOMAIN trees : t \in DOMAIN trees' /\ trees'[t] = trees[t]
     /\ \A t \in DOMAIN tags : t \in DOMAIN tags' /\ tags'[t] = tags[t]]_vars

(* At no moment, so after no crash or error either, does the object        *)
(* database hold an object without the objects it names: the two packs of  *)
(* bbfg_mempack_commit are written in an order that allows for a stop      *)
(* between them, and nothing is missing from them.                         *)
DurableIsClosed == Closed(odb)

(* When the run returns success every object a ref is about to point to is *)
(* durable, although until then it may have lived only in the mempack.     *)
ResultsAreDurable ==
  pc = "done" =>
    /\ Len(rewritten) = Len(run.refs)
    /\ \A i \in DOMAIN rewritten : {rewritten[i].commit, rewritten[i].ref} \subseteq odb

(* What BFG_C_REWRITE_STUDY.md:78 asks: "Protected blobs and trees should   *)
(* be inserted into the memo table as identity mappings before cleaning     *)
(* begins".  The code does not: the memo may send the tree of a protected   *)
(* tip elsewhere, when an older commit has the same tree.                   *)
ProtectedTreesAreIdentity ==
  \A tip \in ProtectedTips(run) :
    tip.tree \in DOMAIN trees => trees[tip.tree] = tip.tree

(* The lookups of load_rewritten_parents and of the tips never miss: each  *)
(* commit that the walk returned is in the map, those that stay as they    *)
(* are too, and it returned the parents of a commit before the commit; and *)
(* when it is over every tip has an image, also that of a ref that moved   *)
(* between its two reads.                                                  *)
LookupsNeverMiss == failure \notin {"parent", "tip"}

(* A tag that was read in one piece with its tip never leads out of the    *)
(* walk, through however many tags: rewrite_tag does not fail for want of  *)
(* a target.                                                               *)
ReadInOnePiece ==
  \A i \in DOMAIN run.refs : PeelIn(run.odb)[run.refs[i].id] = run.refs[i].tip
TargetsAreInTheWalk == ReadInOnePiece => failure # "target"

(* When the run returns success each ref's new object peels, through as    *)
(* many tags, to the image of the commit that the ref's old object peels   *)
(* to: for a tag that of the tag that was read, for a direct ref that of   *)
(* its tip.  Read in one piece or not, no ref is given the history of      *)
(* another object than the one the program looked at.                      *)
CommitOf(ref) == IF ref.kind = "tag" THEN PeelIn(run.odb)[ref.id] ELSE ref.tip
RefsPeelToTheirCommits ==
  pc = "done" =>
    \A i \in DOMAIN rewritten :
      /\ CommitOf(run.refs[i]) \in DOMAIN commits
      /\ PeelIn(odb)[rewritten[i].ref] = commits[CommitOf(run.refs[i])]

(* The run ends: every recursive call of rewrite_tag returns, no phase is  *)
(* left without a step.                                                    *)
Terminates == <>(pc \in {"done", "failed"})

(* The run implements CleanRewrite: all orders of the walk and all fills   *)
(* of the memos lead to the one history a reader would write down.         *)
Clean == INSTANCE CleanRewrite WITH
  durable <- odb,
  images  <- IF pc = "done" THEN commits ELSE EmptyMap,
  retags  <- IF pc = "done" THEN tags ELSE EmptyMap,
  results <- IF pc = "done" THEN rewritten ELSE <<>>,
  status  <- IF pc \in {"done", "failed"} THEN pc ELSE "busy"
ImplementsCleanRewrite == Clean!Spec
=============================================================================
