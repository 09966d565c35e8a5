----------------------------- MODULE TreeFilter -----------------------------
(***************************************************************************)
(* What a command makes of one tree: filter_commit_tree (src/src/rewrite.c,*)
(* for a commit that is not protected) on top of src/src/filter.c and      *)
(* src/src/tree.c, and bbfg_remove_head_tree_entry (src/src/commands.c) on *)
(* top of tree.c alone.  HistoryRewrite knows this as CleanTree.           *)
(*                                                                         *)
(* A tree is a function from entry names to entries.  A path is the        *)
(* sequence of what stands between its slashes, so "d/" is <<"d", "">> and *)
(* "/d" is <<"", "d">>.                                                    *)
(***************************************************************************)
EXTENDS FilterRules, Naturals, Sequences, Functions

CONSTANTS
  Names,      \* the names entries may have
  Sizes,      \* the sizes blobs may have
  MaxDepth,   \* the directories that may lie below one another in a tree
  Originals,  \* the trees that are filtered
  Filters     \* the filters considered: sequences of rules

Blob(size) == [type |-> "blob", size |-> size]
Gitlink == [type |-> "commit"]
Subtree(tree) == [type |-> "tree", tree |-> tree]
EmptyTree == [name \in {} |-> Gitlink]
Subtrees(tree) == {name \in DOMAIN tree : tree[name].type = "tree"}
Without(tree, name) == Restrict(tree, DOMAIN tree \ {name})

(* The trees git can hold, by the depth of their directories. *)
TreesOver(entries) == UNION {[names -> entries] : names \in SUBSET Names}
FlatEntries == {Blob(size) : size \in Sizes} \cup {Gitlink}
TreesUpTo[depth \in Nat] ==
  TreesOver(FlatEntries \cup
            (IF depth = 0 THEN {} ELSE {Subtree(tree) : tree \in TreesUpTo[depth - 1]}))
Trees == TreesUpTo[MaxDepth]

Paths == Seq(Names \cup {""}) \ {<<>>}
IsRule(rule) ==
  \/ rule.kind = "path" /\ rule.path \in Paths
  \/ rule.kind = "filename" /\ rule.name \in Names \cup {""}
  \/ rule.kind = "large" /\ rule.max \in Nat

ASSUME NamesAssumption == "" \notin Names
ASSUME SizesAssumption == Sizes \subseteq Nat
ASSUME DepthAssumption == MaxDepth \in Nat
ASSUME OriginalsAssumption == Originals \subseteq Trees
ASSUME FiltersAssumption ==
  \A filter \in Filters :
    filter \in Seq(Range(filter)) /\ \A i \in DOMAIN filter : IsRule(filter[i])

-----------------------------------------------------------------------------
(* tree.c.  An operation that may fail yields the set of its results: none *)
(* if it fails.                                                            *)

(* replace_subtree_entry: a subtree that became empty goes away. *)
ReplaceSubtree(tree, name, subtree) ==
  IF subtree = EmptyTree THEN Without(tree, name)
  ELSE [tree EXCEPT ![name] = Subtree(subtree)]

(* Defect: a path is looked for at the top only. *)
RemovePathAtTop(tree, path) ==
  {Without(tree, n) : n \in DOMAIN tree \cap (IF Len(path) = 1 THEN {path[1]} ELSE {})}

RemovePath(tree, path) ==
  LET remove[t \in Trees] ==
        [p \in Paths |->
           IF Len(p) = 1 THEN {Without(t, n) : n \in DOMAIN t \cap {p[1]}}
           ELSE IF p[1] = "" \/ Tail(p) = <<"">> THEN {}
           ELSE UNION {{ReplaceSubtree(t, n, subtree) : subtree \in remove[t[n].tree][Tail(p)]} :
                         n \in Subtrees(t) \cap {p[1]}}]
  IN  remove[tree][path]

ContainsFilename(tree, filename) ==
  LET contains[t \in Trees] ==
        \/ filename \in DOMAIN t \ Subtrees(t)
        \/ \E n \in Subtrees(t) : contains[t[n].tree]
  IN  contains[tree]
ContainsLargeBlob(tree, max) ==
  LET contains[t \in Trees] ==
        \/ \E n \in DOMAIN t : t[n].type = "blob" /\ t[n].size > max
        \/ \E n \in Subtrees(t) : contains[t[n].tree]
  IN  contains[tree]

(* Defect: a subtree that becomes empty stays. *)
RebuildWithEmpty(tree, kept, subtrees) ==
  [n \in kept |-> IF n \in DOMAIN subtrees THEN Subtree(subtrees[n]) ELSE tree[n]]

(* The tree with these rewritten subtrees and, else, the entries it keeps. *)
(* Only a subtree that changed is looked at for being empty.               *)
Rebuild(tree, kept, subtrees) ==
  LET gone == {n \in DOMAIN subtrees :
                 subtrees[n] # tree[n].tree /\ subtrees[n] = EmptyTree}
  IN  [n \in kept \ gone |->
         IF n \in DOMAIN subtrees THEN Subtree(subtrees[n]) ELSE tree[n]]

RemoveFilename(tree, filename) ==
  LET remove[t \in Trees] ==
        Rebuild(t,
                {n \in DOMAIN t : t[n].type # "tree" => n # filename},
                [n \in Subtrees(t) |-> remove[t[n].tree]])
  IN  remove[tree]
RemoveLargeBlobs(tree, max) ==
  LET remove[t \in Trees] ==
        Rebuild(t,
                {n \in DOMAIN t : t[n].type = "blob" => t[n].size <= max},
                [n \in Subtrees(t) |-> remove[t[n].tree]])
  IN  remove[tree]

-----------------------------------------------------------------------------
(* filter.c *)

(* git_tree_entry_bypath finds an entry: a trailing slash is ignored after *)
(* a directory, any other empty component finds nothing.                   *)
FindsPath(tree, path) ==
  LET finds[t \in Trees] ==
        [p \in Paths |->
           /\ p[1] \in DOMAIN t
           /\ \/ Len(p) = 1
              \/ /\ Len(p) > 1 /\ p[1] \in Subtrees(t)
                 /\ Tail(p) = <<"">> \/ finds[t[p[1]].tree][Tail(p)]]
  IN  finds[tree][path]

(* Defect: a blob of the limit itself is too large. *)
RuleMatchesAtLimit(rule, tree) ==
  CASE rule.kind = "path"     -> FindsPath(tree, rule.path)
    [] rule.kind = "filename" -> ContainsFilename(tree, rule.name)
    [] rule.kind = "large"    -> ContainsLargeBlob(tree, rule.max - 1)

RuleMatches(rule, tree) ==
  CASE rule.kind = "path"     -> FindsPath(tree, rule.path)
    [] rule.kind = "filename" -> ContainsFilename(tree, rule.name)
    [] rule.kind = "large"    -> ContainsLargeBlob(tree, rule.max)

FilterMatches(filter, tree) == \E i \in DOMAIN filter : RuleMatches(filter[i], tree)

ApplyRule(rule, tree) ==
  CASE rule.kind = "path"     -> RemovePath(tree, rule.path)
    [] rule.kind = "filename" -> {RemoveFilename(tree, rule.name)}
    [] rule.kind = "large"    -> {RemoveLargeBlobs(tree, rule.max)}

-----------------------------------------------------------------------------
(* filter_commit_tree, rule by rule, and bbfg_remove_head_tree_entry. *)

VARIABLES
  mode,      \* "history": a history is rewritten (BBFG_MISSING_PATH_IS_UNCHANGED);
             \* "commit": HEAD alone (BBFG_MISSING_PATH_IS_ERROR);
             \* "entry": bbfg_remove_head_tree_entry
  original,  \* the tree of the commit
  filter,    \* the filter of the command line
  current,   \* current_tree of bbfg_filter_apply_tree
  next,      \* the index of the rule to come
  pc         \* "match", "apply", "done", "failed"

vars == <<mode, original, filter, current, next, pc>>

Init ==
  /\ original \in Originals /\ filter \in Filters
  /\ mode \in {"history", "commit", "entry"}
  /\ mode # "history" => Len(filter) = 1 /\ filter[1].kind = "path"
  /\ current = original
  /\ next = 1 /\ pc = "match"

MatchFilter ==
  /\ pc = "match" /\ mode # "entry"
  /\ pc' = IF FilterMatches(filter, original) \/ mode = "commit" THEN "apply" ELSE "done"
  /\ UNCHANGED <<mode, original, filter, current, next>>

SkipRule ==
  /\ pc = "apply" /\ next \in DOMAIN filter
  /\ ~RuleMatches(filter[next], current)
  /\ next' = next + 1
  /\ UNCHANGED <<mode, original, filter, current, pc>>

(* Defect: every rule is applied to the tree of the commit. *)
ApplyNextRuleToOriginal ==
  /\ pc = "apply" /\ next \in DOMAIN filter
  /\ RuleMatches(filter[next], current)
  /\ current' \in ApplyRule(filter[next], original)
  /\ next' = next + 1
  /\ UNCHANGED <<mode, original, filter, pc>>

ApplyNextRule ==
  /\ pc = "apply" /\ next \in DOMAIN filter
  /\ RuleMatches(filter[next], current)
  /\ current' \in ApplyRule(filter[next], current)
  /\ next' = next + 1
  /\ UNCHANGED <<mode, original, filter, pc>>

(* Defect: a path is removed without asking whether it is there. *)
RuleFailsUnmatched ==
  /\ pc = "apply" /\ next \in DOMAIN filter
  /\ ApplyRule(filter[next], current) = {}
  /\ pc' = "failed"
  /\ UNCHANGED <<mode, original, filter, current, next>>

RuleFails ==
  /\ pc = "apply" /\ next \in DOMAIN filter
  /\ RuleMatches(filter[next], current)
  /\ ApplyRule(filter[next], current) = {}
  /\ pc' = "failed"
  /\ UNCHANGED <<mode, original, filter, current, next>>

Finish ==
  /\ pc = "apply" /\ next > Len(filter)
  /\ pc' = "done"
  /\ UNCHANGED <<mode, original, filter, current, next>>

RemoveEntry ==
  /\ pc = "match" /\ mode = "entry"
  /\ current' \in RemovePath(original, filter[1].path)
  /\ pc' = "done"
  /\ UNCHANGED <<mode, original, filter, next>>

RemoveEntryFails ==
  /\ pc = "match" /\ mode = "entry"
  /\ RemovePath(original, filter[1].path) = {}
  /\ pc' = "failed"
  /\ UNCHANGED <<mode, original, filter, current, next>>

Next ==
  \/ MatchFilter \/ SkipRule \/ ApplyNextRule \/ RuleFails \/ Finish
  \/ RemoveEntry \/ RemoveEntryFails

Spec == Init /\ [][Next]_vars

-----------------------------------------------------------------------------
(* Properties. *)

(* A tree seen as the set of its leaves with their paths.  A directory     *)
(* that is empty is a leaf, so the leaves determine the tree.              *)
Leaves(tree) ==
  LET leaves[t \in Trees] ==
        UNION {IF t[n].type = "tree" /\ t[n].tree # EmptyTree
               THEN {[path |-> <<n>> \o leaf.path, entry |-> leaf.entry] :
                       leaf \in leaves[t[n].tree]}
               ELSE {[path |-> <<n>>, entry |-> t[n]]} : n \in DOMAIN t}
  IN  leaves[tree]

(* What README says of each option, for one leaf: --delete removes one     *)
(* exact path (and what is below it), --delete-files a filename at any     *)
(* depth, --strip-blobs-bigger-than blobs strictly larger than the limit.  *)
Removes(rule, leaf) ==
  CASE rule.kind = "path" ->
         /\ Len(rule.path) <= Len(leaf.path)
         /\ \A i \in DOMAIN rule.path : leaf.path[i] = rule.path[i]
    [] rule.kind = "filename" ->
         leaf.entry.type # "tree" /\ leaf.path[Len(leaf.path)] = rule.name
    [] rule.kind = "large" ->
         leaf.entry.type = "blob" /\ leaf.entry.size > rule.max

(* The filtered tree has exactly the leaves that no rule removes: rules    *)
(* add up in any order, nothing else is lost, and no directory is left     *)
(* behind empty, at any depth, that was not empty in the commit.           *)
ResultIsWhatNoRuleRemoves ==
  pc = "done" =>
    Leaves(current) = {leaf \in Leaves(original) :
                         \A i \in DOMAIN filter : ~Removes(filter[i], leaf)}

(* bbfg_filter_matches_tree answers exactly whether applying the filter    *)
(* would change the tree, so a tree is kept only if it is clean, and a     *)
(* commit is given a new id only if it is not.                             *)
MatchesIffChanges ==
  pc = "done" => (FilterMatches(filter, original) <=> current # original)

(* A filtered tree is clean: no rule matches it, so filtering it again     *)
(* gives it back.  HistoryRewrite rests on this (TreesAssumption).         *)
ResultIsClean == pc = "done" => ~FilterMatches(filter, current)

(* The filter fails only over a path that ends in a slash and names a      *)
(* directory, which git_tree_entry_bypath finds and remove_path_subtree    *)
(* rejects; no path that finds nothing, and no rule that an earlier rule   *)
(* left nothing to do for, is an error.                                    *)
OnlyTrailingSlashFails ==
  pc = "failed" /\ mode # "entry" =>
    /\ filter[next].kind = "path"
    /\ filter[next].path[Len(filter[next].path)] = ""
    /\ FindsPath(original, filter[next].path)

(* --remove-head-entry does not ask git_tree_entry_bypath whether a path   *)
(* is there before it removes it, as the filter does.  The two agree but   *)
(* for a slash at the end, which tree.c refuses even after the name of a   *)
(* directory: it removes a path that is there and ends in a name, and      *)
(* refuses every other.                                                    *)
RefusesOnlyMissingOrSlash ==
  LET path == filter[1].path
      removable == FindsPath(original, path) /\ path[Len(path)] # ""
  IN  mode = "entry" => (pc = "done" => removable) /\ (pc = "failed" => ~removable)

(* What BBFG_MISSING_PATH_IS_ERROR, which bbfg_rewrite_head_commit passes   *)
(* on, and README.md:111 ("git rm --cached path/to/file &&", which fails if *)
(* the path is missing) say of the commands on HEAD alone.  They succeed:  *)
(* the mode only makes filter_commit_tree apply the filter without asking  *)
(* whether it matches, and bbfg_filter_apply_tree asks again.              *)
MissingPathIsError ==
  pc = "done" /\ mode = "commit" => FilterMatches(filter, original)
=============================================================================
