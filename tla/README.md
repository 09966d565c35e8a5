# TLA+ models of bbfg

`bbfg` rewrites the history of a git repository: it removes paths, files by
name and large blobs from every commit, and moves branches and tags to the
rewritten commits.  This directory holds TLA+ models of the code in `src/src`,
the TLC configurations that check them on small repositories, and proofs, checked
by TLAPS, that hold for all repositories.

    tlc -config MCHistoryRewriteDump.cfg MCHistoryRewrite     # model checking
    tlapm HistoryRewriteProofs.tla                            # proofs

## The system

One process, one thread, one command per call.  Concurrency comes from outside:
other git processes lock, move, create and delete refs while bbfg runs.
Failure comes from every libgit2 call and every allocation, and from kills.

    cli.c --> main.c --> commands.c --+--> refs.c      which refs may be rewritten
                                      +--> rewrite.c   new commits and tags
                                      |      +--> filter.c --> tree.c   new trees
                                      |      +--> oid_map.c             old id -> new id
                                      |      +--> mempack.c             new objects on disk
                                      +--> refs.c      move the refs

| component | state it keeps | operations | what makes it correct |
| --- | --- | --- | --- |
| history rewrite, `rewrite.c` | three maps old id -> new id (commits, trees, tags), the results per ref | `bbfg_rewrite_ref_histories`, `bbfg_rewrite_ref_history`, `bbfg_rewrite_head_history`, `bbfg_rewrite_head_commit` | each commit and tag is mapped to what a reader would write down, whatever the order of the walk; protected tips keep their trees; what did not change keeps its id |
| object store, `mempack.c` | an in-memory backend in front of the object database | begin, pack (commits and trees, then tags), reset, abort | objects are durable before refs point to them; nothing durable dangles, also after a crash |
| object-id maps, `oid_map.c` | a search tree over entries owned by a growing array | get, put, value_at, dispose | a function; what is iterated over is what was put |
| ref updates, `refs.c` | a libgit2 transaction: lock files | `bbfg_write_refs`: validate, lock, validate again, queue, commit | only plain refs change, all or none on refusal, no lock is left |
| ref collection, `refs.c` | a list of names | `bbfg_collect_rewrite_refs`, `bbfg_validate_rewrite_ref` | exactly the direct branches and tags that peel to a commit |
| tree filter, `filter.c`, `tree.c` | a list of rules, the tree so far | match, apply, three kinds of removal | the tree without the named leaves and without emptied directories; match and apply agree |
| commands, `commands.c` | none across calls | eleven commands | refs move only after all new objects are durable, and only if nothing failed before |
| command line, `cli.c` | the options | parse | illegal combinations are refused; sizes do not overflow |
| entry point, `main.c`, `error.c` | the options | open the repository, add the path rule, dispatch | nothing is opened for a command line that is refused |
| lookups, `repository.c` | none | peel HEAD or a ref to a commit | what they read may have changed by the next read |
| inspection, `inspect.c` | none | print | - |

The hard behaviours: the tree memo that protected and unprotected commits
share; merges and the order of the walk; commits that become equal; recursion
through tags of tags; two packs written one after the other, with crashes in
between; refs that other processes move between the reading, the validation,
the lock and the commit; refs committed one by one; runs over a repository
that an earlier run changed in part; entries that are in a search tree before
their array owns them; products of sizes that wrap.  `PROJECT.json` lists them, each at its
line, with the properties that would notice.

## The modules

| module | what it is |
| --- | --- |
| `GitObjects` | git objects (content addressed: an object is its own id), maps, and what a run is given (`IsRun`) |
| `CleanRewrite` | abstract: what a history rewrite promises |
| `HistoryRewrite` | `rewrite.c` with `mempack.c`; implements `CleanRewrite` |
| `IdMap` | abstract: what `oid_map.h` promises |
| `OidMap` | `oid_map.c`: search tree, array and heap; implements `IdMap` |
| `RefRules` | which refs may be replaced, and by what |
| `RefUpdate` | abstract: what `bbfg_write_refs` promises |
| `RefTransaction` | `bbfg_write_refs` of `refs.c` among other git processes; implements `RefUpdate` |
| `FilterRules` | the rules of a filter, shared by the next two |
| `TreeFilter` | `filter.c` on `tree.c`, as `filter_commit_tree` and `bbfg_remove_head_tree_entry` call them |
| `CommandLine` | `cli.c` and `main.c`, from the arguments to the command |
| `RewriteSession` | the commands of `commands.c` as a whole, with the ref reads of `refs.c`, `repository.c` and `rewrite.c`, among other git processes, run and run again |
| `MCHistoryRewrite`, `MCOidMap`, `MCRefTransaction`, `MCTreeFilter`, `MCCommandLine`, `MCRewriteSession` | small instances of them |
| `HistoryRewriteProofs`, `TreeFilterProofs`, `OidMapProofs`, `RefTransactionProofs`, `CommandLineProofs`, `RewriteSessionProofs` | theorems about them |
| `GitObjectProofs`, `TreeProofs` | lemmas for the first two of these: chains of tags, and the recursive operations on trees |

How they compose.  Each of the long parts is checked in detail against a short
abstract module, and its callers use the short one:

    RewriteSession --- rewrite, in one step ---> CleanRewrite <== HistoryRewrite
         |                                        its maps: IdMap <== OidMap
         |                                        its CleanTree: TreeFilter
         +---------- update, step by step -----> RefUpdate    <== RefTransaction
    CommandLine: the filter and the command that the others are given

`RewriteSession` instantiates `RefUpdate` and takes its steps; the images it
assigns to refs are those that `CleanRewrite` defines (`ImagesAssumption`, which
`MCRewriteSession` discharges with objects of `GitObjects`).  `HistoryRewrite`
takes a tree as opaque and the filter as a function `CleanTree`, of which it
assumes that it is idempotent (`TreesAssumption`); `TreeFilter` opens the tree
and shows that every filter is (`ResultIsClean`, theorem `FiltersAreIdempotent`).

In each module the operators marked "Defect" are the mistakes that the
properties were tried against; no action uses them.

### HistoryRewrite

Its actions follow `bbfg_rewrite_ref_histories`.  The one-ref form
`rewrite_history_from_commit` is the same run with one ref, or with HEAD as a
direct ref.

| `pc` | action | code |
| --- | --- | --- |
| `walk` | `RewriteOneCommit`, one round of `rewrite_history_from_walk`: parents through the map, tree through memo, protection and filter, commit kept or created, result entered | `rewrite_one_commit` and what it calls |
| | `FinishWalk` | `GIT_ITEROVER` |
| `tips` | `CopyRewrittenTip`, `TagReturnsToTip`, one ref; `RewriteInnerTag`, `TagCommit`, `TagTag`, `TagTargetMissing`: the calls and returns of `rewrite_tag`, with `stack` as the C stack and `returned` as its out-parameter | `copy_rewritten_ref_tips`, `rewrite_tag` |
| `pack` | `WritePack`: the dump (new commits and their trees) or, with `ThinPack`, all of the mempack | `bbfg_mempack_commit` |
| `packtags` | `WriteTagPack`, in builds without thin packs | `write_tag_pack` |
| `reset` | `Reset` | `git_mempack_reset` |
| any | `Abort`: a failing call, a failing allocation or a kill; the mempack is lost, the packs stay | error returns, `bbfg_mempack_abort` |

The revwalk is external: `WalkMayReturn` lets it return any commit whose
parents were returned (`walked`), which is what
`GIT_SORT_TOPOLOGICAL | GIT_SORT_REVERSE` promises and no more.  That the map
holds what the walk returned is up to the code, and `LookupsNeverMiss` says so.  So are the object database (`Store`: an object that is
there already is not stored again; `Dumped`) and peeling.  A commit carries
what a rewrite copies (`msg`) and whether it has headers that
`git_commit_create` does not write again (`signed`).

A run is given, per ref, a kind, the object it points to and the commit it
peels to.  `push_ref_tip` gets the first two and the third from two reads of
the ref, so they need not belong together; `ReadInOnePiece` says when they do.
The result of a direct ref comes from its tip and that of a tag from the tag,
whether they belong together or not (`RefsPeelToTheirCommits`); only a tag may
lead out of the walk then.

### OidMap

`heap` is what is allocated, `root` what the search tree points to, `entries`
the array.  `CallPut`, `Reserve`, `Malloc`, `Overwrite` or `Insert`, and
`AppendEntry` are the statements of `bbfg_oid_map_put` in order;
`ReserveFails`, `MallocFails` and `InsertFails` are its three error returns.
`CallDispose`, `DeleteOne`, `FreeOne`, `FinishDispose` are
`bbfg_oid_map_dispose`, where `tdelete` compares entries while others are
already freed.  The C library's tree is external and is the set of the entries
it points to: its order and its balance decide nothing here.

### RefTransaction

`ValidateOne`, `LockOne`, `RecheckOne` and `QueueOne` are the rounds of the four
loops of `bbfg_write_refs` (what the fourth one notes, nobody else can see);
`Begin` is `git_transaction_new`.  `CommitOne` and `CommitDone` are the commit,
which libgit2 does ref by ref in the order of a hash table: it writes a locked
ref that has a target, and only unlocks one that has none.  Each loop and the
commit has an error return of its own (`Leave`, and `ValidateFails` to
`CommitFails` for failing calls): out of the call before there is a transaction,
and to the phase `free` after, where `FreeOne` and `FreeDone` are
`git_transaction_free` on the locks of the transaction (`taken`).  `Crash` is a
kill.  `OtherLocks` and `OtherUnlocks` are other processes, which may commit any
value, delete the ref, or remove a stale lock file.

`RefUpdate` has no locks and no loops.  A ref is written only while all that
are not yet written may be; from the first write on nobody else changes what is
left; a refusal comes before the first write.

### TreeFilter

A tree is a function from names to entries, which may be trees again, up to
`MaxDepth` (`Trees`); a path is the sequence of what stands between its slashes,
so it may have empty components.  `MatchFilter` is `bbfg_filter_matches_tree`;
`SkipRule`, `ApplyNextRule` and `RuleFails` are the loop of
`bbfg_filter_apply_tree`, where an operation that may fail yields a set of
results that is empty when it does; `RemoveEntry` and `RemoveEntryFails` are
`--remove-head-entry`.  `mode` tells who calls: a history rewrite, the
commands that rewrite HEAD's commit alone (they pass
`BBFG_MISSING_PATH_IS_ERROR`), or `--remove-head-entry`.  The properties
compare the result with the words of bbfg's README about each option, stated on the
leaves of the tree.

### CommandLine

`getopt_long` is external and gives a sequence of options with their arguments.
There is an action per branch of `parse_option`, with a second one where the
branch may fail: `ParseFilterOption` and `ParseFilterOptionFails` contain
`parse_blob_size` (`SizeFits`, `ParsedSize`, in arithmetic modulo `MaxSize + 1`)
and `append_rule` with its growing array.  `FinishOptions` is the end of
`bbfg_parse_options` (`ValidOptions` is `validate_options`); `OpenRepository`,
`AddPathFilter`, `RunCommand` and their failures are `main`.  `Legal` says what
a command line has to be without parsing it, in integers.

### RewriteSession

| `pc` | action | code |
| --- | --- | --- |
| `begin` | `BeginRewriteRefs` | start of `bbfg_collect_rewrite_refs`: which refs exist |
| | `BeginRewriteRef` | `bbfg_rewrite_ref` up to `bbfg_validate_rewrite_ref` |
| | `BeginHead` | `bbfg_lookup_head_commit` |
| `collect` | `CollectOne`, `CollectDone`: a listed ref is looked at, and taken if it is direct, in a namespace, and peels to a commit | `bbfg_collect_rewrite_refs` |
| `classify`, `peel` | `ClassifyOne`, `PeelOne`: the two reads of a ref, with others between them | `push_ref_tip`: `classify_ref`, `bbfg_lookup_ref_commit` |
| `rewrite` | `Rewrite`, `TargetMissing`, `RewriteStops` | `bbfg_rewrite_ref_histories`, `bbfg_rewrite_head_history`, `bbfg_rewrite_head_commit` |
| `update` | `WriteOne`, `UpdateDone`, `UpdateRefused`, `UpdateStops` | `bbfg_write_refs`, `bbfg_write_ref`, as in `RefUpdate` |
| before `rewrite` | `ReadStops` | a failing read or a kill |
| ended | `RunAgain` | the user |
| any | `OthersMove` | another git process |

Of a ref whose first read found a tag object the tag is looked up and has to lie
in the walk (`TargetsAreWalked`); of every other only the second read, the tip,
counts.  A symbolic ref is followed by the reads (to `Link`) but not by the collection or
the update.  `durable` is the repository's objects.  `held`, `quiet`, `before` and
`origin` are history variables, used by the properties only.

## The runs

| run | question | instance |
| --- | --- | --- |
| `history_dump` | Does a rewrite, in the build without thin packs, map each object to its clean image, keep the database closed, and implement `CleanRewrite`? | 32 inputs, 840 states |
| `history_thin` | Does the build with thin packs implement `CleanRewrite`, its promises about durability among others? | the same, 804 states |
| `protected_trees` | Are protected trees identity entries of the memo, as `BFG_C_REWRITE_STUDY.md` asks? No | the same |
| `oid_map` | Do tree and array stay one map, without leaks and dangling pointers, whatever allocations fail, and implement `IdMap`? | 3 keys, 2 values, 4 addresses, first capacity 1; 410,664 states |
| `ref_transaction` | Do ref updates only do what they may, return, and implement `RefUpdate`, among other processes? | 3 refs, 4 ids, 6 update lists; 221,184 states |
| `tree_filter` | Is a filtered tree what the options say, and is a path refused only for a reason? | 373 trees, 90 filters, 3 modes; 138,614 states |
| `missing_path` | Is a missing path an error of the commands on HEAD alone, as its mode is called? No | the same |
| `command_line` | Is what runs what was asked, and refused exactly what is not legal? | all lists of up to 3 of 16 options, all sizes 0 to 33 with each suffix; 57,895 states |
| `session` | Do whole commands keep refs whole, change all or none, assign images to the right refs, converge when run again, and end? | 3 refs, 8 commands, 16 repositories, 1 move by others, 2 runs; 419,680 states |

Bounds.  Two are in guards: `MaxMoves` (moves by others) and `MaxRuns` of
`RewriteSession`; all other state is finite because the constants are.

- `HistoryRewrite`: the inputs are picked for what can go wrong: a tip that
  shares a dirty tree with an older commit and a clean, signed commit in
  between; a merge whose parents become one commit; tags of tags shared by refs;
  repositories that an earlier run changed in part, or where it died between the
  packs; refs that moved between the two reads; a tag of a blob.  Each is taken
  with and without protection.  Larger histories add no new kind of step: a step
  looks at one commit, its parents and one entry of each map, and the proofs
  cover all sizes.
- `OidMap`: with first capacity 1 and three keys the array grows twice; a fourth
  address is there for the spare entry of an overwriting put.
- `RefTransaction`: two refs in one list (partial effects), two namespaces, a
  name outside them, and a target of each type.
- `TreeFilter`: two rules show every way a rule can affect the next one, depth
  two shows a directory that is emptied beside others that are not, depth three
  shows emptying on two levels.
- `CommandLine`: three options hold a command, a filter and one more, which may
  be a second of either or lift protection; a fourth is there for the array that
  grows from one to two to four places.  `Kilo = 2` and `MaxSize = 31` stand for
  1024 and 2^64 - 1: as there, the largest suffix fits and some
  numbers times each suffix do not.
- `RewriteSession`: a branch and a tag over one history, and
  `refs/heads/bbfg-rewrite`, missing, direct, symbolic, or pointing to a tag
  object (which collection accepts and validation refuses).  One move falls
  between any two reads; a second run meets everything the first one may leave.

Deadlock is checked where the system goes on for ever (`ref_transaction`,
`oid_map`) and off where it ends: a rewrite, a filtering, a command line,
the last run of a session.  `HistoryRewrite` states `Terminates`
and `RewriteSession` `RunsEnd` instead.

Fairness.  `WF(Step)` in `HistoryRewrite` and in `RefTransaction`: the process
is scheduled and no step waits for anybody (libgit2 fails at once on a lock
that is held).  `WF(Step \/ UpdateRefused)` in `RewriteSession`: the same, where
the update, if it cannot write, refuses; `RefTransaction`'s `Returns` says that it
does one or the other.  Nothing is assumed of failures, crashes and other processes.

### Two disagreements

`protected_trees`: `BFG_C_REWRITE_STUDY.md:78` asks that protected trees enter
the memo as identity mappings before cleaning begins.  `filter_commit_tree`
(`rewrite.c:209`) keeps the tree of a protected tip without entering it, so an
older commit with the same tree loses it.  The README of bbfg
describes the code: older commits are filtered, tips keep their trees.

`missing_path`: `bbfg_rewrite_head_commit` passes `BBFG_MISSING_PATH_IS_ERROR`
(`rewrite.c:339`), but all that `filter_commit_tree` does with it
(`rewrite.c:222`) is to apply the filter without asking whether it matches, and
`bbfg_filter_apply_tree` asks again (`filter.c:168`).  So `--commit-without-entry`
prints HEAD's own id for a path that is not there, where the equivalent that
the README of bbfg gives (`README.md:111`, `git rm --cached ... &&`) fails, and
`--remove-head-entry` does too.

### Shown, and worth knowing

- A ref that somebody moves after it was read and before it is locked is
  overwritten: the update does not compare (`refs.c:265`).
  `WritesImagesOfTheSameRef` says what still holds: the ref gets the image of
  something it held during the run.
- A branch that moves between its two reads (`rewrite.c:564`) does not fail the
  run: it gets the image of the commit that the second read found.  A ref that
  is a tag object at the first read gets the image of that tag, if its commit is
  in the walk, and fails the run if not.
- `RerunsConverge` is about runs without blob protection.  A protected run that is
  stopped after some refs moved and run again protects other tips, the new ones,
  and need not end where an uninterrupted run does.
- A branch that points to a tag object makes `--rewrite-refs` fail after the
  rewrite, at validation; no ref has moved then (`AllOrNothing`).

## The proofs

The theorems assume what the modules `ASSUME` of their constants, no more:
they hold for all histories, filters, builds, refs, lists and widths that satisfy it.

| assumption | what it says |
| --- | --- |
| `TreesAssumption`, `RunsAssumption` | the filter is idempotent and stays among the trees; a run is one the program can be given (the walk contains the parents of its commits, the database is closed, tags do not point to tags in a circle) |
| `NamesAssumption`, `DepthAssumption`, `OriginalsAssumption`, `FiltersAssumption` | no entry has an empty name; trees are at most `MaxDepth` deep, any number; what is filtered are such trees, by lists of rules.  With `SizesAssumption` of `TreeFilter`: sizes are numbers |
| `FirstCapacityAssumption`, `CapacityAssumption` | an array begins with at least one place |
| `SpaceAssumption`, `IdsAssumption`, `UpdatesAssumption` | each ref has a namespace, each id a type, commits peel to commits, an update list names no ref twice |
| `ArgListsAssumption`, `NullAssumption`, `SizesAssumption` of `CommandLine` | options have the arguments `getopt_long` gives them; one T fits in the width |
| `CommandsAssumption`, `RefNamesAssumption`, `ObjectsAssumption`, `BoundsAssumption` | commands, names, peeling and the first repositories are well formed and closed |
| `ImagesAssumption` | what a rewrite makes of an id has its type and peels to the image of its commit; without protection images are their own images; a walk contains its tips.  `HistoryRewriteProofs` proves of the rewrite itself that images peel to images (`RefsStillPeel`), that they are their own images (`RewritingIsStable`), and that there is one image for each commit and ref (`OneResult`) |

`HistoryRewriteProofs`:

| theorem | property |
| --- | --- |
| `TypeCorrect` | `TypeOK` |
| `CommitsAreFaithful` | `CommitsFaithful` |
| `HistoryIsClean` | `OnlyTipsStayDirty` |
| `IdentityIsExact` | `IdentityExactlyWhenUntouched` |
| `RewritingIsStable` | `ResultsAreFixedPoints` |
| `NoLookupMisses` | `LookupsNeverMiss` |
| `MapsNeverChange` | `MapsOnlyGrow` |
| `DurableStaysClosed` | `DurableIsClosed` |
| `ResultsBecomeDurable` | `ResultsAreDurable` |
| `NoTargetLeavesTheWalk` | `TargetsAreInTheWalk` |
| `RefsStillPeel` | `RefsPeelToTheirCommits` |
| `Refinement` | `ImplementsCleanRewrite` |
| `OneResult` | `CleanRewrite` leaves no choice: who wrote down a clean history by hand would get the same images and the same results |

`CommitsFaithful` is not inductive: when a commit is answered
from the memo, its tree is right only if the memo is.  `MapInv` adds
`MemoCorrect` (the memo holds only what the filter gives, which protected tips
would break if they entered it), `CommitsExact` (which of the two forms of
`create_rewritten_commit` each image has), `Recorded` (the map holds the commits
that the walk returned, which is why no lookup misses) and `WalkFinished`.
`RewritingIsStable` follows by looking at the one step that can disturb it,
with lemma `FixedPoint`: if the images of the parents are their own images and
the tree is clean, the image is its own image.  `TagsExact` and `ResultsExact`
say what the tags and the results are, and `ChainInv` that what `rewrite_tag`
hands back is the entry of the tag that was asked for.  `StoreInv` is why the database stays
closed: what waits in the mempack needs only what waits with it or is durable,
and no commit needs a tag, so the commits may be packed first.  With these,
each step maps to a step of `CleanRewrite` or to none: `Reset` to `Finish`,
every failure to `GiveUp`, the others to `Grow`.

Peeling is a recursion over objects, and ids that are hashes make it end:
`TagsNest` says that every set of tags has one whose target is not in the set.
`NestInv` is that this stays so, although new tags are stored all the time: each
points to what was stored before it.  From it `GitObjectProofs` derives what
`PeelIn` computes, and that a map of tags that follows their targets commutes
with peeling (`PeelImages`).  `StackInv` says where the calls of `rewrite_tag`
stand: on the chain from the current ref to its tip, so the chain ends in the
walk.  `OneResult` needs the same of commits (`CommitsNest`, from the order of the
walk): were there two clean histories, a commit on which they differ and whose
parents are not among these could not exist.

`TreeFilterProofs`:

| theorem | property |
| --- | --- |
| `TypeCorrect` | the tree at hand stays within the names, sizes and depth of those given |
| `OnlyRemovedLeavesAreLost` | `ResultIsWhatNoRuleRemoves` |
| `FilteringTwiceIsFilteringOnce` | `ResultIsClean` |
| `MatchingIsChanging` | `MatchesIffChanges` |
| `OnlySlashesFail` | `OnlyTrailingSlashFails` |
| `EntriesAreRefusedExactly` | `RefusesOnlyMissingOrSlash` |
| `ResultIsFiltered` | the order of the rules makes no difference: the result is the one tree with the leaves that no rule removes |
| `FiltersAreIdempotent` | `TreesAssumption` of `HistoryRewrite`, for every filter |

All about the leaves of a tree, which determine it (`LeavesDetermine`).  The
operations of `tree.c` recurse over directories, so first `TreeProofs` shows that
their equations have solutions (`TreeRecursion`, by the levels of `Trees`) and
that the operators of the model are those (`RemovePathEquation` and the like),
and gives induction over trees the form of a set that contains a tree as soon as it
contains its directories (`TreeInduction`); the base of both is that a set of
numbers has a least element.  Then each operation is told in terms of leaves:
`MatchesLeaves` (a rule matches if it removes a leaf, or is a path with a slash
at its end after a directory), `ApplyLeaves` (a rule loses the leaves it
removes and no others, and changes nothing if there are none), `RemovableFacts`
(`remove_path_subtree` and `git_tree_entry_bypath` agree on paths that end in a
name).  `FilterInv` adds
up the rules handled so far: the leaves of `current` are those of the commit
that none of them removes, and none of them matches `current` again, because
later rules only take leaves away (`FewerLeaves`).

`RefTransactionProofs`:

| theorem | property |
| --- | --- |
| `TypeCorrect` | `TypeOK` |
| `LocksProtect` | `LooksAgainUnderTheLocks` |
| `RefusalsAreClean` | `RefusalChangesNothing` |
| `LocksAreReleased` | `NoLockLeftBehind` |
| `SuccessesAreComplete` | `SuccessIsComplete` |
| `OnlyPlainRefsAreReplaced` | `ReplacesOnlyPlainRefs` |
| `Refinement` | `ImplementsRefUpdate` |

All from one invariant: what each loop has established for the updates it has
passed (`Passed`) still holds, for those not yet written.  Others cannot
disturb it because they change a ref only under its lock.  The locks of the call
are those in `taken`, which is empty before there is a transaction and has to be
empty again where it is freed.
`RefusalChangesNothing` and `SuccessIsComplete` are parts of what `RefUpdate`
promises, so the run checks them as such; the theorems state them by name.

`OidMapProofs`:

| theorem | property |
| --- | --- |
| `TypeCorrect` | `TypeOK` |
| `TreeStaysReadable` | `TreeIsReadable` |
| `NothingLeaks` | `EntriesAreOwned` |
| `ArrayIsLargeEnough` | `ArrayHasRoom` |
| `Refinement` | `ImplementsIdMap` |

The invariant says at each point of a put or a dispose what is allocated: the
entries of the array, from `next` on in a dispose, and the one that a put has in
hand; and that the tree points to these and their keys differ.  The refinement
takes `Overwrite` and `AppendEntry` to `PutSucceeds`, the failures to
`PutFails`, `CallDispose` to `Dispose`, and the rest of a dispose to nothing.

`CommandLineProofs`:

| theorem | property |
| --- | --- |
| `TypeCorrect` | `TypeOK` |
| `IllegalCommandsAreRefused` | `OnlyLegalCommandsRun` |
| `LegalCommandsAreAccepted` | `EveryLegalCommandRuns` |
| `CommandsRunAsAsked` | `RunsWhatWasAsked` |

The invariant relates the flags, the command and the rules to the options
already parsed.  The arithmetic is a lemma of its own: a number passes the
check by division exactly if its exact product fits, and then the product
modulo the width is the exact one, for every width.

`RewriteSessionProofs`:

| theorem | property |
| --- | --- |
| `TypeCorrect` | `TypeOK` |
| `RefsStayWhole` | `RefsNeverDangle` |
| `WritesAreOfTheSameRef` | `WritesImagesOfTheSameRef` |
| `RunsAreAllOrNothing` | `AllOrNothing` |
| `Convergence` | `RerunsConverge` |

The lists that a run fills stay of one length, index by index (`ListsInv`).
`DurableInv`: what waits in the update list is durable already, with its commit,
so a ref may be moved to it.  `HeldInv`: what each of the two reads found in a
ref is something it held, if not the same thing.  `QuietInv`: while nobody interferes, the refs read are those the run
began with, so the results are what is expected of each ref, and the refs are
the first ones with the written ones replaced.  `RerunInv`: a ref is at its
first value or its image; since an image is its own image, the next run expects
of it what the first one did.

Only model-checked: `Terminates`, `Returns` and `RunsEnd`, because liveness under
fairness is out of the prover's reach, and the two disagreements, which are
counterexamples.  Every other property of every run is stated by a theorem.
Where the code recurses, over tags or trees, the proofs go by sets of
counterexamples: a least tree, or a tag whose target is none, cannot be one.

## Not modelled

- `inspect.c` and the printing commands: they read and print, and keep nothing.
- `--rebuild-head-tree`: it writes a tree that is there already.
- The order and balance of the C library's search tree, the splitting of `argv`
  by `getopt_long`, the formats of objects, packs and refs, and libgit2's hash
  table: external, taken as what the code may rely on.
- Messages, reflog messages and exit codes beyond success and failure.
- Memory, except in `OidMap` and for the rules of a filter: everywhere else a
  failing allocation is one of the failures that may come at any step.
- The build, the benchmark and CI, except the choice of thin packs, which is the
  constant `ThinPack` of `HistoryRewrite`.
