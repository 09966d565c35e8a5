--------------------------- MODULE RewriteSession ---------------------------
(***************************************************************************)
(* A whole command that moves refs, from its reading of the refs to their  *)
(* update: src/src/commands.c over the ref reads of src/src/refs.c,        *)
(* src/src/repository.c and push_ref_tips of src/src/rewrite.c, among      *)
(* other git processes, with failures and kills at any point, and run      *)
(* again afterwards.                                                       *)
(*                                                                         *)
(* The two long parts are taken by their contracts: the rewrite of the     *)
(* history is one step, with the images that CleanRewrite defines (the     *)
(* constants Walk, Image, HeadImage), and the update of the refs takes the *)
(* steps of RefUpdate.                                                     *)
(***************************************************************************)
EXTENDS RefRules, Functions

CONSTANTS
  Commands,       \* the commands considered, [kind, ref, protect]
  Listing,        \* all refs, as git_reference_foreach_name lists them
  HeadBranch,     \* the branch HEAD points to
  RewriteRef,     \* refs/heads/bbfg-rewrite
  Link,           \* the ref that a symbolic ref points to
  Tip(_),         \* the commit an id of Peels peels to
  Walk(_),        \* the commits a walk from a set of tips visits
  Image(_, _),    \* what a rewrite with a set of protected tips makes of an id
  HeadImage(_),   \* what bbfg_rewrite_head_commit makes of a commit
  Stored,         \* the objects of the repository
  Repositories,   \* its refs, at the beginning
  MaxMoves,       \* bound: the refs others move, in all
  MaxRuns         \* bound: the runs of the command

RefCommands == {"rewrite-refs", "rewrite-ref"}
HeadCommands == {"commit-without-entry", "write-rewrite-ref", "rewrite-head-history"}

Commits == {id \in Ids : TypeOf[id] = "commit"}

ASSUME CommandsAssumption ==
  \A c \in Commands :
    c.kind \in RefCommands \cup HeadCommands /\ c.ref \in Refs /\ c.protect \in BOOLEAN
ASSUME RefNamesAssumption ==
  /\ {HeadBranch, RewriteRef, Link} \subseteq Refs /\ Space[RewriteRef] = "heads"
  /\ Listing \in Seq(Refs) /\ Range(Listing) = Refs
  /\ \A i, j \in DOMAIN Listing : Listing[i] = Listing[j] => i = j
ASSUME ObjectsAssumption ==
  /\ Peels \subseteq Ids /\ \A id \in Peels : TypeOf[id] \in {"commit", "tag"}
  /\ \A id \in Peels : Tip(id) \in Commits /\ (id \in Commits => Tip(id) = id)
  /\ Stored \subseteq Ids /\ \A id \in Stored \cap Peels : Tip(id) \in Stored
  /\ Repositories \subseteq [Refs -> Stored \cup {Missing, Symbolic}]
(* What a rewrite makes of an id is of its type, and of a tag, a tag of the *)
(* image of its commit; and without protection rewriting again changes     *)
(* nothing (ResultsAreFixedPoints).                                        *)
ASSUME ImagesAssumption ==
  /\ \A id \in Peels : Image({}, Image({}, id)) = Image({}, id)
  /\ \A tips \in SUBSET Commits : \A id \in Peels :
       /\ Image(tips, id) \in Peels /\ TypeOf[Image(tips, id)] = TypeOf[id]
       /\ Tip(Image(tips, id)) = Image(tips, Tip(id))
  /\ \A c \in Commits : HeadImage(c) \in Commits
  /\ \A tips \in SUBSET Commits : tips \subseteq Walk(tips) /\ Walk(tips) \subseteq Commits
ASSUME BoundsAssumption == MaxMoves \in Nat /\ MaxRuns \in Nat

VARIABLES
  refs,     \* the refs of the repository
  durable,  \* the objects of the repository
  cmd,      \* the command
  pc,       \* "begin", "collect", "classify", "peel", "rewrite", "update",
            \* "done", "failed", "crashed"
  next,     \* the index of the loop that pc names
  listed,   \* the refs that existed when the listing began
  names,    \* rewrite_refs[i].name
  reads,    \* rewrite_refs[i].original_ref_id: what classify_ref read
  tips,     \* tip_ids[i]: what bbfg_lookup_ref_commit read
  updates,  \* the list for bbfg_write_refs
  written,  \* the refs it has changed
  call,     \* "none", then the status of the call: see RefUpdate
  reason,   \* why the run failed: "none", "invalid", "read", "target", "refused", "io"
  before,   \* the refs when the run began,
  origin,   \* and when the first run began
  held,     \* the values each ref has had during the run, but for what the run wrote
  quiet,    \* nobody else has moved a ref during the run
  moves,    \* bounded counters: moves by others, and runs begun
  runs

reading == <<next, listed, names, reads, tips>>
calling == <<updates, written, call>>
history == <<before, origin, held, quiet, moves, runs>>
vars == <<refs, durable, cmd, pc, reading, calling, reason, history>>

Update == INSTANCE RefUpdate WITH status <- call, Updates <- {}

Init ==
  /\ refs \in Repositories /\ durable = Stored
  /\ cmd \in Commands
  /\ pc = "begin" /\ reason = "none"
  /\ next = 1 /\ listed = {} /\ names = <<>> /\ reads = <<>> /\ tips = <<>>
  /\ updates = <<>> /\ written = {} /\ call = "none"
  /\ before = refs /\ held = [r \in Refs |-> {refs[r]}] /\ quiet = TRUE
  /\ origin = refs /\ moves = 0 /\ runs = 1

-----------------------------------------------------------------------------
(* Reading the refs.                                                       *)

Fail(why) ==
  /\ pc' = "failed" /\ reason' = why
  /\ UNCHANGED <<refs, durable, cmd, reading, calling, history>>

(* What a reader who follows symbolic refs finds. *)
Resolved(r) == IF refs[r] = Symbolic THEN refs[Link] ELSE refs[r]

(* is_rewrite_namespace and is_rewriteable_ref: a direct ref to a commit or *)
(* to a tag of one.                                                        *)
Rewriteable(r) == ValidName(r) /\ refs[r] \in Peels

(* bbfg_collect_rewrite_refs *)
BeginRewriteRefs ==
  /\ pc = "begin" /\ cmd.kind = "rewrite-refs"
  /\ listed' = {r \in Refs : refs[r] # Missing}
  /\ pc' = "collect"
  /\ UNCHANGED <<refs, durable, cmd, next, names, reads, tips, calling, reason, history>>

(* Defect: only branches are collected. *)
CollectOneBranch ==
  LET r == Listing[next] IN
    /\ pc = "collect" /\ next <= Len(Listing)
    /\ names' = IF r \in listed /\ Rewriteable(r) /\ Space[r] = "heads"
                THEN Append(names, r) ELSE names
    /\ next' = next + 1
    /\ UNCHANGED <<refs, durable, cmd, pc, listed, reads, tips, calling, reason, history>>

CollectOne ==
  LET r == Listing[next] IN
    /\ pc = "collect" /\ next <= Len(Listing)
    /\ names' = IF r \in listed /\ Rewriteable(r) THEN Append(names, r) ELSE names
    /\ next' = next + 1
    /\ UNCHANGED <<refs, durable, cmd, pc, listed, reads, tips, calling, reason, history>>

(* Defect: the index of the listing is used for the list. *)
CollectDoneKeepsIndex ==
  /\ pc = "collect" /\ next > Len(Listing)
  /\ pc' = IF names = <<>> THEN "done" ELSE "classify"
  /\ UNCHANGED <<refs, durable, cmd, next, listed, names, reads, tips, calling, reason, history>>

(* Nothing collected: the command succeeds without doing anything. *)
CollectDone ==
  /\ pc = "collect" /\ next > Len(Listing)
  /\ pc' = IF names = <<>> THEN "done" ELSE "classify"
  /\ next' = 1
  /\ UNCHANGED <<refs, durable, cmd, listed, names, reads, tips, calling, reason, history>>

(* bbfg_rewrite_ref begins with bbfg_validate_rewrite_ref. *)
BeginRewriteRef ==
  /\ pc = "begin" /\ cmd.kind = "rewrite-ref"
  /\ IF Rewriteable(cmd.ref)
     THEN /\ names' = <<cmd.ref>> /\ pc' = "classify"
          /\ UNCHANGED <<refs, durable, cmd, next, listed, reads, tips, calling, reason, history>>
     ELSE Fail("invalid")

(* bbfg_lookup_head_commit *)
BeginHead ==
  /\ pc = "begin" /\ cmd.kind \in HeadCommands
  /\ IF Resolved(HeadBranch) \in Peels
     THEN /\ names' = <<RewriteRef>>
          /\ reads' = <<Tip(Resolved(HeadBranch))>> /\ tips' = <<Tip(Resolved(HeadBranch))>>
          /\ pc' = "rewrite"
          /\ UNCHANGED <<refs, durable, cmd, next, listed, calling, reason, history>>
     ELSE Fail("read")

(* classify_ref *)
Classified == {id \in Ids : TypeOf[id] \in {"commit", "tag"}}
ClassifyOne ==
  LET id == Resolved(names[next]) IN
    /\ pc = "classify"
    /\ IF id \in Classified
       THEN /\ reads' = Append(reads, id)
            /\ pc' = "peel"
            /\ UNCHANGED <<refs, durable, cmd, next, listed, names, tips, calling, reason, history>>
       ELSE Fail("read")

(* bbfg_lookup_ref_commit, the second reading of the same ref. *)
PeelOne ==
  LET id == Resolved(names[next]) IN
    /\ pc = "peel"
    /\ IF id \in Peels
       THEN /\ tips' = Append(tips, Tip(id))
            /\ next' = next + 1
            /\ pc' = IF next < Len(names) THEN "classify" ELSE "rewrite"
            /\ UNCHANGED <<refs, durable, cmd, listed, names, reads, calling, reason, history>>
       ELSE Fail("read")

-----------------------------------------------------------------------------
(* Rewriting and updating.                                                 *)

(* bbfg_rewrite_head_commit, which rewrites no history. *)
HeadAlone == cmd.kind \in {"commit-without-entry", "write-rewrite-ref"}

(* Defect: --no-blob-protection is ignored. *)
ProtectedAlways == Range(tips)

(* protected_commit_ids; bbfg_rewrite_head_commit uses none. *)
Protected == IF cmd.protect THEN Range(tips) ELSE {}

(* Defect: a tag is replaced by the commit it peels to. *)
ResultOfTip(i) ==
  IF HeadAlone THEN HeadImage(tips[i]) ELSE Image(Protected, tips[i])

(* rewrite_refs[i].rewritten_ref_id *)
ResultOf(i) ==
  IF HeadAlone THEN HeadImage(tips[i])
  ELSE Image(Protected, IF TypeOf[reads[i]] = "tag" THEN reads[i] ELSE tips[i])

(* A tag whose commit the walk did not meet, because the ref moved between *)
(* its two readings, cannot be rewritten.  Of a branch, or of a tag that   *)
(* is no object of its own, only the second reading counts: its tip.       *)
TargetsAreWalked ==
  \A i \in DOMAIN reads : TypeOf[reads[i]] = "tag" =>
    reads[i] \in Peels /\ Tip(reads[i]) \in Walk(Range(tips))

NewCommits ==
  IF HeadAlone THEN {HeadImage(c) : c \in Range(tips)}
  ELSE {Image(Protected, c) : c \in Walk(Range(tips))}
Results == {ResultOf(i) : i \in DOMAIN names}

(* Defect: the refs are updated although the pack was not written. *)
RewriteUnpacked ==
  /\ pc = "rewrite" /\ TargetsAreWalked
  /\ updates' = [i \in DOMAIN names |-> [name |-> names[i], target |-> ResultOf(i)]]
  /\ IF cmd.kind = "commit-without-entry"
     THEN pc' = "done" /\ UNCHANGED call ELSE pc' = "update" /\ call' = "busy"
  /\ UNCHANGED <<refs, durable, cmd, reading, written, reason, history>>

Rewrite ==
  /\ pc = "rewrite" /\ TargetsAreWalked
  /\ durable' = durable \cup NewCommits \cup Results
  /\ updates' = [i \in DOMAIN names |-> [name |-> names[i], target |-> ResultOf(i)]]
  /\ IF cmd.kind = "commit-without-entry"
     THEN pc' = "done" /\ UNCHANGED call ELSE pc' = "update" /\ call' = "busy"
  /\ UNCHANGED <<refs, cmd, reading, written, reason, history>>

TargetMissing ==
  /\ pc = "rewrite" /\ ~TargetsAreWalked
  /\ Fail("target")

(* It failed or was killed, perhaps after the first of its packs. *)
RewriteStops(how) ==
  /\ pc = "rewrite"
  /\ durable' \in {durable, durable \cup NewCommits}
  /\ pc' = how /\ reason' = "io"
  /\ UNCHANGED <<refs, cmd, reading, calling, history>>

WriteOne(i) ==
  /\ pc = "update" /\ Update!Write(i)
  /\ UNCHANGED <<durable, cmd, pc, reading, reason, history>>
UpdateDone ==
  /\ pc = "update" /\ Update!Succeed
  /\ pc' = "done"
  /\ UNCHANGED <<durable, cmd, reading, reason, history>>
(* Defect: a ref that may not be changed is waited for. *)
UpdateRefusedLate ==
  /\ \A i \in DOMAIN updates : Update!MayChange(updates[i])
  /\ pc = "update" /\ Update!Refuse
  /\ pc' = "failed" /\ reason' = "refused"
  /\ UNCHANGED <<durable, cmd, reading, history>>
UpdateRefused ==
  /\ pc = "update" /\ Update!Refuse
  /\ pc' = "failed" /\ reason' = "refused"
  /\ UNCHANGED <<durable, cmd, reading, history>>
UpdateStops(how) ==
  /\ pc = "update" /\ Update!Stop
  /\ pc' = how /\ reason' = "io"
  /\ UNCHANGED <<durable, cmd, reading, history>>

Ended == pc \in {"done", "failed", "crashed"}

(* An I/O error or a kill while the refs are read. *)
ReadStops(how) ==
  /\ ~Ended /\ pc \notin {"rewrite", "update"}
  /\ pc' = how /\ reason' = "io"
  /\ UNCHANGED <<refs, durable, cmd, reading, calling, history>>

-----------------------------------------------------------------------------
(* Others, and the user who runs the command again.                        *)

OthersMove(r) ==
  /\ moves < MaxMoves
  /\ Update!OthersChange(r) /\ refs'[r] \in durable \cup {Missing, Symbolic}
  /\ moves' = moves + 1 /\ held' = [held EXCEPT ![r] = @ \cup {refs'[r]}] /\ quiet' = FALSE
  /\ UNCHANGED <<durable, cmd, pc, reading, reason, before, origin, runs>>

RunAgain ==
  /\ Ended /\ runs < MaxRuns
  /\ pc' = "begin" /\ reason' = "none"
  /\ next' = 1 /\ listed' = {} /\ names' = <<>> /\ reads' = <<>> /\ tips' = <<>>
  /\ updates' = <<>> /\ written' = {} /\ call' = "none"
  /\ before' = refs /\ held' = [r \in Refs |-> {refs[r]}] /\ quiet' = TRUE
  /\ runs' = runs + 1
  /\ UNCHANGED <<refs, durable, cmd, origin, moves>>

Step ==
  \/ BeginRewriteRefs \/ CollectOne \/ CollectDone \/ BeginRewriteRef \/ BeginHead
  \/ ClassifyOne \/ PeelOne \/ Rewrite \/ TargetMissing
  \/ (\E i \in DOMAIN updates : WriteOne(i)) \/ UpdateDone
Stops ==
  \/ UpdateRefused
  \/ \E how \in {"failed", "crashed"} : ReadStops(how) \/ RewriteStops(how) \/ UpdateStops(how)

Next == Step \/ Stops \/ (\E r \in Refs : OthersMove(r)) \/ RunAgain

Spec == Init /\ [][Next]_vars
(* The process runs by itself, and bbfg_write_refs returns (RefTransaction,*)
(* Returns): if it cannot write, it refuses.                               *)
FairSpec == Spec /\ WF_vars(Step \/ UpdateRefused)

-----------------------------------------------------------------------------
(* Properties.                                                             *)

TypeOK ==
  /\ refs \in [Refs -> RefValues] /\ durable \subseteq Ids /\ cmd \in Commands
  /\ next \in 1..(Len(Listing) + 1)
  /\ names \in Seq(Refs) /\ \A i, j \in DOMAIN names : names[i] = names[j] => i = j
  /\ reads \in Seq(Classified) /\ tips \in Seq(Commits)
  /\ pc \in {"classify", "peel"} => next \in DOMAIN names
  /\ IsUpdateList(updates) /\ written \subseteq Update!Names
  /\ call \in {"none", "busy", "ok", "refused", "stopped"}
  /\ pc \in {"begin", "collect", "classify", "peel", "rewrite", "update", "done", "failed", "crashed"}
  /\ reason \in {"none", "invalid", "read", "target", "refused", "io"}
  /\ before \in [Refs -> RefValues] /\ origin \in [Refs -> RefValues]
  /\ held \in [Refs -> SUBSET RefValues] /\ quiet \in BOOLEAN
  /\ moves \in 0..MaxMoves /\ runs \in Nat

(* At no moment, in no order of packs, failures, kills and reruns, does a  *)
(* ref point to an object that the repository does not have, nor to a tag  *)
(* of a commit that it does not have.                                      *)
RefsNeverDangle ==
  \A r \in Refs : refs[r] \in Ids =>
    refs[r] \in durable /\ (refs[r] \in Peels => Tip(refs[r]) \in durable)

(* What a ref held during the run, through a symbolic ref too. *)
Held(r) ==
  (held[r] \cup IF Symbolic \in held[r] THEN held[Link] ELSE {}) \cap Peels

(* A ref that is rewritten gets the image of what that ref, and no other,  *)
(* held during the run: of the very object it replaces, if nobody else     *)
(* moved the ref.  (If somebody did, after the refs were read, that move   *)
(* is lost: the update does not compare.)                                  *)
WritesImagesOfTheSameRef ==
  [][\A r \in written' \ written : cmd.kind \in RefCommands =>
       /\ \E id \in Held(r) : refs'[r] \in {Image(Protected, id), Image(Protected, Tip(id))}
       /\ held[r] = {refs[r]} => refs'[r] = Image(Protected, refs[r])]_vars

(* The refs that a run is to change, and to what, by the refs as they were *)
(* when it began.                                                          *)
Targeted ==
  CASE cmd.kind = "rewrite-refs" -> {r \in Refs : ValidName(r) /\ before[r] \in Peels}
    [] cmd.kind = "rewrite-ref" -> {cmd.ref}
    [] cmd.kind = "commit-without-entry" -> {}
    [] OTHER -> {RewriteRef}
Guarded(commits) == IF cmd.protect THEN commits ELSE {}
HeadCommit == Tip(IF before[HeadBranch] = Symbolic THEN before[Link] ELSE before[HeadBranch])
TargetedTips == {Tip(before[r]) : r \in Targeted}
Expected(r) ==
  IF r \notin Targeted THEN before[r]
  ELSE CASE cmd.kind \in RefCommands ->
              Image(Guarded(TargetedTips), before[r])
         [] cmd.kind = "write-rewrite-ref" -> HeadImage(HeadCommit)
         [] OTHER -> Image(Guarded({HeadCommit}), HeadCommit)

(* If nobody else moves a ref, a command that succeeds moved exactly the   *)
(* refs it is about, each to its image, and one that fails (over a name, a *)
(* branch that points to a tag object, a lock) moved none; only an I/O     *)
(* error or a kill may leave some moved and others not.                    *)
AllOrNothing ==
  quiet =>
    /\ pc = "done" => \A r \in Refs : refs[r] = Expected(r)
    /\ pc = "failed" /\ reason # "io" => refs = before

(* Without blob protection a rewrite of all refs can be stopped anywhere   *)
(* and run again: whatever the runs before did, no ref is ever anything    *)
(* but its first value or the image of it, and a run that succeeds leaves  *)
(* every branch and tag at its image.                                      *)
RerunsConverge ==
  cmd.kind = "rewrite-refs" /\ ~cmd.protect /\ moves = 0 =>
    \A r \in Refs :
      LET final == IF ValidName(r) /\ origin[r] \in Peels THEN Image({}, origin[r]) ELSE origin[r]
      IN  refs[r] \in {origin[r], final} /\ (pc = "done" => refs[r] = final)

(* Each run ends, whatever others do to the refs meanwhile. *)
RunsEnd == []<>Ended
=============================================================================
