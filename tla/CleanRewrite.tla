---------------------------- MODULE CleanRewrite ----------------------------
(***************************************************************************)
(* What a history rewrite promises, without walk order, memos, recursion   *)
(* or packs: it may make objects durable along the way, never one that     *)
(* names a missing object; and it ends, in one step, either failed with no *)
(* result, or done with the results that CleanHistory allows.  CleanHistory*)
(* leaves no choice: parents come before their children, and what a tag    *)
(* points to before the tag.  HistoryRewrite is shown to implement this.   *)
(***************************************************************************)
EXTENDS GitObjects

CONSTANTS Trees, CleanTree, Runs

VARIABLES
  run,      \* the input
  durable,  \* the objects a reader of the repository finds
  images,   \* original commit -> rewritten commit, once done
  retags,   \* original tag -> rewritten tag, once done
  results,  \* what each ref of the run is to point to, once done
  status    \* "busy", "done", "failed"

vars == <<run, durable, images, retags, results, status>>

(* The tree of c after the rewrite: a tip under protection keeps its own. *)
TreeAfter(c) == IF c \in ProtectedTips(run) THEN c.tree ELSE CleanTree[c.tree]

(* new is c over the images of its parents: the very same commit if nothing *)
(* of it changes, else a commit without the headers that are not copied.    *)
IsImageOf(new, c, map) ==
  LET parents == [i \in DOMAIN c.parents |-> map[c.parents[i]]] IN
    IF TreeAfter(c) = c.tree /\ parents = c.parents
    THEN new = c
    ELSE new = Commit(c.msg, FALSE, TreeAfter(c), parents)

(* Commits, tags and refs all move to the images of what they named. *)
CleanHistory(map, tagmap, refs) ==
  /\ DOMAIN map = run.walk
  /\ \A c \in run.walk : IsImageOf(map[c], c, map)
  /\ \A t \in DOMAIN tagmap : t.type = "tag"
  /\ \A t \in DOMAIN tagmap :
       \/ t.target \in DOMAIN map /\ tagmap[t] = Tag(t.name, map[t.target])
       \/ t.target \in DOMAIN tagmap /\ tagmap[t] = Tag(t.name, tagmap[t.target])
  /\ Len(refs) = Len(run.refs)
  /\ \A i \in DOMAIN run.refs :
       run.refs[i].kind = "tag" => run.refs[i].id \in DOMAIN tagmap
  /\ \A i \in DOMAIN run.refs :
       refs[i] = [commit |-> map[run.refs[i].tip],
                  ref |-> IF run.refs[i].kind = "tag"
                          THEN tagmap[run.refs[i].id]
                          ELSE map[run.refs[i].tip]]

Init ==
  /\ run \in Runs
  /\ durable = run.odb
  /\ images = EmptyMap /\ retags = EmptyMap
  /\ results = <<>>
  /\ status = "busy"

Grow ==
  /\ status = "busy"
  /\ durable \subseteq durable' /\ Closed(durable')
  /\ UNCHANGED <<run, images, retags, results, status>>

Finish ==
  /\ status = "busy"
  /\ status' = "done"
  /\ CleanHistory(images', retags', results')
  /\ \A i \in DOMAIN results' : {results'[i].commit, results'[i].ref} \subseteq durable
  /\ UNCHANGED <<run, durable>>

GiveUp ==
  /\ status = "busy"
  /\ status' = "failed"
  /\ UNCHANGED <<run, durable, images, retags, results>>

Next == Grow \/ Finish \/ GiveUp

Spec == Init /\ [][Next]_vars
=============================================================================
