----------------------------- MODULE GitObjects -----------------------------
(***************************************************************************)
(* The vocabulary of a rewrite: git objects, the old-id -> new-id maps of  *)
(* src/src/oid_map.c, and the input of one run.                            *)
(*                                                                         *)
(* Git objects are content addressed, so an object is its own id: a commit *)
(* or a tag is the record of what its id hashes, and two objects with the  *)
(* same content are the same object.  A tree is opaque: it stands for      *)
(* itself and all it reaches.                                              *)
(***************************************************************************)
EXTENDS Naturals, Sequences, Functions

(* BbfgOidMap: a function from old ids to new ids; putting a known id       *)
(* again overwrites its image.                                              *)
EmptyMap == [x \in {} |-> x]
Put(map, key, value) ==
  [k \in DOMAIN map \cup {key} |-> IF k = key THEN value ELSE map[k]]

(***************************************************************************)
(* Objects.  "msg" stands for what a rewrite carries over (author,         *)
(* committer, encoding, message), "signed" for the presence of headers     *)
(* that git_commit_create does not write again (a signature, a mergetag).  *)
(***************************************************************************)
Commit(msg, signed, tree, parents) ==
  [type |-> "commit", msg |-> msg, signed |-> signed, tree |-> tree, parents |-> parents]
Tag(name, target) == [type |-> "tag", name |-> name, target |-> target]
TreeObject(tree) == [type |-> "tree", tree |-> tree]
BlobObject == [type |-> "blob"]

(* The objects that o names, without which git cannot read all of o. *)
Needs(o) ==
  CASE o.type = "commit" -> {TreeObject(o.tree)} \cup Range(o.parents)
    [] o.type = "tag"    -> {o.target}
    [] OTHER             -> {}

(* Every object of a set finds what it names in the set. *)
Closed(objects) == \A o \in objects : Needs(o) \subseteq objects

(* Tags do not go in circles: the id of a tag hashes its target.           *)
TagsNest(objects) ==
  \A set \in SUBSET {o \in objects : o.type = "tag"} :
    set # {} => \E t \in set : t.target \notin set

(* git_reference_peel: the object at the end of a chain of tags. *)
PeelIn(objects) ==
  LET peel[o \in objects] == IF o.type = "tag" THEN peel[o.target] ELSE o IN peel

(***************************************************************************)
(* The input of a run:                                                     *)
(*   refs     what push_ref_tips leaves in refs and tip_ids for each ref:  *)
(*            its kind, the object it points to and the commit it peels    *)
(*            to.  "id" and "tip" come from two reads of the ref and need  *)
(*            not agree when another process moved it in between.          *)
(*   walk     the commits the revwalk visits: the tips and their ancestors *)
(*   protect  BbfgFilter.protect_blobs                                     *)
(*   odb      the objects of the repository, perhaps with the leftovers of *)
(*            an earlier run                                               *)
(***************************************************************************)
IsCommitOf(c, walk, treeset) ==
  /\ c = Commit(c.msg, c.signed, c.tree, c.parents)
  /\ c.signed \in BOOLEAN
  /\ c.tree \in treeset
  /\ c.parents \in Seq(walk)
IsRef(ref, walk, odb) ==
  /\ ref.kind \in {"direct", "tag"}
  /\ ref.tip \in walk
  /\ ref.id \in odb
  /\ ref.id.type = IF ref.kind = "tag" THEN "tag" ELSE "commit"
IsRun(run, treeset) ==
  /\ run.refs \in Seq(Range(run.refs)) /\ run.refs # <<>>
  /\ \A i \in DOMAIN run.refs : IsRef(run.refs[i], run.walk, run.odb)
  /\ \A c \in run.walk : IsCommitOf(c, run.walk, treeset)
  /\ run.protect \in BOOLEAN
  /\ run.walk \subseteq run.odb
  /\ Closed(run.odb) /\ TagsNest(run.odb)

(* Defect: --no-blob-protection is ignored. *)
AlwaysProtectedTips(run) == {run.refs[i].tip : i \in DOMAIN run.refs}

(* protected_commit_ids: the tips of all refs of the run, unless            *)
(* --no-blob-protection is given.                                           *)
ProtectedTips(run) ==
  IF run.protect THEN {run.refs[i].tip : i \in DOMAIN run.refs} ELSE {}
=============================================================================
