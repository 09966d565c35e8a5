-------------------------- MODULE MCRefTransaction --------------------------
(***************************************************************************)
(* A branch, a tag and a remote-tracking ref; a commit and a tag that a    *)
(* rewrite may write, a tag of a blob, and the id of no object.            *)
(***************************************************************************)
EXTENDS RefTransaction, TLC

MCRefs == {"main", "v1", "remote"}
MCSpace == "main" :> "heads" @@ "v1" :> "tags" @@ "remote" :> "other"
MCTypeOf == "c" :> "commit" @@ "t" :> "tag" @@ "tb" :> "tag" @@ "x" :> "absent"
MCPeels == {"c", "t"}

Update(name, target) == [name |-> name, target |-> target]
MCUpdates ==
  {<<>>,
   <<Update("main", "c"), Update("v1", "t")>>,
   <<Update("v1", "c"), Update("main", "c")>>,
   <<Update("v1", "t"), Update("main", "t")>>,
   <<Update("v1", "x")>>,
   <<Update("main", "c"), Update("remote", "c")>>}
=============================================================================
