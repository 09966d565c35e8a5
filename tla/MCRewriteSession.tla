-------------------------- MODULE MCRewriteSession --------------------------
(***************************************************************************)
(* A branch, a tag and refs/heads/bbfg-rewrite over a history of two       *)
(* commits, each with a dirty or a clean tree, and tags of the second one. *)
(* The images are those that CleanRewrite's IsImageOf defines.             *)
(***************************************************************************)
EXTENDS RewriteSession, TLC

Objects == INSTANCE GitObjects

Roots == {Objects!Commit("a", FALSE, t, <<>>) : t \in {"dirty", "clean"}}
Children == {Objects!Commit("b", FALSE, t, <<p>>) : t \in {"dirty", "clean"}, p \in Roots}
MCIds ==
  Roots \cup Children \cup {Objects!Tag("v1", c) : c \in Children} \cup {Objects!BlobObject}
MCTypeOf == [o \in MCIds |-> o.type]
MCPeels == MCIds \ {Objects!BlobObject}

MCTip(id) == IF id.type = "tag" THEN id.target ELSE id
MCWalk(from) == from \cup UNION {Range(c.parents) : c \in from}

RECURSIVE MCImage(_, _)
MCImage(kept, id) ==
  IF id.type = "tag" THEN Objects!Tag(id.name, MCImage(kept, id.target))
  ELSE Objects!Commit(id.msg, FALSE, IF id \in kept THEN id.tree ELSE "clean",
                      [i \in DOMAIN id.parents |-> MCImage(kept, id.parents[i])])
MCHeadImage(c) == Objects!Commit(c.msg, FALSE, "clean", c.parents)

A == Objects!Commit("a", FALSE, "dirty", <<>>)
B == Objects!Commit("b", FALSE, "dirty", <<A>>)
T == Objects!Tag("v1", B)
MCStored == {A, B, T}

Main == "main"
V1 == "v1"
New == "bbfg-rewrite"
MCRefs == {Main, V1, New}
MCSpace == Main :> "heads" @@ V1 :> "tags" @@ New :> "heads"
MCListing == <<New, Main, V1>>
MCRepositories ==
  {Main :> b @@ V1 :> v @@ New :> n :
     b \in {B, Missing}, v \in {A, T}, n \in {Missing, A, T, Symbolic}}

MCCommands ==
  {[kind |-> "rewrite-refs", ref |-> Main, protect |-> p] : p \in BOOLEAN}
    \cup {[kind |-> "rewrite-ref", ref |-> r, protect |-> FALSE] : r \in {V1, New}}
    \cup {[kind |-> "rewrite-ref", ref |-> V1, protect |-> TRUE]}
    \cup {[kind |-> k, ref |-> Main, protect |-> TRUE] : k \in HeadCommands}
=============================================================================
